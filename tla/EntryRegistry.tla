----------------------------- MODULE EntryRegistry -----------------------------
(***************************************************************************)
(* What the config flows promise of the entries: each is as good as one    *)
(* step.  An entry is added whole, under an identity no other has, renewed *)
(* without a change of its kind or its account, or removed; nothing else   *)
(* happens to it, however many forms are open at the time.                 *)
(***************************************************************************)
CONSTANTS
  Entries,      \* entry ids
  PatLogins,    \* logins with a personal access token
  OAuthLogins,  \* OAuth logins
  Identity,     \* what a login says of its account: a function, None if nothing
  None

VARIABLE entries   \* the entries of the domain: unique id and login of each

Logins == PatLogins \cup OAuthLogins

Init == entries = [e \in {} |-> None]

\* _abort_if_unique_id_configured and async_create_entry
Add(e, l) ==
  /\ e \notin DOMAIN entries
  /\ Identity[l] # None => \A d \in DOMAIN entries : entries[d].uid # Identity[l]
  /\ entries' = [d \in DOMAIN entries \cup {e} |->
                   IF d = e THEN [uid |-> Identity[l], login |-> l] ELSE entries[d]]

\* A token cannot be traced to an account, an OAuth login that names another is
\* refused.
SameAccount(e, l) ==
  \/ entries[e].login \in PatLogins /\ l \in PatLogins
  \/ /\ entries[e].login \in OAuthLogins /\ l \in OAuthLogins
     /\ entries[e].uid = Identity[l] \/ None \in {entries[e].uid, Identity[l]}

\* async_update_reload_and_abort
Renew(e, l) ==
  /\ e \in DOMAIN entries
  /\ SameAccount(e, l)
  /\ entries' = [entries EXCEPT ![e] = [uid |-> @.uid, login |-> l]]

Remove(e) ==
  /\ e \in DOMAIN entries
  /\ entries' = [d \in DOMAIN entries \ {e} |-> entries[d]]

Next == \E e \in Entries : Remove(e) \/ \E l \in Logins : Add(e, l) \/ Renew(e, l)

Spec == Init /\ [][Next]_entries
===============================================================================
