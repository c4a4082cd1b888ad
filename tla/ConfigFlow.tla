------------------------------ MODULE ConfigFlow ------------------------------
(***************************************************************************)
(* The config flow (config_flow.py): the flows that add an entry with a    *)
(* personal access token or an OAuth login, and those that renew the login *)
(* of an entry that RMS has refused.                                       *)
(*                                                                         *)
(* Home Assistant's flow manager is external: a flow has a unique id in    *)
(* its context; a renewal has the one of its entry from the start; an      *)
(* entry has one renewal at most; the unique id a flow chooses ends it     *)
(* when another flow in progress has it; a new entry with the unique id of *)
(* another takes its place.                                                *)
(***************************************************************************)
EXTENDS Naturals

CONSTANTS
  Entries,   \* entry ids
  Flows,     \* flows there may be at a time
  Accounts,  \* RMS accounts
  Tokens,    \* personal access tokens, without the blanks around them
  Blank,     \* what is left of a token of blanks
  None

\* Unique ids: the subject of an OAuth token, or the fingerprint of a personal
\* one.  Sixteen digits of a hash keep the tokens of a user apart.
Subjects == {"sub"} \X Accounts
Fingerprints == {"pat"} \X Tokens
UniqueId == Subjects \cup Fingerprints

ASSUME ConfigFlowAssumption ==
  /\ None \notin UniqueId
  /\ None \notin Entries
  /\ Blank \notin Tokens

\* What an entry holds.  An OAuth token need not name its account: one that is
\* no JWT or has no subject does not.
PatLogin == [mode : {"pat"}, who : Tokens, named : {TRUE}]
OAuthLogin == [mode : {"oauth2"}, who : Accounts, named : BOOLEAN]
Login == PatLogin \cup OAuthLogin

VARIABLES
  listed,     \* the entries of the domain
  uid,        \* entry.unique_id, for those that were ever listed
  login,      \* entry.data
  flow,       \* the flows: where they are, their unique id, the entry they renew
  renewed,    \* history: entries whose login has been renewed
  turnedAway  \* history: a renewal with the account of the entry was refused

vars == <<listed, uid, login, flow, renewed, turnedAway>>

Steps == {"off", "menu", "pat", "oauth", "reauth", "reauth_pat"}
NoFlow == [step |-> "off", uid |-> None, renews |-> None]

TypeOK ==
  /\ listed \subseteq Entries
  /\ uid \in [Entries -> UniqueId \cup {None}]
  /\ login \in [Entries -> Login]
  /\ flow \in [Flows -> [step : Steps, uid : UniqueId \cup {None},
                         renews : Entries \cup {None}]]
  /\ renewed \subseteq Entries
  /\ turnedAway \in BOOLEAN

Init ==
  /\ listed = {}
  /\ uid = [e \in Entries |-> None]
  /\ login \in {[e \in Entries |-> any] : any \in Login}  \* of no entry yet
  /\ flow = [f \in Flows |-> NoFlow]
  /\ renewed = {}
  /\ turnedAway = FALSE

-------------------------------------------------------------------------------
(* Unique ids *)

\* _token_fingerprint
Fingerprint(token) == <<"pat", token>>

\* _extract_subject_from_token
Subject(l) == IF l.named THEN <<"sub", l.who>> ELSE None

\* async_set_unique_id raises: another flow in progress has the id
InProgress(f, id) ==
  \E g \in Flows \ {f} : flow[g].step # "off" /\ flow[g].uid = id

\* Mutant: an id that is taken ends no flow
Configured_never(id) == FALSE

\* _abort_if_unique_id_configured
Configured(id) == \E e \in listed : uid[e] = id

\* Mutants: the id of the flow, which has just been set, is compared; or only
\* the account of another entry is wrong
WrongAccount_flow(e, id) == FALSE
WrongAccount_taken(e, id) ==
  id # None /\ uid[e] # None /\ \E d \in listed \ {e} : uid[d] = id

\* A renewal may not put another account into an entry, as far as both are known
WrongAccount(e, id) == id # None /\ uid[e] # None /\ uid[e] # id

-------------------------------------------------------------------------------
(* What ends a flow *)

\* async_abort, and the user or Home Assistant giving up
End(f) == flow' = [flow EXCEPT ![f] = NoFlow]

Abort(f) == End(f) /\ UNCHANGED <<listed, uid, login, renewed, turnedAway>>

\* async_create_entry, and what the manager makes of it: other flows with the
\* unique id end, as soon as they have begun, and so does an entry that has it
Create(f, id, l) ==
  /\ \E e \in Entries \ listed :
       /\ \A g \in Flows : flow[g].renews # e
       /\ listed' = {d \in listed : id = None \/ uid[d] # id} \cup {e}
       /\ uid' = [uid EXCEPT ![e] = id]
       /\ login' = [login EXCEPT ![e] = l]
       /\ renewed' = renewed \ {e}
  /\ flow' = [g \in Flows |->
                IF g = f \/ (id # None /\ flow[g].uid = id /\ flow[g].step # "reauth")
                THEN NoFlow ELSE flow[g]]
  /\ UNCHANGED turnedAway

\* async_update_reload_and_abort: the data, not the unique id
Renew(f, l) ==
  /\ login' = [login EXCEPT ![flow[f].renews] = l]
  /\ renewed' = renewed \cup {flow[f].renews}
  /\ End(f)
  /\ UNCHANGED <<listed, uid, turnedAway>>

-------------------------------------------------------------------------------
(* Steps *)

\* async_step_user shows the menu ...
StartUser(f) ==
  /\ flow[f].step = "off"
  /\ flow' = [flow EXCEPT ![f].step = "menu"]
  /\ UNCHANGED <<listed, uid, login, renewed, turnedAway>>

\* ... and the user chooses
Choose(f) ==
  /\ flow[f].step = "menu"
  /\ \E step \in {"pat", "oauth"} : flow' = [flow EXCEPT ![f].step = step]
  /\ UNCHANGED <<listed, uid, login, renewed, turnedAway>>

\* async_step_pat: a blank token is asked for again
StepPat(f, token) ==
  /\ flow[f].step = "pat"
  /\ token # Blank
  /\ LET id == Fingerprint(token)
     IN  IF InProgress(f, id) \/ Configured(id) THEN Abort(f)
         ELSE Create(f, id, [mode |-> "pat", who |-> token, named |-> TRUE])

\* RMS refuses the login of an entry: async_start_reauth
StartReauth(f, e) ==
  /\ flow[f].step = "off"
  /\ e \in listed
  /\ \A g \in Flows : flow[g].renews # e
  /\ flow' = [flow EXCEPT ![f] = [step |-> "reauth", uid |-> uid[e], renews |-> e]]
  /\ UNCHANGED <<listed, uid, login, renewed, turnedAway>>

\* async_step_reauth: the entry may be gone by now
StepReauth(f) ==
  /\ flow[f].step = "reauth"
  /\ IF flow[f].renews \notin listed THEN Abort(f)
     ELSE /\ flow' = [flow EXCEPT ![f].step =
                        IF login[flow[f].renews].mode = "pat" THEN "reauth_pat" ELSE "oauth"]
          /\ UNCHANGED <<listed, uid, login, renewed, turnedAway>>

\* async_step_reauth_pat: whose token it is, is not asked
StepReauthPat(f, token) ==
  /\ flow[f].step = "reauth_pat"
  /\ token # Blank
  /\ Renew(f, [mode |-> "pat", who |-> token, named |-> TRUE])

\* async_oauth_create_entry of a flow that adds an entry.  Without a subject
\* nothing is checked.
OAuthAdds(f, l) ==
  /\ flow[f].step = "oauth" /\ flow[f].renews = None
  /\ LET id == Subject(l)
     IN  IF id # None /\ (InProgress(f, id) \/ Configured(id)) THEN Abort(f)
         ELSE Create(f, id, l)

\* Mutant: a subject that is configured ends a renewal too
Refused_configured(f, id) ==
  id # None /\ (InProgress(f, id) \/ Configured(id))

\* What ends a renewal without renewing
Refused(f, id) ==
  \/ id # None /\ InProgress(f, id)
  \/ WrongAccount(flow[f].renews, id)

\* async_oauth_create_entry of a flow that renews one
OAuthRenews(f, l) ==
  /\ flow[f].step = "oauth" /\ flow[f].renews # None
  /\ IF Refused(f, Subject(l))
     THEN /\ End(f)
          /\ turnedAway' = (turnedAway \/ (Subject(l) # None /\ uid[flow[f].renews] = Subject(l)))
          /\ UNCHANGED <<listed, uid, login, renewed>>
     ELSE Renew(f, l)

\* The user removes an entry, and with it the renewals of it that have begun
Remove(e) ==
  /\ e \in listed
  /\ listed' = listed \ {e}
  /\ flow' = [f \in Flows |-> IF flow[f].renews = e /\ flow[f].step # "reauth" THEN NoFlow
                              ELSE flow[f]]
  /\ UNCHANGED <<uid, login, renewed, turnedAway>>

Next ==
  \/ \E f \in Flows :
       \/ StartUser(f) \/ Choose(f) \/ StepReauth(f)
       \/ \E token \in Tokens \cup {Blank} : StepPat(f, token) \/ StepReauthPat(f, token)
       \/ \E l \in OAuthLogin : OAuthAdds(f, l) \/ OAuthRenews(f, l)
       \/ \E e \in Entries : StartReauth(f, e)
       \/ flow[f].step # "off" /\ Abort(f)
  \/ \E e \in Entries : Remove(e)

Spec == Init /\ [][Next]_vars

-------------------------------------------------------------------------------
(* Properties *)

\* An entry with a unique id keeps to its account: whatever renewals it goes
\* through, beside those of other entries, a login that names its account names
\* the one the entry was added for.
RightAccount ==
  \A e \in listed :
    login[e].mode = "oauth2" /\ login[e].named /\ uid[e] # None => uid[e] = Subject(login[e])

\* The same login is not in two entries, although renewals change logins and
\* leave unique ids: of two with one account, one was added before RMS named it,
\* and of two with one token, one has had its token replaced.
SameLoginOnce ==
  \A d, e \in listed :
    d # e /\ login[d] = login[e] /\ login[d].named =>
      IF login[d].mode = "pat" THEN d \in renewed \/ e \in renewed
      ELSE uid[d] = None \/ uid[e] = None

\* A renewal with the very account of its entry is never refused, neither as
\* another account nor for another flow in progress with its unique id.
OwnAccountAccepted == ~turnedAway

\* What a login says of its account
Identity == [l \in Login |-> IF l.mode = "pat" THEN Fingerprint(l.who) ELSE Subject(l)]

\* The entries there are, without what is left of removed ones
Stored == [e \in listed |-> [uid |-> uid[e], login |-> login[e]]]

Registry == INSTANCE EntryRegistry
              WITH PatLogins <- PatLogin, OAuthLogins <- OAuthLogin, entries <- Stored

\* The flows take several steps, in any order with those of other flows and with
\* removals, and yet each adds a whole entry, renews one or does nothing: the
\* checks made at the last step still hold when it writes, so no new entry takes
\* the place of another, no renewal revives an entry that is gone, and none
\* changes a token entry into an OAuth one or the account.
FlowsAreAtomic == Registry!Spec

\* What makes them inductive: entries have unique ids of their own kind, the
\* fingerprint being of the first token; a flow with the unique id of an entry
\* renews it, and no other does.
IdInv ==
  /\ \A d, e \in listed : uid[d] = uid[e] /\ uid[d] # None => d = e
  /\ \A e \in listed :
       IF login[e].mode = "pat"
       THEN uid[e] \in Fingerprints /\ (e \in renewed \/ uid[e] = Fingerprint(login[e].who))
       ELSE uid[e] \in Subjects \cup {None}

FlowInv ==
  /\ \A f \in Flows :
       /\ flow[f].step = "off" => flow[f] = NoFlow
       /\ flow[f].step \in {"menu", "pat"} => flow[f].renews = None
       /\ flow[f].step \in {"reauth", "reauth_pat"} => flow[f].renews # None
       /\ flow[f].renews = None => flow[f].uid = None
       /\ flow[f].renews # None /\ flow[f].step # "reauth" =>
            /\ flow[f].renews \in listed
            /\ (flow[f].step = "reauth_pat") <=> (login[flow[f].renews].mode = "pat")
       /\ flow[f].renews \in listed => flow[f].uid = uid[flow[f].renews]
  /\ \A f, g \in Flows : flow[f].renews = flow[g].renews /\ flow[f].renews # None => f = g
  /\ \A f \in Flows, e \in listed : flow[f].uid = uid[e] /\ uid[e] # None => flow[f].renews = e

IInv ==
  /\ TypeOK
  /\ IdInv
  /\ FlowInv
  /\ RightAccount
  /\ SameLoginOnce
  /\ OwnAccountAccepted
===============================================================================
