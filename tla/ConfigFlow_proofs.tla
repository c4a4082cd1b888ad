-------------------------- MODULE ConfigFlow_proofs ---------------------------
(***************************************************************************)
(* Proofs about ConfigFlow for any number of entries, flows, accounts and  *)
(* tokens.  An entry is created by one operator and renewed by one, so     *)
(* there is a lemma for each, with what its callers have checked before as *)
(* hypotheses; the steps of the flows apply them.                          *)
(***************************************************************************)
EXTENDS ConfigFlow, TLAPS

\* The kinds of unique ids: a fingerprint is that of one token, and no subject.
LEMMA FingerprintKind ==
  ASSUME NEW t \in Tokens
  PROVE  /\ Fingerprint(t) \in Fingerprints
         /\ Fingerprint(t) \in UniqueId
         /\ Fingerprint(t) # None
BY ConfigFlowAssumption DEF Fingerprint, Fingerprints, UniqueId

LEMMA FingerprintOfOne ==
  ASSUME NEW s \in Tokens, NEW t \in Tokens, Fingerprint(s) = Fingerprint(t)
  PROVE  s = t
BY DEF Fingerprint

LEMMA SubjectKind ==
  ASSUME NEW l \in OAuthLogin
  PROVE  /\ Subject(l) \in Subjects \cup {None}
         /\ Subject(l) \in UniqueId \cup {None}
         /\ l.named => Subject(l) \in Subjects /\ Subject(l) # None
         /\ ~l.named => Subject(l) = None
BY ConfigFlowAssumption DEF OAuthLogin, Subject, Subjects, UniqueId

LEMMA LoginKind ==
  /\ \A t \in Tokens : LET l == [mode |-> "pat", who |-> t, named |-> TRUE]
                       IN  l \in Login /\ l.mode = "pat" /\ l.who = t
  /\ \A l \in OAuthLogin : l \in Login /\ l.mode = "oauth2"
  /\ \A l \in Login : l.mode = "pat" => l.who \in Tokens
  /\ \A l \in Login : l.mode # "pat" => l \in OAuthLogin /\ l.mode = "oauth2"
BY DEF Login, PatLogin, OAuthLogin

LEMMA NoFlowTyped ==
  /\ NoFlow \in [step : Steps, uid : UniqueId \cup {None}, renews : Entries \cup {None}]
  /\ NoFlow.step = "off" /\ NoFlow.uid = None /\ NoFlow.renews = None
BY DEF NoFlow, Steps

\* None is no entry.
LEMMA NoneIsNoEntry == None \notin Entries
BY ConfigFlowAssumption

-------------------------------------------------------------------------------
(* Flows that end *)

\* Ending any flows keeps what relates the flows to the entries.
LEMMA FlowsEnd ==
  ASSUME TypeOK, FlowInv,
         \A f \in Flows : flow'[f] = NoFlow \/ flow'[f] = flow[f],
         UNCHANGED <<listed, uid, login>>
  PROVE  FlowInv'
<1> USE NoFlowTyped, NoneIsNoEntry DEF TypeOK
<1>1. \A f \in Flows :
        /\ flow'[f].step = "off" => flow'[f] = NoFlow
        /\ flow'[f].step \in {"menu", "pat"} => flow'[f].renews = None
        /\ flow'[f].step \in {"reauth", "reauth_pat"} => flow'[f].renews # None
        /\ flow'[f].renews = None => flow'[f].uid = None
        /\ flow'[f].renews # None /\ flow'[f].step # "reauth" =>
             /\ flow'[f].renews \in listed'
             /\ (flow'[f].step = "reauth_pat") <=> (login'[flow'[f].renews].mode = "pat")
        /\ flow'[f].renews \in listed' => flow'[f].uid = uid'[flow'[f].renews]
  BY DEF FlowInv
<1>2. \A f, g \in Flows : flow'[f].renews = flow'[g].renews /\ flow'[f].renews # None => f = g
  BY DEF FlowInv
<1>3. \A f \in Flows, e \in listed' :
        flow'[f].uid = uid'[e] /\ uid'[e] # None => flow'[f].renews = e
  BY DEF FlowInv
<1> QED BY <1>1, <1>2, <1>3 DEF FlowInv

\* What is said of the entries alone depends on nothing else.
LEMMA EntriesKept ==
  ASSUME IInv, UNCHANGED <<listed, uid, login, renewed>>
  PROVE  IdInv' /\ RightAccount' /\ SameLoginOnce'
BY DEF IInv, IdInv, RightAccount, SameLoginOnce

\* What a step does to the entries of the domain, as the registry sees it.
RegistryStep == [Registry!Next]_Stored

LEMMA RegistryKept ==
  ASSUME UNCHANGED <<listed, uid, login>>
  PROVE  RegistryStep
BY DEF RegistryStep, Stored

LEMMA StoredFacts ==
  /\ DOMAIN Stored = listed
  /\ \A e \in listed : /\ Stored[e] = [uid |-> uid[e], login |-> login[e]]
                       /\ Stored[e].uid = uid[e] /\ Stored[e].login = login[e]
BY DEF Stored

LEMMA IdentityFacts ==
  ASSUME NEW l \in Login
  PROVE  Identity[l] = IF l.mode = "pat" THEN Fingerprint(l.who) ELSE Subject(l)
BY DEF Identity

\* The flows see three kinds of changes of the entries.
LEMMA RegistryAdds ==
  ASSUME NEW e \in Entries, NEW l \in Login, e \notin listed,
         Identity[l] # None => \A d \in listed : uid[d] # Identity[l],
         listed' = listed \cup {e},
         uid'[e] = Identity[l], \A d \in listed : uid'[d] = uid[d],
         login'[e] = l, \A d \in listed : login'[d] = login[d]
  PROVE  RegistryStep
<1>1. Stored' = [d \in listed \cup {e} |->
                   IF d = e THEN [uid |-> Identity[l], login |-> l] ELSE Stored[d]]
  BY StoredFacts DEF Stored
<1>2. Registry!Add(e, l)
  BY <1>1, StoredFacts DEF Registry!Add
<1>3. l \in Registry!Logins
  BY DEF Registry!Logins, Login
<1> QED BY <1>2, <1>3 DEF RegistryStep, Registry!Next

LEMMA RegistryRenews ==
  ASSUME NEW e \in Entries, NEW l \in Login, e \in listed, login[e] \in Login,
         l.mode = "pat" <=> login[e].mode = "pat",
         l.mode # "pat" => uid[e] = Subject(l) \/ uid[e] = None \/ Subject(l) = None,
         listed' = listed, uid' = uid,
         login'[e] = l, \A d \in listed : d # e => login'[d] = login[d]
  PROVE  RegistryStep
<1>1. Stored' = [Stored EXCEPT ![e] = [uid |-> @.uid, login |-> l]]
  BY StoredFacts DEF Stored
<1>2. Registry!SameAccount(e, l)
  <2>1. CASE l.mode = "pat"
    BY <2>1, StoredFacts, LoginKind DEF Registry!SameAccount, Login, OAuthLogin
  <2>2. CASE l.mode # "pat"
    <3>1. l \in OAuthLogin /\ login[e] \in OAuthLogin /\ Identity[l] = Subject(l)
      BY <2>2, LoginKind, IdentityFacts
    <3> QED BY <2>2, <3>1, StoredFacts DEF Registry!SameAccount
  <2> QED BY <2>1, <2>2
<1>3. Registry!Renew(e, l)
  BY <1>1, <1>2, StoredFacts DEF Registry!Renew
<1>4. l \in Registry!Logins
  BY DEF Registry!Logins, Login
<1> QED BY <1>3, <1>4 DEF RegistryStep, Registry!Next

LEMMA RegistryRemoves ==
  ASSUME NEW e \in Entries, e \in listed, listed' = listed \ {e}, UNCHANGED <<uid, login>>
  PROVE  RegistryStep
<1>1. Stored' = [d \in listed \ {e} |-> Stored[d]]
  BY StoredFacts DEF Stored
<1>2. Registry!Remove(e)
  BY <1>1, StoredFacts DEF Registry!Remove
<1> QED BY <1>2 DEF RegistryStep, Registry!Next

LEMMA EndStep ==
  ASSUME IInv, NEW f \in Flows, Abort(f)
  PROVE  IInv' /\ RegistryStep
<1>1. TypeOK'
  BY NoFlowTyped DEF IInv, TypeOK, Abort, End
<1>2. FlowInv'
  BY FlowsEnd DEF IInv, TypeOK, Abort, End
<1>3. OwnAccountAccepted'
  BY DEF IInv, OwnAccountAccepted, Abort
<1>4. RegistryStep
  BY RegistryKept DEF Abort
<1> QED BY <1>1, <1>2, <1>3, <1>4, EntriesKept DEF IInv, Abort

-------------------------------------------------------------------------------
(* Adding an entry *)

\* The id and the login that are checked before an entry is added go together.
Checked(f, id, l) ==
  /\ id \in UniqueId \cup {None}
  /\ l \in Login
  /\ id # None => ~InProgress(f, id) /\ ~Configured(id)
  /\ IF l.mode = "pat" THEN id = Fingerprint(l.who)
     ELSE id = Subject(l)

LEMMA CreateStep ==
  ASSUME IInv, NEW f \in Flows, NEW id, NEW l, Checked(f, id, l), Create(f, id, l)
  PROVE  IInv' /\ RegistryStep
<1> PICK e \in Entries \ listed :
       /\ \A g \in Flows : flow[g].renews # e
       /\ listed' = {d \in listed : id = None \/ uid[d] # id} \cup {e}
       /\ uid' = [uid EXCEPT ![e] = id]
       /\ login' = [login EXCEPT ![e] = l]
       /\ renewed' = renewed \ {e}
  BY DEF Create
<1>1. listed' = listed \cup {e}
  BY DEF Checked, Configured
<1>2. /\ uid'[e] = id /\ \A d \in listed : d # e /\ uid'[d] = uid[d]
      /\ login'[e] = l /\ \A d \in listed : login'[d] = login[d]
      /\ \A d \in listed : d \in renewed' <=> d \in renewed
  BY DEF IInv, TypeOK
<1>3. /\ \A g \in Flows : flow'[g] = NoFlow \/ flow'[g] = flow[g]
      /\ flow'[f] = NoFlow
  BY DEF IInv, TypeOK, Create
<1>4. TypeOK'
  <2>1. flow' \in [Flows -> [step : Steps, uid : UniqueId \cup {None}, renews : Entries \cup {None}]]
    BY NoFlowTyped DEF IInv, TypeOK, Create
  <2> QED BY <2>1 DEF IInv, TypeOK, Create, Checked
<1>5. \A d \in listed : id # None => uid[d] # id
  BY DEF Checked, Configured
<1>6. \A g \in Flows : g # f /\ id # None => flow[g].uid # id
  <2> SUFFICES ASSUME NEW g \in Flows, g # f, id # None, flow[g].uid = id
               PROVE  FALSE
    OBVIOUS
  <2>1. flow[g].step = "off"
    BY DEF Checked, InProgress
  <2> QED BY <2>1, NoFlowTyped DEF IInv, FlowInv
<1>7. IdInv'
  <2>1. \A a, b \in listed' : uid'[a] = uid'[b] /\ uid'[a] # None => a = b
    BY <1>1, <1>2, <1>5 DEF IInv, IdInv
  <2>2. IF login'[e].mode = "pat"
        THEN uid'[e] \in Fingerprints /\ (e \in renewed' \/ uid'[e] = Fingerprint(login'[e].who))
        ELSE uid'[e] \in Subjects \cup {None}
    BY <1>2, FingerprintKind, SubjectKind, LoginKind DEF Checked
  <2>3. \A a \in listed' :
          IF login'[a].mode = "pat"
          THEN uid'[a] \in Fingerprints /\ (a \in renewed' \/ uid'[a] = Fingerprint(login'[a].who))
          ELSE uid'[a] \in Subjects \cup {None}
    BY <1>1, <1>2, <2>2 DEF IInv, IdInv
  <2> QED BY <2>1, <2>3 DEF IdInv
<1>8. FlowInv'
  <2> USE NoFlowTyped, NoneIsNoEntry
  <2>1. \A g \in Flows :
          /\ flow'[g].step = "off" => flow'[g] = NoFlow
          /\ flow'[g].step \in {"menu", "pat"} => flow'[g].renews = None
          /\ flow'[g].step \in {"reauth", "reauth_pat"} => flow'[g].renews # None
          /\ flow'[g].renews = None => flow'[g].uid = None
    BY <1>3 DEF IInv, FlowInv
  <2>2. \A g \in Flows :
          /\ flow'[g].renews # None /\ flow'[g].step # "reauth" =>
               /\ flow'[g].renews \in listed'
               /\ (flow'[g].step = "reauth_pat") <=> (login'[flow'[g].renews].mode = "pat")
          /\ flow'[g].renews \in listed' => flow'[g].uid = uid'[flow'[g].renews]
    <3> TAKE g \in Flows
    <3>1. CASE flow'[g] = NoFlow
      <4>1. None \notin listed'
        BY <1>4 DEF TypeOK
      <4> QED BY <3>1, <4>1
    <3>2. CASE flow'[g] = flow[g]
      BY <3>2, <1>1, <1>2 DEF IInv, FlowInv
    <3> QED BY <3>1, <3>2, <1>3
  <2>3. \A g, h \in Flows : flow'[g].renews = flow'[h].renews /\ flow'[g].renews # None => g = h
    BY <1>3 DEF IInv, FlowInv
  <2>4. \A g \in Flows, a \in listed' :
          flow'[g].uid = uid'[a] /\ uid'[a] # None => flow'[g].renews = a
    <3> TAKE g \in Flows, a \in listed'
    <3> HAVE flow'[g].uid = uid'[a] /\ uid'[a] # None
    <3>1. flow'[g] = flow[g] /\ g # f
      BY <1>3
    <3>2. a # e
      BY <3>1, <1>2, <1>6
    <3> QED BY <3>1, <3>2, <1>1, <1>2 DEF IInv, FlowInv
  <2> QED BY <2>1, <2>2, <2>3, <2>4 DEF FlowInv
<1>9. RightAccount'
  <2>1. l.mode = "oauth2" /\ l.named /\ id # None => id = Subject(l)
    BY DEF Checked
  <2> QED BY <1>1, <1>2, <2>1 DEF IInv, RightAccount
<1>10. SameLoginOnce'
  <2>1. ASSUME NEW d \in listed, login[d] = l, l.named
        PROVE  IF l.mode = "pat" THEN d \in renewed ELSE uid[d] = None \/ id = None
    <3>1. CASE l.mode = "pat"
      <4>1. id = Fingerprint(l.who) /\ id # None
        BY <3>1, FingerprintKind, LoginKind DEF Checked
      <4> QED BY <2>1, <3>1, <4>1, <1>5 DEF IInv, IdInv
    <3>2. CASE l.mode # "pat"
      <4>1. l.mode = "oauth2"
        BY <3>2, LoginKind DEF Checked
      <4>2. id = Subject(l)
        BY <3>2 DEF Checked
      <4> QED BY <2>1, <3>2, <4>1, <4>2, <1>5 DEF IInv, RightAccount
    <3> QED BY <3>1, <3>2
  <2>2. ASSUME NEW a \in listed', NEW b \in listed', a # b, login'[a] = login'[b], login'[a].named
        PROVE  IF login'[a].mode = "pat" THEN a \in renewed' \/ b \in renewed'
               ELSE uid'[a] = None \/ uid'[b] = None
    <3>1. CASE a = e
      BY <3>1, <2>2, <2>1, <1>1, <1>2
    <3>2. CASE b = e
      BY <3>2, <2>2, <2>1, <1>1, <1>2
    <3>3. CASE a # e /\ b # e
      BY <3>3, <2>2, <1>1, <1>2 DEF IInv, SameLoginOnce
    <3> QED BY <3>1, <3>2, <3>3
  <2> QED BY <2>2 DEF SameLoginOnce
<1>11. OwnAccountAccepted'
  BY DEF IInv, OwnAccountAccepted, Create
<1>12. RegistryStep
  <2>1. Identity[l] = id /\ l \in Login
    BY IdentityFacts DEF Checked
  <2> QED BY <1>1, <1>2, <1>5, <2>1, RegistryAdds DEF IInv, TypeOK
<1> QED BY <1>4, <1>7, <1>8, <1>9, <1>10, <1>11, <1>12 DEF IInv

-------------------------------------------------------------------------------
(* Renewing the login of an entry *)

\* What a flow has found out before it renews: the entry is there, it keeps to
\* its kind of login, and an account that is named on both sides is the same.
Renewable(f, l) ==
  /\ flow[f].renews \in listed
  /\ l \in Login
  /\ l.mode = "pat" <=> login[flow[f].renews].mode = "pat"
  /\ l.mode = "oauth2" /\ l.named /\ uid[flow[f].renews] # None =>
       uid[flow[f].renews] = Subject(l)

LEMMA RenewStep ==
  ASSUME IInv, NEW f \in Flows, NEW l, Renewable(f, l), Renew(f, l)
  PROVE  IInv' /\ RegistryStep
<1> DEFINE e == flow[f].renews
<1>1. e \in listed /\ e \in Entries
  BY DEF Renewable, IInv, TypeOK
<1>2. /\ listed' = listed /\ uid' = uid
      /\ login'[e] = l /\ \A d \in listed : d # e => login'[d] = login[d]
      /\ renewed' = renewed \cup {e}
  BY <1>1 DEF IInv, TypeOK, Renew
<1>3. /\ flow'[f] = NoFlow
      /\ \A g \in Flows : g # f => flow'[g] = flow[g]
  BY DEF IInv, TypeOK, Renew, End
<1>4. TypeOK'
  BY <1>1, NoFlowTyped DEF IInv, TypeOK, Renew, End, Renewable
<1>5. \A d \in listed : login'[d].mode = "pat" <=> login[d].mode = "pat"
  BY <1>2 DEF Renewable
<1> HIDE DEF e
<1>6. IdInv'
  BY <1>1, <1>2, <1>5 DEF IInv, IdInv
<1>7. FlowInv'
  <2> USE NoFlowTyped, NoneIsNoEntry
  <2>1. \A g \in Flows :
          /\ flow'[g].step = "off" => flow'[g] = NoFlow
          /\ flow'[g].step \in {"menu", "pat"} => flow'[g].renews = None
          /\ flow'[g].step \in {"reauth", "reauth_pat"} => flow'[g].renews # None
          /\ flow'[g].renews = None => flow'[g].uid = None
    BY <1>3 DEF IInv, FlowInv
  <2>2. \A g \in Flows :
          /\ flow'[g].renews # None /\ flow'[g].step # "reauth" =>
               /\ flow'[g].renews \in listed'
               /\ (flow'[g].step = "reauth_pat") <=> (login'[flow'[g].renews].mode = "pat")
          /\ flow'[g].renews \in listed' => flow'[g].uid = uid'[flow'[g].renews]
    <3> TAKE g \in Flows
    <3>1. CASE g = f
      <4>1. None \notin listed'
        BY <1>4 DEF TypeOK
      <4> QED BY <3>1, <4>1, <1>3
    <3>2. CASE g # f
      BY <3>2, <1>2, <1>3, <1>5 DEF IInv, FlowInv
    <3> QED BY <3>1, <3>2
  <2>3. \A g, h \in Flows : flow'[g].renews = flow'[h].renews /\ flow'[g].renews # None => g = h
    BY <1>3 DEF IInv, FlowInv
  <2>4. \A g \in Flows, a \in listed' :
          flow'[g].uid = uid'[a] /\ uid'[a] # None => flow'[g].renews = a
    BY <1>2, <1>3 DEF IInv, FlowInv
  <2> QED BY <2>1, <2>2, <2>3, <2>4 DEF FlowInv
<1>8. RightAccount'
  BY <1>1, <1>2 DEF IInv, RightAccount, Renewable, e
<1>9. SameLoginOnce'
  <2>1. \A a, b \in listed :
          a # b /\ login'[a] = login'[b] /\ login'[a].named /\ login'[a].mode # "pat"
            => uid[a] = None \/ uid[b] = None
    <3> SUFFICES ASSUME NEW a \in listed, NEW b \in listed, a # b,
                        login'[a] = login'[b], login'[a].named, login'[a].mode # "pat",
                        uid[a] # None, uid[b] # None
                 PROVE  FALSE
      OBVIOUS
    <3>1. login'[a].mode = "oauth2"
      BY <1>4, <1>2, LoginKind DEF TypeOK
    <3>2. uid[a] = Subject(login'[a]) /\ uid[b] = Subject(login'[b])
      BY <3>1, <1>8, <1>2 DEF RightAccount
    <3> QED BY <3>2 DEF IInv, IdInv
  <2>2. \A a, b \in listed :
          a # b /\ login'[a] = login'[b] /\ login'[a].named /\ login'[a].mode = "pat"
            => a \in renewed' \/ b \in renewed'
    BY <1>2 DEF IInv, SameLoginOnce
  <2> QED BY <1>2, <2>1, <2>2 DEF SameLoginOnce
<1>10. OwnAccountAccepted'
  BY DEF IInv, OwnAccountAccepted, Renew
<1>11. RegistryStep
  <2>1. l \in Login /\ login[e] \in Login
    BY <1>1 DEF IInv, TypeOK, Renewable
  <2>2. l.mode # "pat" => uid[e] = Subject(l) \/ uid[e] = None \/ Subject(l) = None
    BY <2>1, LoginKind, SubjectKind DEF Renewable, e
  <2>3. l.mode = "pat" <=> login[e].mode = "pat"
    BY DEF Renewable, e
  <2> QED BY <1>1, <1>2, <2>1, <2>2, <2>3, RegistryRenews
<1> QED BY <1>4, <1>6, <1>7, <1>8, <1>9, <1>10, <1>11 DEF IInv

-------------------------------------------------------------------------------
(* Steps *)

\* A flow that only goes on: nothing but its step changes.
LEMMA GoesOn ==
  ASSUME IInv, NEW f \in Flows, NEW step \in Steps,
         flow' = [flow EXCEPT ![f].step = step],
         UNCHANGED <<listed, uid, login, renewed, turnedAway>>,
         step # "off",
         step \in {"menu", "pat"} => flow[f].renews = None,
         step \in {"reauth", "reauth_pat"} => flow[f].renews # None,
         flow[f].renews # None /\ step # "reauth" =>
           /\ flow[f].renews \in listed
           /\ (step = "reauth_pat") <=> (login[flow[f].renews].mode = "pat")
  PROVE  IInv'
<1>1. TypeOK'
  BY DEF IInv, TypeOK
<1>2. /\ flow'[f].step = step /\ flow'[f].uid = flow[f].uid /\ flow'[f].renews = flow[f].renews
      /\ \A g \in Flows : g # f => flow'[g] = flow[g]
  BY DEF IInv, TypeOK
<1>3. FlowInv'
  BY <1>2 DEF IInv, FlowInv
<1>4. OwnAccountAccepted'
  BY DEF IInv, OwnAccountAccepted
<1> QED BY <1>1, <1>3, <1>4, EntriesKept DEF IInv

LEMMA StartUserStep ==
  ASSUME IInv, NEW f \in Flows, StartUser(f)
  PROVE  IInv'
<1>1. flow[f].renews = None
  BY NoFlowTyped DEF IInv, FlowInv, StartUser
<1> QED BY <1>1, GoesOn DEF StartUser, Steps

LEMMA ChooseStep ==
  ASSUME IInv, NEW f \in Flows, Choose(f)
  PROVE  IInv'
<1>1. flow[f].renews = None
  BY DEF IInv, FlowInv, Choose
<1>2. PICK step \in {"pat", "oauth"} : flow' = [flow EXCEPT ![f].step = step]
  BY DEF Choose
<1> QED BY <1>1, <1>2, GoesOn DEF Choose, Steps

LEMMA StepReauthStep ==
  ASSUME IInv, NEW f \in Flows, StepReauth(f)
  PROVE  IInv' /\ RegistryStep
<1>1. flow[f].renews # None
  BY DEF IInv, FlowInv, StepReauth
<1>2. CASE flow[f].renews \notin listed
  BY <1>2, EndStep DEF StepReauth
<1>3. CASE flow[f].renews \in listed
  <2> DEFINE step == IF login[flow[f].renews].mode = "pat" THEN "reauth_pat" ELSE "oauth"
  <2>1. /\ step \in Steps
        /\ step \notin {"off", "menu", "pat", "reauth"}
        /\ (step = "reauth_pat") <=> (login[flow[f].renews].mode = "pat")
    BY DEF Steps
  <2>2. /\ flow' = [flow EXCEPT ![f].step = step]
        /\ UNCHANGED <<listed, uid, login, renewed, turnedAway>>
    BY <1>3 DEF StepReauth
  <2> HIDE DEF step
  <2>3. IInv'
    BY <1>1, <1>3, <2>1, <2>2, GoesOn
  <2> QED BY <2>2, <2>3, RegistryKept
<1> QED BY <1>2, <1>3

LEMMA StartReauthStep ==
  ASSUME IInv, NEW f \in Flows, NEW e \in Entries, StartReauth(f, e)
  PROVE  IInv'
<1>1. /\ flow'[f] = [step |-> "reauth", uid |-> uid[e], renews |-> e]
      /\ \A g \in Flows : g # f => flow'[g] = flow[g]
      /\ UNCHANGED <<listed, uid, login, renewed, turnedAway>>
      /\ e \in listed
      /\ \A g \in Flows : flow[g].renews # e
  BY DEF IInv, TypeOK, StartReauth
<1>2. TypeOK'
  BY DEF IInv, TypeOK, StartReauth, Steps
<1>3. FlowInv'
  <2> USE NoneIsNoEntry
  <2>1. \A g \in Flows :
          /\ flow'[g].step = "off" => flow'[g] = NoFlow
          /\ flow'[g].step \in {"menu", "pat"} => flow'[g].renews = None
          /\ flow'[g].step \in {"reauth", "reauth_pat"} => flow'[g].renews # None
          /\ flow'[g].renews = None => flow'[g].uid = None
    BY <1>1 DEF IInv, FlowInv
  <2>2. \A g \in Flows :
          /\ flow'[g].renews # None /\ flow'[g].step # "reauth" =>
               /\ flow'[g].renews \in listed'
               /\ (flow'[g].step = "reauth_pat") <=> (login'[flow'[g].renews].mode = "pat")
          /\ flow'[g].renews \in listed' => flow'[g].uid = uid'[flow'[g].renews]
    BY <1>1 DEF IInv, FlowInv
  <2>3. \A g, h \in Flows : flow'[g].renews = flow'[h].renews /\ flow'[g].renews # None => g = h
    BY <1>1 DEF IInv, FlowInv
  <2>4. \A g \in Flows, a \in listed' :
          flow'[g].uid = uid'[a] /\ uid'[a] # None => flow'[g].renews = a
    BY <1>1 DEF IInv, FlowInv, IdInv
  <2> QED BY <2>1, <2>2, <2>3, <2>4 DEF FlowInv
<1>4. OwnAccountAccepted'
  BY <1>1 DEF IInv, OwnAccountAccepted
<1> QED BY <1>1, <1>2, <1>3, <1>4, EntriesKept DEF IInv

LEMMA StepPatStep ==
  ASSUME IInv, NEW f \in Flows, NEW token \in Tokens \cup {Blank}, StepPat(f, token)
  PROVE  IInv' /\ RegistryStep
<1> DEFINE id == Fingerprint(token)
           l == [mode |-> "pat", who |-> token, named |-> TRUE]
<1>1. token \in Tokens
  BY DEF StepPat
<1>2. CASE InProgress(f, id) \/ Configured(id)
  <2>1. Abort(f)
    BY <1>2 DEF StepPat
  <2> QED BY <2>1, EndStep
<1>3. CASE ~(InProgress(f, id) \/ Configured(id))
  <2>1. Checked(f, id, l)
    BY <1>1, <1>3, FingerprintKind, LoginKind DEF Checked
  <2>2. Create(f, id, l)
    BY <1>3 DEF StepPat
  <2> HIDE DEF id, l
  <2> QED BY <2>1, <2>2, CreateStep
<1> QED BY <1>2, <1>3

LEMMA OAuthAddsStep ==
  ASSUME IInv, NEW f \in Flows, NEW l \in OAuthLogin, OAuthAdds(f, l)
  PROVE  IInv' /\ RegistryStep
<1> DEFINE id == Subject(l)
<1>1. CASE id # None /\ (InProgress(f, id) \/ Configured(id))
  <2>1. Abort(f)
    BY <1>1 DEF OAuthAdds
  <2> QED BY <2>1, EndStep
<1>2. CASE ~(id # None /\ (InProgress(f, id) \/ Configured(id)))
  <2>1. Checked(f, id, l)
    <3>1. l \in Login /\ l.mode # "pat"
      BY LoginKind
    <3> QED BY <1>2, <3>1, SubjectKind DEF Checked
  <2>2. Create(f, id, l)
    BY <1>2 DEF OAuthAdds
  <2> HIDE DEF id
  <2> QED BY <2>1, <2>2, CreateStep
<1> QED BY <1>1, <1>2

LEMMA StepReauthPatStep ==
  ASSUME IInv, NEW f \in Flows, NEW token \in Tokens \cup {Blank}, StepReauthPat(f, token)
  PROVE  IInv' /\ RegistryStep
<1> DEFINE l == [mode |-> "pat", who |-> token, named |-> TRUE]
<1>1. token \in Tokens
  BY DEF StepReauthPat
<1>2. l \in Login /\ l.mode = "pat"
  BY <1>1, LoginKind
<1>3. Renew(f, l) /\ flow[f].step = "reauth_pat"
  BY DEF StepReauthPat
<1> HIDE DEF l
<1>4. /\ flow[f].renews \in listed
      /\ login[flow[f].renews].mode = "pat"
  BY <1>3 DEF IInv, FlowInv
<1>5. Renewable(f, l)
  BY <1>2, <1>4 DEF Renewable
<1> QED BY <1>3, <1>5, RenewStep

LEMMA OAuthRenewsStep ==
  ASSUME IInv, NEW f \in Flows, NEW l \in OAuthLogin, OAuthRenews(f, l)
  PROVE  IInv' /\ RegistryStep
<1> DEFINE e == flow[f].renews
<1>1. /\ e \in listed /\ e # None
      /\ login[e].mode # "pat"
  BY DEF IInv, FlowInv, OAuthRenews
<1>2. CASE Refused(f, Subject(l))
  <2>1. ~(Subject(l) # None /\ uid[e] = Subject(l))
    <3> SUFFICES ASSUME Subject(l) # None, uid[e] = Subject(l)
                 PROVE  FALSE
      OBVIOUS
    <3>1. InProgress(f, Subject(l))
      BY <1>2 DEF Refused, WrongAccount
    <3>2. PICK g \in Flows \ {f} : flow[g].uid = uid[e]
      BY <3>1 DEF InProgress
    <3>3. flow[g].renews = e
      BY <1>1, <3>2 DEF IInv, FlowInv
    <3> QED BY <1>1, <3>2, <3>3 DEF IInv, FlowInv
  <2>2. /\ End(f) /\ turnedAway' = turnedAway
        /\ UNCHANGED <<listed, uid, login, renewed>>
    <3>1. /\ End(f)
          /\ turnedAway' = (turnedAway \/ (Subject(l) # None /\ uid[e] = Subject(l)))
          /\ UNCHANGED <<listed, uid, login, renewed>>
      BY <1>2 DEF OAuthRenews
    <3>2. turnedAway = FALSE
      BY DEF IInv, TypeOK, OwnAccountAccepted
    <3>3. turnedAway' = FALSE
      BY <3>1, <3>2, <2>1
    <3> QED BY <3>1, <3>2, <3>3
  <2> QED BY <2>2, EndStep DEF Abort
<1>3. CASE ~Refused(f, Subject(l))
  <2>1. Renew(f, l)
    BY <1>3 DEF OAuthRenews
  <2>2. Renewable(f, l)
    <3>1. l \in Login /\ l.mode # "pat"
      BY LoginKind
    <3>2. l.named /\ uid[e] # None => uid[e] = Subject(l)
      BY <1>3, SubjectKind DEF Refused, WrongAccount
    <3> QED BY <1>1, <3>1, <3>2 DEF Renewable
  <2> QED BY <2>1, <2>2, RenewStep
<1> QED BY <1>2, <1>3

\* Removing an entry ends the renewals of it that have begun; one that has not
\* keeps the unique id of an entry that is gone.
LEMMA RemoveStep ==
  ASSUME IInv, NEW e \in Entries, Remove(e)
  PROVE  IInv' /\ RegistryStep
<1>1. /\ listed' = listed \ {e}
      /\ UNCHANGED <<uid, login, renewed, turnedAway>>
      /\ \A f \in Flows : flow'[f] = IF flow[f].renews = e /\ flow[f].step # "reauth"
                                     THEN NoFlow ELSE flow[f]
  BY DEF Remove
<1>2. TypeOK'
  BY NoFlowTyped DEF IInv, TypeOK, Remove
<1>3. IdInv' /\ RightAccount' /\ SameLoginOnce'
  BY <1>1 DEF IInv, IdInv, RightAccount, SameLoginOnce
<1>4. FlowInv'
  <2> USE NoFlowTyped, NoneIsNoEntry
  <2>1. \A g \in Flows :
          /\ flow'[g].step = "off" => flow'[g] = NoFlow
          /\ flow'[g].step \in {"menu", "pat"} => flow'[g].renews = None
          /\ flow'[g].step \in {"reauth", "reauth_pat"} => flow'[g].renews # None
          /\ flow'[g].renews = None => flow'[g].uid = None
    BY <1>1 DEF IInv, FlowInv
  <2>2. \A g \in Flows :
          /\ flow'[g].renews # None /\ flow'[g].step # "reauth" =>
               /\ flow'[g].renews \in listed'
               /\ (flow'[g].step = "reauth_pat") <=> (login'[flow'[g].renews].mode = "pat")
          /\ flow'[g].renews \in listed' => flow'[g].uid = uid'[flow'[g].renews]
    <3> TAKE g \in Flows
    <3>1. CASE flow[g].renews = e /\ flow[g].step # "reauth"
      <4>1. None \notin listed'
        BY <1>2 DEF TypeOK
      <4> QED BY <3>1, <4>1, <1>1
    <3>2. CASE ~(flow[g].renews = e /\ flow[g].step # "reauth")
      BY <3>2, <1>1 DEF IInv, FlowInv
    <3> QED BY <3>1, <3>2
  <2>3. \A g, h \in Flows : flow'[g].renews = flow'[h].renews /\ flow'[g].renews # None => g = h
    BY <1>1 DEF IInv, FlowInv
  <2>4. \A g \in Flows, a \in listed' :
          flow'[g].uid = uid'[a] /\ uid'[a] # None => flow'[g].renews = a
    BY <1>1 DEF IInv, FlowInv
  <2> QED BY <2>1, <2>2, <2>3, <2>4 DEF FlowInv
<1>5. OwnAccountAccepted'
  BY <1>1 DEF IInv, OwnAccountAccepted
<1>6. RegistryStep
  BY <1>1, RegistryRemoves DEF Remove
<1> QED BY <1>2, <1>3, <1>4, <1>5, <1>6 DEF IInv

-------------------------------------------------------------------------------
(* Theorems *)

LEMMA InitInv == Init => IInv
<1> SUFFICES ASSUME Init PROVE IInv
  OBVIOUS
<1>1. TypeOK
  BY NoFlowTyped DEF Init, TypeOK
<1>2. IdInv /\ RightAccount /\ SameLoginOnce
  BY DEF Init, IdInv, RightAccount, SameLoginOnce
<1>3. FlowInv
  BY NoFlowTyped, NoneIsNoEntry DEF Init, FlowInv
<1>4. OwnAccountAccepted
  BY DEF Init, OwnAccountAccepted
<1> QED BY <1>1, <1>2, <1>3, <1>4 DEF IInv

\* Every step keeps the invariant and is one step of the registry at most.
LEMMA NextInv ==
  ASSUME IInv, [Next]_vars
  PROVE  IInv' /\ RegistryStep
<1>1. CASE UNCHANGED vars
  BY <1>1, RegistryKept
     DEF vars, IInv, TypeOK, IdInv, FlowInv, RightAccount, SameLoginOnce, OwnAccountAccepted
<1>2. ASSUME NEW f \in Flows, StartUser(f) \/ Choose(f) \/ StepReauth(f)
      PROVE  IInv' /\ RegistryStep
  BY <1>2, StartUserStep, ChooseStep, StepReauthStep, RegistryKept DEF StartUser, Choose
<1>3. ASSUME NEW f \in Flows, NEW token \in Tokens \cup {Blank},
             StepPat(f, token) \/ StepReauthPat(f, token)
      PROVE  IInv' /\ RegistryStep
  BY <1>3, StepPatStep, StepReauthPatStep
<1>4. ASSUME NEW f \in Flows, NEW l \in OAuthLogin, OAuthAdds(f, l) \/ OAuthRenews(f, l)
      PROVE  IInv' /\ RegistryStep
  BY <1>4, OAuthAddsStep, OAuthRenewsStep
<1>5. ASSUME NEW f \in Flows, NEW e \in Entries, StartReauth(f, e)
      PROVE  IInv' /\ RegistryStep
  BY <1>5, StartReauthStep, RegistryKept DEF StartReauth
<1>6. ASSUME NEW f \in Flows, Abort(f)
      PROVE  IInv' /\ RegistryStep
  BY <1>6, EndStep
<1>7. ASSUME NEW e \in Entries, Remove(e)
      PROVE  IInv' /\ RegistryStep
  BY <1>7, RemoveStep
<1>8. CASE Next
  BY <1>8, <1>2, <1>3, <1>4, <1>5, <1>6, <1>7 DEF Next
<1> QED BY <1>1, <1>8

\* The inductive invariant of the flows and the entries, for any number of each
\* (config_flow.py).
THEOREM Inductive == Spec => []IInv
<1>1. IInv /\ [Next]_vars => IInv'
  BY NextInv
<1> QED BY InitInv, <1>1, PTL DEF Spec

\* A renewal never puts another account into an entry (async_oauth_create_entry),
\* whatever the other flows do.
THEOREM AccountKept == Spec => []RightAccount
<1>1. IInv => RightAccount
  BY DEF IInv
<1> QED BY Inductive, <1>1, PTL

\* The same login gets into two entries only by replacing a token or without a
\* subject (async_step_pat, async_step_reauth_pat, async_oauth_create_entry).
THEOREM OneEntryPerLogin == Spec => []SameLoginOnce
<1>1. IInv => SameLoginOnce
  BY DEF IInv
<1> QED BY Inductive, <1>1, PTL

\* Setting the unique id never ends a renewal with the account of its entry
\* (async_oauth_create_entry).
THEOREM RenewalsGoThrough == Spec => []OwnAccountAccepted
<1>1. IInv => OwnAccountAccepted
  BY DEF IInv
<1> QED BY Inductive, <1>1, PTL

\* The flows implement the registry of the entries (config_flow.py): however
\* their steps and the removals of entries interleave, each flow adds one entry,
\* renews one within its kind and its account, or does nothing.
THEOREM Refinement == Spec => FlowsAreAtomic
<1>1. Init => Registry!Init
  BY DEF Init, Stored, Registry!Init
<1>2. IInv /\ [Next]_vars => [Registry!Next]_Stored
  BY NextInv DEF RegistryStep
<1> QED BY Inductive, <1>1, <1>2, PTL DEF Spec, FlowsAreAtomic, Registry!Spec
===============================================================================
