------------------------ MODULE EntryLifecycle_proofs ------------------------
(***************************************************************************)
(* Proofs about EntryLifecycle: IInv is inductive.  One lemma per action,  *)
(* one step per part of the invariant; the theorems follow at the end.     *)
(***************************************************************************)
EXTENDS EntryLifecycle, TLAPS

\* Where a set-up begins, whoever begins it
LEMMA BeginTypes ==
  ASSUME NEW e \in Entries, TypeOK, Begin(e)
  PROVE  /\ phase' \in [Entries -> Phases]
         /\ current' \in [Entries -> SUBSET Parts]
         /\ raced' \in [Entries -> BOOLEAN]
<1>1. CASE Goto(e, "retry") /\ UNCHANGED <<current, raced>>
  BY <1>1 DEF TypeOK, Goto, Phases, Settled
<1>2. CASE /\ Goto(e, "matrix")
           /\ current' = [current EXCEPT ![e] = {"matrix"}]
           /\ raced' = [raced EXCEPT ![e] = FALSE]
  <2>1. phase' \in [Entries -> Phases] BY <1>2 DEF TypeOK, Goto, Phases
  <2>2. current' \in [Entries -> SUBSET Parts] BY <1>2 DEF TypeOK, Parts
  <2>3. raced' \in [Entries -> BOOLEAN] BY <1>2 DEF TypeOK
  <2>4. QED BY <2>1, <2>2, <2>3
<1>3. QED BY <1>1, <1>2 DEF Begin

\* The runtime data is there before the connection is checked.
LEMMA MatrixLoadedKeeps ==
  ASSUME NEW e \in Entries, IInv, MatrixLoaded(e)
  PROVE  IInv'
<1>1. TypeOK'
  BY DEF IInv, TypeOK, MatrixLoaded, Goto, calling, Phases, Settled, Requests, Parts
<1>2. SetupInv'
  BY DEF IInv, TypeOK, SetupInv, OneListener, MatrixLoaded, Goto, calling, Requests,
          Settled, Listening, Parts
<1>3. CallInv'
  BY DEF IInv, TypeOK, CallInv, SetupInv, MatrixLoaded, Goto, calling, Requests, Settled
<1>4. ServicesWhileLoaded'
  BY DEF IInv, TypeOK, ServicesWhileLoaded, SetupInv, MatrixLoaded, Goto, calling,
          Requests, Settled
<1>5. OneListener'
  BY DEF IInv, TypeOK, SetupInv, OneListener, MatrixLoaded, Goto, calling, Requests,
          Settled, Listening
<1>6. CallServesAll'
  BY DEF IInv, TypeOK, CallInv, CallServesAll, MatrixLoaded, Goto, calling, Requests,
          Settled
<1>7. OptionsApplied'
  BY DEF IInv, TypeOK, SetupInv, OneListener, OptionsApplied, MatrixLoaded, Goto,
          calling, Requests, Settled, Listening, Parts
<1>8. QED BY <1>1, <1>2, <1>3, <1>4, <1>5, <1>6, <1>7 DEF IInv

LEMMA RequestOkKeeps ==
  ASSUME NEW e \in Entries, IInv, RequestOk(e)
  PROVE  IInv'
<1>1. TypeOK'
  BY DEF IInv, TypeOK, RequestOk, Goto, calling, Phases, Settled, Requests, Parts
<1>2. SetupInv'
  BY DEF IInv, TypeOK, SetupInv, OneListener, RequestOk, Goto, calling, Requests,
          Settled, Listening, Parts
<1>3. CallInv'
  BY DEF IInv, TypeOK, CallInv, SetupInv, RequestOk, Goto, calling, Requests, Settled
<1>4. ServicesWhileLoaded'
  BY DEF IInv, TypeOK, ServicesWhileLoaded, SetupInv, RequestOk, Goto, calling,
          Requests, Settled
<1>5. OneListener'
  BY DEF IInv, TypeOK, SetupInv, OneListener, RequestOk, Goto, calling, Requests,
          Settled, Listening
<1>6. CallServesAll'
  BY DEF IInv, TypeOK, CallInv, CallServesAll, RequestOk, Goto, calling, Requests,
          Settled
<1>7. OptionsApplied'
  BY DEF IInv, TypeOK, SetupInv, OneListener, OptionsApplied, RequestOk, Goto,
          calling, Requests, Settled, Listening, Parts
<1>8. QED BY <1>1, <1>2, <1>3, <1>4, <1>5, <1>6, <1>7 DEF IInv

LEMMA RequestFailsKeeps ==
  ASSUME NEW e \in Entries, IInv, RequestFails(e)
  PROVE  IInv'
<1>1. TypeOK'
  BY DEF IInv, TypeOK, RequestFails, Goto, calling, Phases, Settled, Requests, Parts
<1>2. SetupInv'
  BY DEF IInv, TypeOK, SetupInv, OneListener, RequestFails, Goto, calling, Requests,
          Settled, Listening, Parts
<1>3. CallInv'
  BY DEF IInv, TypeOK, CallInv, SetupInv, RequestFails, Goto, calling, Requests, Settled
<1>4. ServicesWhileLoaded'
  BY DEF IInv, TypeOK, ServicesWhileLoaded, SetupInv, RequestFails, Goto, calling,
          Requests, Settled
<1>5. OneListener'
  BY DEF IInv, TypeOK, SetupInv, OneListener, RequestFails, Goto, calling, Requests,
          Settled, Listening
<1>6. CallServesAll'
  BY DEF IInv, TypeOK, CallInv, CallServesAll, RequestFails, Goto, calling, Requests,
          Settled
<1>7. OptionsApplied'
  BY DEF IInv, TypeOK, SetupInv, OneListener, OptionsApplied, RequestFails, Goto,
          calling, Requests, Settled, Listening, Parts
<1>8. QED BY <1>1, <1>2, <1>3, <1>4, <1>5, <1>6, <1>7 DEF IInv

\* The services are there with the first loaded entry, the listener with its own.
LEMMA PlatformsForwardedKeeps ==
  ASSUME NEW e \in Entries, IInv, PlatformsForwarded(e)
  PROVE  IInv'
<1>1. TypeOK'
  BY LifecycleAssumption DEF IInv, TypeOK, PlatformsForwarded, Goto, calling, Phases,
          Settled, Requests, Parts
<1>2. SetupInv'
  BY DEF IInv, TypeOK, SetupInv, OneListener, PlatformsForwarded, Goto, calling,
          Requests, Settled, Listening, Parts
<1>3. CallInv'
  BY DEF IInv, TypeOK, CallInv, SetupInv, PlatformsForwarded, Goto, calling,
          Requests, Settled
<1>4. ServicesWhileLoaded'
  BY DEF IInv, TypeOK, ServicesWhileLoaded, SetupInv, PlatformsForwarded, Goto,
          calling, Requests, Settled
<1>5. OneListener'
  BY DEF IInv, TypeOK, SetupInv, OneListener, PlatformsForwarded, Goto, calling,
          Requests, Settled, Listening
<1>6. CallServesAll'
  BY DEF IInv, TypeOK, CallInv, CallServesAll, PlatformsForwarded, Goto, calling,
          Requests, Settled
<1>7. OptionsApplied'
  BY DEF IInv, TypeOK, SetupInv, OneListener, OptionsApplied, PlatformsForwarded,
          Goto, calling, Requests, Settled, Listening, Parts
<1>8. QED BY <1>1, <1>2, <1>3, <1>4, <1>5, <1>6, <1>7 DEF IInv

\* The entry that is unloaded is listed, so the services of the others stay.
LEMMA PlatformsUnloadedKeeps ==
  ASSUME NEW e \in Entries, IInv, PlatformsUnloaded(e)
  PROVE  IInv'
<1>1. TypeOK'
  <2>1. phase' \in [Entries -> Phases]
    BY BeginTypes DEF IInv, TypeOK, PlatformsUnloaded, RemoveServices, DropListeners, Leave, Goto, calling, Phases, Settled, Requests
  <2>2. reloads' \in [Entries -> 0..MaxReloads] /\ after' \in [Entries -> {"stay", "setup", "remove"}]
    BY LifecycleAssumption DEF IInv, TypeOK, PlatformsUnloaded, RemoveServices, DropListeners, Leave, Goto, calling
  <2>3. current' \in [Entries -> SUBSET Parts]
    BY BeginTypes DEF IInv, TypeOK, PlatformsUnloaded, RemoveServices, DropListeners, Leave, Goto, calling
  <2>4. raced' \in [Entries -> BOOLEAN]
    BY BeginTypes DEF IInv, TypeOK, PlatformsUnloaded, RemoveServices, DropListeners, Leave, Goto, calling
  <2>5. runtime' \in [Entries -> BOOLEAN]
    BY DEF IInv, TypeOK, PlatformsUnloaded, RemoveServices, DropListeners, Leave, Goto, calling
  <2>6. listeners' \in [Entries -> Nat]
    BY DEF IInv, TypeOK, PlatformsUnloaded, RemoveServices, DropListeners, Leave, Goto, calling
  <2>7. listed' \subseteq Entries /\ services' \in BOOLEAN /\ call' \in Calls /\ loadedAll' \subseteq Entries
    BY DEF IInv, TypeOK, PlatformsUnloaded, RemoveServices, DropListeners, Leave, Goto, calling
  <2>8. QED BY <2>1, <2>2, <2>3, <2>4, <2>5, <2>6, <2>7 DEF TypeOK
<1>2. SetupInv'
  BY DEF IInv, TypeOK, SetupInv, OneListener, PlatformsUnloaded, RemoveServices,
          DropListeners, Leave, Begin, Goto, calling, Requests, Settled, Listening, Parts
<1>3. CallInv'
  BY DEF IInv, TypeOK, CallInv, SetupInv, PlatformsUnloaded, RemoveServices,
          DropListeners, Leave, Begin, Goto, calling, Requests, Settled
<1>4. ServicesWhileLoaded'
  BY DEF IInv, TypeOK, ServicesWhileLoaded, SetupInv, PlatformsUnloaded,
          RemoveServices, DropListeners, Leave, Begin, Goto, calling, Requests, Settled
<1>5. OneListener'
  BY DEF IInv, TypeOK, SetupInv, OneListener, PlatformsUnloaded, RemoveServices,
          DropListeners, Leave, Begin, Goto, calling, Requests, Settled, Listening
<1>6. CallServesAll'
  BY DEF IInv, TypeOK, CallInv, CallServesAll, PlatformsUnloaded, RemoveServices,
          DropListeners, Leave, Begin, Goto, calling, Requests, Settled
<1>7. OptionsApplied'
  BY DEF IInv, TypeOK, SetupInv, OneListener, OptionsApplied, PlatformsUnloaded,
          RemoveServices, DropListeners, Leave, Begin, Goto, calling, Requests, Settled, Listening, Parts
<1>8. QED BY <1>1, <1>2, <1>3, <1>4, <1>5, <1>6, <1>7 DEF IInv

LEMMA UnloadFailsKeeps ==
  ASSUME NEW e \in Entries, IInv, UnloadFails(e)
  PROVE  IInv'
<1>1. TypeOK'
  <2>1. phase' \in [Entries -> Phases]
    BY DEF IInv, TypeOK, UnloadFails, Goto, calling, Phases, Settled, Requests
  <2>2. reloads' \in [Entries -> 0..MaxReloads] /\ after' \in [Entries -> {"stay", "setup", "remove"}]
    BY LifecycleAssumption DEF IInv, TypeOK, UnloadFails, Goto, calling
  <2>3. current' \in [Entries -> SUBSET Parts]
    BY DEF IInv, TypeOK, UnloadFails, Goto, calling
  <2>4. raced' \in [Entries -> BOOLEAN]
    BY DEF IInv, TypeOK, UnloadFails, Goto, calling
  <2>5. runtime' \in [Entries -> BOOLEAN]
    BY DEF IInv, TypeOK, UnloadFails, Goto, calling
  <2>6. listeners' \in [Entries -> Nat]
    BY DEF IInv, TypeOK, UnloadFails, Goto, calling
  <2>7. listed' \subseteq Entries /\ services' \in BOOLEAN /\ call' \in Calls /\ loadedAll' \subseteq Entries
    BY DEF IInv, TypeOK, UnloadFails, Goto, calling
  <2>8. QED BY <2>1, <2>2, <2>3, <2>4, <2>5, <2>6, <2>7 DEF TypeOK
<1>2. SetupInv'
  BY DEF IInv, TypeOK, SetupInv, OneListener, UnloadFails, Goto, calling, Requests,
          Settled, Listening, Parts
<1>3. CallInv'
  BY DEF IInv, TypeOK, CallInv, SetupInv, UnloadFails, Goto, calling, Requests, Settled
<1>4. ServicesWhileLoaded'
  BY DEF IInv, TypeOK, ServicesWhileLoaded, SetupInv, UnloadFails, Goto, calling,
          Requests, Settled
<1>5. OneListener'
  BY DEF IInv, TypeOK, SetupInv, OneListener, UnloadFails, Goto, calling, Requests,
          Settled, Listening
<1>6. CallServesAll'
  BY DEF IInv, TypeOK, CallInv, CallServesAll, UnloadFails, Goto, calling, Requests,
          Settled
<1>7. OptionsApplied'
  BY DEF IInv, TypeOK, SetupInv, OneListener, OptionsApplied, UnloadFails, Goto,
          calling, Requests, Settled, Listening, Parts
<1>8. QED BY <1>1, <1>2, <1>3, <1>4, <1>5, <1>6, <1>7 DEF IInv

LEMMA AddKeeps ==
  ASSUME NEW e \in Entries, IInv, Add(e)
  PROVE  IInv'
<1>1. TypeOK'
  <2>1. phase' \in [Entries -> Phases]
    BY BeginTypes DEF IInv, TypeOK, Add, Goto, calling, Phases, Settled, Requests
  <2>2. reloads' \in [Entries -> 0..MaxReloads] /\ after' \in [Entries -> {"stay", "setup", "remove"}]
    BY LifecycleAssumption DEF IInv, TypeOK, Add, Goto, calling
  <2>3. current' \in [Entries -> SUBSET Parts]
    BY BeginTypes DEF IInv, TypeOK, Add, Goto, calling
  <2>4. raced' \in [Entries -> BOOLEAN]
    BY BeginTypes DEF IInv, TypeOK, Add, Goto, calling
  <2>5. runtime' \in [Entries -> BOOLEAN]
    BY DEF IInv, TypeOK, Add, Goto, calling
  <2>6. listeners' \in [Entries -> Nat]
    BY DEF IInv, TypeOK, Add, Goto, calling
  <2>7. listed' \subseteq Entries /\ services' \in BOOLEAN /\ call' \in Calls /\ loadedAll' \subseteq Entries
    BY DEF IInv, TypeOK, Add, Goto, calling
  <2>8. QED BY <2>1, <2>2, <2>3, <2>4, <2>5, <2>6, <2>7 DEF TypeOK
<1>2. SetupInv'
  BY DEF IInv, TypeOK, SetupInv, OneListener, Add, Begin, Goto, calling, Requests,
          Settled, Listening, Parts
<1>3. CallInv'
  BY DEF IInv, TypeOK, CallInv, SetupInv, Add, Begin, Goto, calling, Requests, Settled
<1>4. ServicesWhileLoaded'
  BY DEF IInv, TypeOK, ServicesWhileLoaded, SetupInv, Add, Begin, Goto, calling,
          Requests, Settled
<1>5. OneListener'
  BY DEF IInv, TypeOK, SetupInv, OneListener, Add, Begin, Goto, calling, Requests,
          Settled, Listening
<1>6. CallServesAll'
  BY DEF IInv, TypeOK, CallInv, CallServesAll, Add, Begin, Goto, calling, Requests,
          Settled
<1>7. OptionsApplied'
  BY DEF IInv, TypeOK, SetupInv, OneListener, OptionsApplied, Add, Begin, Goto,
          calling, Requests, Settled, Listening, Parts
<1>8. QED BY <1>1, <1>2, <1>3, <1>4, <1>5, <1>6, <1>7 DEF IInv

LEMMA SetUpAgainKeeps ==
  ASSUME NEW e \in Entries, IInv, SetUpAgain(e)
  PROVE  IInv'
<1>1. TypeOK'
  <2>1. phase' \in [Entries -> Phases]
    BY BeginTypes DEF IInv, TypeOK, SetUpAgain, Goto, calling, Phases, Settled, Requests
  <2>2. reloads' \in [Entries -> 0..MaxReloads] /\ after' \in [Entries -> {"stay", "setup", "remove"}]
    BY LifecycleAssumption DEF IInv, TypeOK, SetUpAgain, Goto, calling
  <2>3. current' \in [Entries -> SUBSET Parts]
    BY BeginTypes DEF IInv, TypeOK, SetUpAgain, Goto, calling
  <2>4. raced' \in [Entries -> BOOLEAN]
    BY BeginTypes DEF IInv, TypeOK, SetUpAgain, Goto, calling
  <2>5. runtime' \in [Entries -> BOOLEAN]
    BY DEF IInv, TypeOK, SetUpAgain, Goto, calling
  <2>6. listeners' \in [Entries -> Nat]
    BY DEF IInv, TypeOK, SetUpAgain, Goto, calling
  <2>7. listed' \subseteq Entries /\ services' \in BOOLEAN /\ call' \in Calls /\ loadedAll' \subseteq Entries
    BY DEF IInv, TypeOK, SetUpAgain, Goto, calling
  <2>8. QED BY <2>1, <2>2, <2>3, <2>4, <2>5, <2>6, <2>7 DEF TypeOK
<1>2. SetupInv'
  BY DEF IInv, TypeOK, SetupInv, OneListener, SetUpAgain, Begin, Goto, calling,
          Requests, Settled, Listening, Parts
<1>3. CallInv'
  BY DEF IInv, TypeOK, CallInv, SetupInv, SetUpAgain, Begin, Goto, calling, Requests,
          Settled
<1>4. ServicesWhileLoaded'
  BY DEF IInv, TypeOK, ServicesWhileLoaded, SetupInv, SetUpAgain, Begin, Goto,
          calling, Requests, Settled
<1>5. OneListener'
  BY DEF IInv, TypeOK, SetupInv, OneListener, SetUpAgain, Begin, Goto, calling,
          Requests, Settled, Listening
<1>6. CallServesAll'
  BY DEF IInv, TypeOK, CallInv, CallServesAll, SetUpAgain, Begin, Goto, calling,
          Requests, Settled
<1>7. OptionsApplied'
  BY DEF IInv, TypeOK, SetupInv, OneListener, OptionsApplied, SetUpAgain, Begin,
          Goto, calling, Requests, Settled, Listening, Parts
<1>8. QED BY <1>1, <1>2, <1>3, <1>4, <1>5, <1>6, <1>7 DEF IInv

LEMMA DisableKeeps ==
  ASSUME NEW e \in Entries, IInv, Disable(e)
  PROVE  IInv'
<1>1. TypeOK'
  BY DEF IInv, TypeOK, Disable, Unload, Goto, Phases, Settled, Requests, Parts
<1>2. SetupInv'
  BY DEF IInv, TypeOK, SetupInv, OneListener, Disable, Unload, Goto, Requests,
          Settled, Listening, Parts
<1>3. CallInv'
  BY DEF IInv, TypeOK, CallInv, SetupInv, Disable, Unload, Goto, Requests, Settled
<1>4. ServicesWhileLoaded'
  BY DEF IInv, TypeOK, ServicesWhileLoaded, SetupInv, Disable, Unload, Goto,
          Requests, Settled
<1>5. OneListener'
  BY DEF IInv, TypeOK, SetupInv, OneListener, Disable, Unload, Goto, Requests,
          Settled, Listening
<1>6. CallServesAll'
  BY DEF IInv, TypeOK, CallInv, CallServesAll, Disable, Unload, Goto, Requests, Settled
<1>7. OptionsApplied'
  BY DEF IInv, TypeOK, SetupInv, OneListener, OptionsApplied, Disable, Unload, Goto,
          Requests, Settled, Listening, Parts
<1>8. QED BY <1>1, <1>2, <1>3, <1>4, <1>5, <1>6, <1>7 DEF IInv

LEMMA RemoveKeeps ==
  ASSUME NEW e \in Entries, IInv, Remove(e)
  PROVE  IInv'
<1>1. TypeOK'
  <2>1. phase' \in [Entries -> Phases]
    BY DEF IInv, TypeOK, Remove, Unload, Goto, Phases, Settled, Requests
  <2>2. reloads' \in [Entries -> 0..MaxReloads] /\ after' \in [Entries -> {"stay", "setup", "remove"}]
    BY LifecycleAssumption DEF IInv, TypeOK, Remove, Unload, Goto
  <2>3. current' \in [Entries -> SUBSET Parts]
    BY DEF IInv, TypeOK, Remove, Unload, Goto
  <2>4. raced' \in [Entries -> BOOLEAN]
    BY DEF IInv, TypeOK, Remove, Unload, Goto
  <2>5. runtime' \in [Entries -> BOOLEAN]
    BY DEF IInv, TypeOK, Remove, Unload, Goto
  <2>6. listeners' \in [Entries -> Nat]
    BY DEF IInv, TypeOK, Remove, Unload, Goto
  <2>7. listed' \subseteq Entries /\ services' \in BOOLEAN /\ call' \in Calls /\ loadedAll' \subseteq Entries
    BY DEF IInv, TypeOK, Remove, Unload, Goto
  <2>8. QED BY <2>1, <2>2, <2>3, <2>4, <2>5, <2>6, <2>7 DEF TypeOK
<1>2. SetupInv'
  BY DEF IInv, TypeOK, SetupInv, OneListener, Remove, Unload, Goto, Requests,
          Settled, Listening, Parts
<1>3. CallInv'
  BY DEF IInv, TypeOK, CallInv, SetupInv, Remove, Unload, Goto, Requests, Settled
<1>4. ServicesWhileLoaded'
  BY DEF IInv, TypeOK, ServicesWhileLoaded, SetupInv, Remove, Unload, Goto, Requests,
          Settled
<1>5. OneListener'
  BY DEF IInv, TypeOK, SetupInv, OneListener, Remove, Unload, Goto, Requests,
          Settled, Listening
<1>6. CallServesAll'
  BY DEF IInv, TypeOK, CallInv, CallServesAll, Remove, Unload, Goto, Requests, Settled
<1>7. OptionsApplied'
  BY DEF IInv, TypeOK, SetupInv, OneListener, OptionsApplied, Remove, Unload, Goto,
          Requests, Settled, Listening, Parts
<1>8. QED BY <1>1, <1>2, <1>3, <1>4, <1>5, <1>6, <1>7 DEF IInv

\* The listener of a loaded entry makes a reload due.
LEMMA UpdateOptionsKeeps ==
  ASSUME NEW e \in Entries, IInv, UpdateOptions(e)
  PROVE  IInv'
<1>1. TypeOK'
  BY LifecycleAssumption DEF IInv, TypeOK, UpdateOptions, calling, Phases, Settled,
          Requests, Parts
<1>2. SetupInv'
  BY DEF IInv, TypeOK, SetupInv, OneListener, UpdateOptions, calling, Requests,
          Settled, Listening, Parts
<1>3. CallInv'
  BY DEF IInv, TypeOK, CallInv, SetupInv, UpdateOptions, calling, Requests, Settled
<1>4. ServicesWhileLoaded'
  BY DEF IInv, TypeOK, ServicesWhileLoaded, SetupInv, UpdateOptions, calling,
          Requests, Settled
<1>5. OneListener'
  BY DEF IInv, TypeOK, SetupInv, OneListener, UpdateOptions, calling, Requests,
          Settled, Listening
<1>6. CallServesAll'
  BY DEF IInv, TypeOK, CallInv, CallServesAll, UpdateOptions, calling, Requests, Settled
<1>7. OptionsApplied'
  BY DEF IInv, TypeOK, SetupInv, OneListener, OptionsApplied, UpdateOptions, calling,
          Requests, Settled, Listening, Parts
<1>8. QED BY <1>1, <1>2, <1>3, <1>4, <1>5, <1>6, <1>7 DEF IInv

LEMMA ReauthenticatedKeeps ==
  ASSUME NEW e \in Entries, IInv, Reauthenticated(e)
  PROVE  IInv'
<1>1. TypeOK'
  BY LifecycleAssumption DEF IInv, TypeOK, Reauthenticated, calling, Phases, Settled,
          Requests, Parts
<1>2. SetupInv'
  BY DEF IInv, TypeOK, SetupInv, OneListener, Reauthenticated, calling, Requests,
          Settled, Listening, Parts
<1>3. CallInv'
  BY DEF IInv, TypeOK, CallInv, SetupInv, Reauthenticated, calling, Requests, Settled
<1>4. ServicesWhileLoaded'
  BY DEF IInv, TypeOK, ServicesWhileLoaded, SetupInv, Reauthenticated, calling,
          Requests, Settled
<1>5. OneListener'
  BY DEF IInv, TypeOK, SetupInv, OneListener, Reauthenticated, calling, Requests,
          Settled, Listening
<1>6. CallServesAll'
  BY DEF IInv, TypeOK, CallInv, CallServesAll, Reauthenticated, calling, Requests,
          Settled
<1>7. OptionsApplied'
  BY DEF IInv, TypeOK, SetupInv, OneListener, OptionsApplied, Reauthenticated,
          calling, Requests, Settled, Listening, Parts
<1>8. QED BY <1>1, <1>2, <1>3, <1>4, <1>5, <1>6, <1>7 DEF IInv

LEMMA ReloadKeeps ==
  ASSUME NEW e \in Entries, IInv, Reload(e)
  PROVE  IInv'
<1>1. TypeOK'
  <2>1. phase' \in [Entries -> Phases]
    BY BeginTypes DEF IInv, TypeOK, Reload, Unload, Goto, Phases, Settled, Requests
  <2>2. reloads' \in [Entries -> 0..MaxReloads] /\ after' \in [Entries -> {"stay", "setup", "remove"}]
    BY LifecycleAssumption DEF IInv, TypeOK, Reload, Unload, Goto
  <2>3. current' \in [Entries -> SUBSET Parts]
    BY BeginTypes DEF IInv, TypeOK, Reload, Unload, Goto
  <2>4. raced' \in [Entries -> BOOLEAN]
    BY BeginTypes DEF IInv, TypeOK, Reload, Unload, Goto
  <2>5. runtime' \in [Entries -> BOOLEAN]
    BY DEF IInv, TypeOK, Reload, Unload, Goto
  <2>6. listeners' \in [Entries -> Nat]
    BY DEF IInv, TypeOK, Reload, Unload, Goto
  <2>7. listed' \subseteq Entries /\ services' \in BOOLEAN /\ call' \in Calls /\ loadedAll' \subseteq Entries
    BY DEF IInv, TypeOK, Reload, Unload, Goto
  <2>8. QED BY <2>1, <2>2, <2>3, <2>4, <2>5, <2>6, <2>7 DEF TypeOK
<1>2. SetupInv'
  BY DEF IInv, TypeOK, SetupInv, OneListener, Reload, Unload, Begin, Goto, Requests,
          Settled, Listening, Parts
<1>3. CallInv'
  BY DEF IInv, TypeOK, CallInv, SetupInv, Reload, Unload, Begin, Goto, Requests, Settled
<1>4. ServicesWhileLoaded'
  BY DEF IInv, TypeOK, ServicesWhileLoaded, SetupInv, Reload, Unload, Begin, Goto,
          Requests, Settled
<1>5. OneListener'
  BY DEF IInv, TypeOK, SetupInv, OneListener, Reload, Unload, Begin, Goto, Requests,
          Settled, Listening
<1>6. CallServesAll'
  BY DEF IInv, TypeOK, CallInv, CallServesAll, Reload, Unload, Begin, Goto, Requests,
          Settled
<1>7. OptionsApplied'
  BY DEF IInv, TypeOK, SetupInv, OneListener, OptionsApplied, Reload, Unload, Begin,
          Goto, Requests, Settled, Listening, Parts
<1>8. QED BY <1>1, <1>2, <1>3, <1>4, <1>5, <1>6, <1>7 DEF IInv

LEMMA VisitKeeps ==
  ASSUME NEW e \in Entries, IInv, Visit(e)
  PROVE  IInv'
<1>1. TypeOK'
  BY DEF IInv, TypeOK, Visit, Calls, NoCall
<1>2. SetupInv'
  BY DEF IInv, TypeOK, SetupInv, OneListener, Visit, Requests, Settled, Listening, Parts
<1>3. CallInv'
  BY DEF IInv, TypeOK, CallInv, SetupInv, Visit, Calls, NoCall, Requests
<1>4. ServicesWhileLoaded'
  BY DEF IInv, TypeOK, ServicesWhileLoaded, SetupInv, Visit, Requests, Settled
<1>5. OneListener'
  BY DEF IInv, TypeOK, SetupInv, OneListener, Visit, Requests, Settled, Listening
<1>6. CallServesAll'
  BY DEF IInv, TypeOK, CallInv, CallServesAll, Visit, Calls, NoCall
<1>7. OptionsApplied'
  BY DEF IInv, TypeOK, SetupInv, OneListener, OptionsApplied, Visit, Requests,
          Settled, Listening, Parts
<1>8. QED BY <1>1, <1>2, <1>3, <1>4, <1>5, <1>6, <1>7 DEF IInv

LEMMA StartCallKeeps ==
  ASSUME IInv, StartCall
  PROVE  IInv'
<1>1. TypeOK'
  <2>1. call' \in Calls BY DEF IInv, TypeOK, StartCall, Calls, NoCall
  <2>2. loadedAll' \subseteq Entries BY DEF IInv, TypeOK, StartCall
  <2>3. QED BY <2>1, <2>2 DEF IInv, TypeOK, StartCall
<1>2. SetupInv'
  BY DEF IInv, TypeOK, SetupInv, OneListener, StartCall, Requests, Settled,
          Listening, Parts
<1>3. CallInv'
  BY DEF IInv, TypeOK, CallInv, SetupInv, StartCall, Calls, NoCall, Requests
<1>4. ServicesWhileLoaded'
  BY DEF IInv, TypeOK, ServicesWhileLoaded, SetupInv, StartCall, Requests, Settled
<1>5. OneListener'
  BY DEF IInv, TypeOK, SetupInv, OneListener, StartCall, Requests, Settled, Listening
<1>6. CallServesAll'
  BY DEF IInv, TypeOK, CallInv, CallServesAll, StartCall, Calls, NoCall
<1>7. OptionsApplied'
  BY DEF IInv, TypeOK, SetupInv, OneListener, OptionsApplied, StartCall, Requests,
          Settled, Listening, Parts
<1>8. QED BY <1>1, <1>2, <1>3, <1>4, <1>5, <1>6, <1>7 DEF IInv

LEMMA AnswerKeeps ==
  ASSUME IInv, Answer
  PROVE  IInv'
<1>1. TypeOK'
  <2>1. call' \in Calls BY DEF IInv, TypeOK, Answer, Calls, NoCall
  <2>2. loadedAll' \subseteq Entries BY DEF IInv, TypeOK, Answer
  <2>3. QED BY <2>1, <2>2 DEF IInv, TypeOK, Answer
<1>2. SetupInv'
  BY DEF IInv, TypeOK, SetupInv, OneListener, Answer, Requests, Settled, Listening,
          Parts
<1>3. CallInv'
  <2>1. CASE call' = [call EXCEPT !.at = {}, !.served = @ \cup call.at]
    BY <2>1 DEF IInv, TypeOK, CallInv, Answer, Calls
  <2>2. CASE call' = [call EXCEPT !.active = FALSE, !.at = {}, !.todo = {}, !.failed = TRUE]
    BY <2>2 DEF IInv, TypeOK, CallInv, Answer, Calls
  <2>3. QED BY <2>1, <2>2 DEF Answer
<1>4. ServicesWhileLoaded'
  BY DEF IInv, TypeOK, ServicesWhileLoaded, SetupInv, Answer, Requests, Settled
<1>5. OneListener'
  BY DEF IInv, TypeOK, SetupInv, OneListener, Answer, Requests, Settled, Listening
<1>6. CallServesAll'
  BY DEF IInv, TypeOK, CallInv, CallServesAll, Answer, Calls, NoCall
<1>7. OptionsApplied'
  BY DEF IInv, TypeOK, SetupInv, OneListener, OptionsApplied, Answer, Requests,
          Settled, Listening, Parts
<1>8. QED BY <1>1, <1>2, <1>3, <1>4, <1>5, <1>6, <1>7 DEF IInv

LEMMA EndCallKeeps ==
  ASSUME IInv, EndCall
  PROVE  IInv'
<1>1. TypeOK'
  BY DEF IInv, TypeOK, EndCall, Calls, NoCall
<1>2. SetupInv'
  BY DEF IInv, TypeOK, SetupInv, OneListener, EndCall, Requests, Settled, Listening,
          Parts
<1>3. CallInv'
  BY DEF IInv, TypeOK, CallInv, SetupInv, EndCall, Calls, NoCall, Requests
<1>4. ServicesWhileLoaded'
  BY DEF IInv, TypeOK, ServicesWhileLoaded, SetupInv, EndCall, Requests, Settled
<1>5. OneListener'
  BY DEF IInv, TypeOK, SetupInv, OneListener, EndCall, Requests, Settled, Listening
<1>6. CallServesAll'
  BY DEF IInv, TypeOK, CallInv, CallServesAll, EndCall, Calls, NoCall
<1>7. OptionsApplied'
  BY DEF IInv, TypeOK, SetupInv, OneListener, OptionsApplied, EndCall, Requests,
          Settled, Listening, Parts
<1>8. QED BY <1>1, <1>2, <1>3, <1>4, <1>5, <1>6, <1>7 DEF IInv

-------------------------------------------------------------------------------
LEMMA InitHolds == Init => IInv
<1> SUFFICES ASSUME Init PROVE IInv OBVIOUS
<1>1. TypeOK
  <2>1. call \in Calls BY DEF Init, Calls, NoCall
  <2>2. 0 \in 0..MaxReloads BY LifecycleAssumption
  <2>3. QED BY <2>1, <2>2 DEF Init, TypeOK, Phases, Settled
<1>2. SetupInv /\ ServicesWhileLoaded /\ OneListener /\ OptionsApplied
  BY DEF Init, SetupInv, ServicesWhileLoaded, OneListener, OptionsApplied, Requests, Listening
<1>3. CallInv /\ CallServesAll BY DEF Init, CallInv, CallServesAll, NoCall
<1>4. QED BY <1>1, <1>2, <1>3 DEF IInv

LEMMA NextKeeps == IInv /\ [Next]_vars => IInv'
<1>1. ASSUME IInv, UNCHANGED vars
      PROVE  IInv'
  BY <1>1 DEF IInv, TypeOK, SetupInv, CallInv, ServicesWhileLoaded, OneListener,
              CallServesAll, OptionsApplied, vars
<1>2. ASSUME IInv, Next
      PROVE  IInv'
  BY <1>2, MatrixLoadedKeeps, RequestOkKeeps, RequestFailsKeeps, PlatformsForwardedKeeps,
     PlatformsUnloadedKeeps, UnloadFailsKeeps, AddKeeps, SetUpAgainKeeps, DisableKeeps,
     RemoveKeeps, UpdateOptionsKeeps, ReauthenticatedKeeps, ReloadKeeps, VisitKeeps,
     StartCallKeeps, AnswerKeeps, EndCallKeeps DEF Next
<1>3. QED BY <1>1, <1>2

\* The invariant holds for any number of entries and of reloads that wait.
THEOREM Inductive == Spec => []IInv
BY InitHolds, NextKeeps, PTL DEF Spec

\* Every variable keeps its type: no set-up is in two places, no reload is lost
\* below zero.
THEOREM TypeCorrect == Spec => []TypeOK
<1>1. IInv => TypeOK BY DEF IInv
<1>2. QED BY <1>1, Inductive, PTL

\* However set-ups, unloads and removals of the entries overlap, the services
\* are registered while any of them is loaded.
THEOREM ServicesStay == Spec => []ServicesWhileLoaded
<1>1. IInv => ServicesWhileLoaded BY DEF IInv
<1>2. QED BY <1>1, Inductive, PTL

\* Set-up and unload register and drop the update listener in pairs.
THEOREM ListenersPaired == Spec => []OneListener
<1>1. IInv => OneListener BY DEF IInv
<1>2. QED BY <1>1, Inductive, PTL

\* A service call passes over no entry that was loaded from its beginning to
\* its end.
THEOREM CallsServe == Spec => []CallServesAll
<1>1. IInv => CallServesAll BY DEF IInv
<1>2. QED BY <1>1, Inductive, PTL

\* Changed options reach a loaded entry, but for a change during its set-up.
THEOREM OptionsReach == Spec => []OptionsApplied
<1>1. IInv => OptionsApplied BY DEF IInv
<1>2. QED BY <1>1, Inductive, PTL

==============================================================================
