-------------------------- MODULE StateRefresh_proofs --------------------------
(***************************************************************************)
(* The state refresh for any number of devices, listings and overlapping   *)
(* runs: type correctness, the sticky fallback, the progress of the        *)
(* round-robin slices, the whole listing of the fallback and the number of *)
(* requests a refresh makes.                                               *)
(***************************************************************************)
EXTENDS StateRefresh, SequenceTheorems, TLAPS

-------------------------------------------------------------------------------
(* The slice of _async_per_device_state *)

\* Rotating keeps the length and maps place i to place i - c of the list,
\* counted round.
LEMMA RotateFacts ==
  ASSUME NEW D, NEW s \in Seq(D), NEW c \in 0..Len(s)-1
  PROVE  /\ Rotate(s, c) \in Seq(D)
         /\ Len(Rotate(s, c)) = Len(s)
         /\ \A i \in 0..Len(s)-1 : s[i + 1] = Rotate(s, c)[Distance(c, i, Len(s)) + 1]
         /\ \A p \in 1..Len(s) :
              Rotate(s, c)[p] = s[IF p <= Len(s) - c THEN p + c ELSE p + c - Len(s)]
<1> DEFINE back  == SubSeq(s, c + 1, Len(s))
           front == SubSeq(s, 1, c)
<1>1. /\ back \in Seq(D) /\ Len(back) = Len(s) - c
      /\ \A p \in 1..Len(s)-c : back[p] = s[p + c]
  OBVIOUS
<1>2. /\ front \in Seq(D) /\ Len(front) = c
      /\ \A p \in 1..c : front[p] = s[p]
  OBVIOUS
<1>3. Rotate(s, c) = back \o front
  BY DEF Rotate
<1> HIDE DEF back, front
<1>4. /\ back \o front \in Seq(D)
      /\ Len(back \o front) = Len(back) + Len(front)
      /\ \A p \in 1..Len(back) + Len(front) :
           (back \o front)[p] = IF p <= Len(back) THEN back[p] ELSE front[p - Len(back)]
  BY <1>1, <1>2, ConcatProperties
<1>5. \A p \in 1..Len(s) :
        Rotate(s, c)[p] = s[IF p <= Len(s) - c THEN p + c ELSE p + c - Len(s)]
  <2> TAKE p \in 1..Len(s)
  <2>1. CASE p <= Len(s) - c
    BY <2>1, <1>1, <1>2, <1>3, <1>4
  <2>2. CASE p > Len(s) - c
    BY <2>2, <1>1, <1>2, <1>3, <1>4
  <2> QED
    BY <2>1, <2>2
<1>6. \A i \in 0..Len(s)-1 : s[i + 1] = Rotate(s, c)[Distance(c, i, Len(s)) + 1]
  <2> TAKE i \in 0..Len(s)-1
  <2>1. CASE i >= c
    BY <2>1, <1>5 DEF Distance
  <2>2. CASE i < c
    <3> DEFINE p == i - c + Len(s) + 1
    <3>1. /\ p \in 1..Len(s) /\ ~(p <= Len(s) - c) /\ p + c - Len(s) = i + 1
          /\ p = Distance(c, i, Len(s)) + 1
      BY <2>2 DEF Distance
    <3> HIDE DEF p
    <3>2. Rotate(s, c)[p] = s[p + c - Len(s)]
      BY <3>1, <1>5
    <3> QED
      BY <3>1, <3>2
  <2> QED
    BY <2>1, <2>2
<1>7. Rotate(s, c) \in Seq(D) /\ Len(Rotate(s, c)) = Len(s)
  BY <1>1, <1>2, <1>3, <1>4
<1> QED
  BY <1>5, <1>6, <1>7

\* Take is a prefix.
LEMMA TakeFacts ==
  ASSUME NEW D, NEW s \in Seq(D), NEW k \in Nat
  PROVE  /\ Take(s, k) \in Seq(D)
         /\ Len(Take(s, k)) = IF k < Len(s) THEN k ELSE Len(s)
         /\ \A p \in 1..Len(Take(s, k)) : Take(s, k)[p] = s[p]
  BY DEF Take

\* A number below 2n modulo n.
LEMMA SmallModulus ==
  ASSUME NEW n \in Nat \ {0}, NEW x \in Nat, x < 2 * n
  PROVE  x % n = IF x < n THEN x ELSE x - n
  OBVIOUS

LEMMA ModulusRange ==
  ASSUME NEW n \in Nat \ {0}, NEW x \in Nat
  PROVE  x % n \in 0..n-1
  OBVIOUS

-------------------------------------------------------------------------------
(* Types and loops *)

\* Taking a slice leaves work for the loop and the cursor within the list.
LEMMA SliceFacts ==
  ASSUME TypeOK, NEW r \in Runs, NEW s \in Inventories, s # <<>>, TakeSlice(r, s)
  PROVE  /\ \E t \in Seq(Devices) : t # <<>> /\ todo' = [todo EXCEPT ![r] = t]
         /\ cursor' \in Nat
         /\ cursor' # 0 => \E q \in Inventories : cursor' < Len(q)
<1> DEFINE n == Len(s)
           c == cursor % n
           slice == Take(Rotate(s, c), PerCycle)
<1>1. s \in Seq(Devices) /\ n \in Nat \ {0}
  BY RefreshAssumption
<1>2. CASE AggregatePath
  BY <1>1, <1>2 DEF TakeSlice, TypeOK
<1>3. CASE ~AggregatePath
  <2>1. todo' = [todo EXCEPT ![r] = slice] /\ cursor' = (c + Len(slice)) % n
    BY <1>3 DEF TakeSlice
  <2>2. c \in 0..n-1
    BY <1>1, ModulusRange DEF TypeOK
  <2> HIDE DEF c
  <2>3. Rotate(s, c) \in Seq(Devices) /\ Len(Rotate(s, c)) = n
    BY <1>1, <2>2, RotateFacts
  <2>4. slice \in Seq(Devices) /\ Len(slice) \in Nat \ {0}
    BY <1>1, <2>3, TakeFacts, RefreshAssumption
  <2> HIDE DEF slice
  <2>5. cursor' \in 0..n-1
    <3> DEFINE x == c + Len(slice)
    <3>1. x \in Nat
      BY <1>1, <2>2, <2>4
    <3> HIDE DEF x
    <3>2. x % n \in 0..n-1
      BY <1>1, <3>1, ModulusRange
    <3> QED
      BY <2>1, <3>2 DEF x
  <2>6. \E t \in Seq(Devices) : t # <<>> /\ todo' = [todo EXCEPT ![r] = t]
    <3>1. slice # <<>>
      BY <2>4
    <3> QED
      BY <2>1, <2>4, <3>1
  <2>7. cursor' \in Nat /\ cursor' < Len(s)
    BY <1>1, <2>5
  <2> QED
    BY <2>6, <2>7
<1> QED
  BY <1>2, <1>3

\* The enrichment begins with a device, for max_per_cycle is at least one.
LEMMA EnrichmentFacts ==
  ASSUME NEW s \in Inventories, s # <<>>
  PROVE  Take(s, MaxPerCycle(s)) \in Seq(Devices) /\ Take(s, MaxPerCycle(s)) # <<>>
<1>1. s \in Seq(Devices) /\ Len(s) \in Nat \ {0} /\ MaxPerCycle(s) \in Nat \ {0}
  BY RefreshAssumption DEF MaxPerCycle
<1>2. Len(Take(s, MaxPerCycle(s))) > 0 /\ Take(s, MaxPerCycle(s)) \in Seq(Devices)
  BY <1>1, TakeFacts
<1> QED
  BY <1>2

\* A loop that has more than one device left goes on with the rest.
LEMMA TailFacts ==
  ASSUME NEW s \in Seq(Devices), Len(s) > 1
  PROVE  Tail(s) \in Seq(Devices) /\ Tail(s) # <<>>
<1>1. s # <<>>
  OBVIOUS
<1>2. Tail(s) \in Seq(Devices) /\ Len(Tail(s)) > 0
  BY <1>1, HeadTailProperties
<1> QED
  BY <1>2

\* The part of the invariant about one run
RunInv == TypeOK /\ LoopInv

\* What the end of a run leaves: no loop and no list.
LEMMA EndStep ==
  ASSUME RunInv, NEW r \in Runs, NEW how \in {"ok", "failed", "authFailed"},
         End(r, how), UNCHANGED shared, data' \in [Devices -> {"absent", "empty", "full"}]
  PROVE  RunInv'
  BY DEF RunInv, TypeOK, LoopInv, End, shared, Places, Maps, NoStates

\* A step that goes on to a loop with work left keeps the invariant.
LEMMA LoopStep ==
  ASSUME RunInv, NEW r \in Runs, ids[r] # <<>>,
         NEW place \in Places, NEW t \in Seq(Devices), t # <<>>,
         Goto(r, place), todo' = [todo EXCEPT ![r] = t],
         stateMap' \in [Runs -> Maps], guarded' \in [Runs -> BOOLEAN],
         UNCHANGED <<inventory, ids, ending>>,
         available' \in {"unknown", "yes", "no", "nopath"},
         cursor' \in Nat, cursor' # 0 => \E s \in Inventories : cursor' < Len(s)
  PROVE  RunInv'
<1>1. UNCHANGED <<inventory, ids, outcome, data>>
  BY DEF ending
<1>2. pc' \in [Runs -> {"idle"} \cup Places]
  BY DEF RunInv, TypeOK, Goto
<1>3. todo' \in [Runs -> Seq(Devices)]
  BY DEF RunInv, TypeOK
<1>4. TypeOK'
  BY <1>1, <1>2, <1>3 DEF RunInv, TypeOK
<1>5. LoopInv'
  BY <1>1 DEF RunInv, TypeOK, LoopInv, Goto
<1> QED
  BY <1>4, <1>5 DEF RunInv

\* The same for the step that begins the enrichment.
LEMMA EnrichStep ==
  ASSUME RunInv, NEW r \in Runs, ids[r] # <<>>, BeginEnrichment(r, ids[r]),
         stateMap' \in [Runs -> Maps], UNCHANGED <<inventory, cursor, ids, ending>>,
         available' \in {"unknown", "yes", "no", "nopath"}
  PROVE  RunInv'
<1>1. ids[r] \in Inventories
  BY DEF RunInv, TypeOK
<1>2. PICK t \in Seq(Devices) : t # <<>> /\ todo' = [todo EXCEPT ![r] = t]
  BY <1>1, EnrichmentFacts DEF BeginEnrichment
<1>3. PICK place \in Places : Goto(r, place)
  BY DEF BeginEnrichment, Places
<1>4. guarded' \in [Runs -> BOOLEAN]
  BY DEF BeginEnrichment, RunInv, TypeOK
<1> QED
  BY <1>2, <1>3, <1>4, LoopStep DEF RunInv, TypeOK

\* A loop of more than one device goes on with its tail.
LEMMA AdvanceStep ==
  ASSUME RunInv, NEW r \in Runs, ids[r] # <<>>, Len(todo[r]) > 1,
         NEW place \in Places, Advance(r, place),
         stateMap' \in [Runs -> Maps], UNCHANGED <<shared, ids, ending>>
  PROVE  RunInv'
<1>1. todo[r] \in Seq(Devices) /\ todo' = [todo EXCEPT ![r] = Tail(todo[r])]
  BY DEF RunInv, TypeOK, Advance
<1>2. Tail(todo[r]) \in Seq(Devices) /\ Tail(todo[r]) # <<>>
  BY <1>1, TailFacts
<1>3. Goto(r, place) /\ guarded' \in [Runs -> BOOLEAN]
  BY DEF Advance, RunInv, TypeOK
<1> QED
  BY <1>1, <1>2, <1>3, LoopStep DEF RunInv, TypeOK, shared

\* The end of a device's turn: the next one, or the enrichment.
LEMMA RecordStep ==
  ASSUME RunInv, NEW r \in Runs, ids[r] # <<>>, Head(todo[r]) \in Devices,
         NEW state \in {"full", "empty"}, Record(r, state),
         UNCHANGED <<inventory, cursor, ids, ending>>, available' = available
  PROVE  RunInv'
<1>1. stateMap' \in [Runs -> Maps]
  BY DEF Record, RunInv, TypeOK, Maps
<1>2. available' \in {"unknown", "yes", "no", "nopath"}
  BY DEF RunInv, TypeOK
<1>3. CASE Len(todo[r]) > 1
  BY <1>1, <1>3, AdvanceStep DEF Record, Places, shared
<1>4. CASE ~(Len(todo[r]) > 1)
  BY <1>1, <1>2, <1>4, EnrichStep DEF Record
<1> QED
  BY <1>3, <1>4

\* Publishing types: a device is absent, empty or full.
LEMMA PublishStep ==
  ASSUME RunInv, NEW r \in Runs, NEW s, NEW states, Publish(r, s, states), UNCHANGED shared
  PROVE  RunInv'
<1>1. End(r, "ok") /\ data' \in [Devices -> {"absent", "empty", "full"}]
  BY DEF Publish
<1> QED
  BY <1>1, EndStep

LEMMA FailStep ==
  ASSUME RunInv, NEW r \in Runs, NEW how \in {"failed", "authFailed"}, Fail(r, how)
  PROVE  RunInv'
  BY EndStep DEF Fail, RunInv, TypeOK

\* The start of a refresh.
LEMMA StartStep == ASSUME RunInv, NEW r \in Runs, Start(r) PROVE RunInv'
<1>1. CASE inventory = <<>>
  BY <1>1, PublishStep DEF Start
<1>2. CASE inventory # <<>> /\ available \notin {"no", "nopath"}
  <2>1. /\ ids' = [ids EXCEPT ![r] = inventory] /\ Goto(r, "aggregate")
        /\ UNCHANGED <<cursor, todo, inventory, available, guarded, stateMap, outcome, data>>
    BY <1>2 DEF Start, ending
  <2>2. TypeOK'
    BY <2>1 DEF RunInv, TypeOK, Goto, Places
  <2>3. LoopInv'
    BY <2>1, <1>2 DEF RunInv, TypeOK, LoopInv, Goto, Places
  <2> QED
    BY <2>2, <2>3 DEF RunInv
<1>3. CASE inventory # <<>> /\ available \in {"no", "nopath"}
  <2>1. /\ ids' = [ids EXCEPT ![r] = inventory] /\ Goto(r, "state")
        /\ TakeSlice(r, inventory)
        /\ UNCHANGED <<inventory, available, guarded, stateMap, outcome, data>>
    BY <1>3 DEF Start, ending
  <2>2. inventory \in Inventories
    BY DEF RunInv, TypeOK
  <2>3. PICK t \in Seq(Devices) : t # <<>> /\ todo' = [todo EXCEPT ![r] = t]
    BY <1>3, <2>1, <2>2, SliceFacts DEF RunInv
  <2>4. /\ cursor' \in Nat
        /\ cursor' # 0 => \E q \in Inventories : cursor' < Len(q)
    BY <1>3, <2>1, <2>2, SliceFacts DEF RunInv
  <2>5. /\ pc' \in [Runs -> {"idle"} \cup Places]
        /\ todo' \in [Runs -> Seq(Devices)]
    BY <2>1, <2>3 DEF RunInv, TypeOK, Goto, Places
  <2>6. TypeOK'
    BY <2>1, <2>2, <2>4, <2>5 DEF RunInv, TypeOK
  <2>7. LoopInv'
    BY <1>3, <2>1, <2>2, <2>3 DEF RunInv, TypeOK, LoopInv, Goto
  <2> QED
    BY <2>6, <2>7 DEF RunInv
<1> QED
  BY <1>1, <1>2, <1>3

\* Every answer to a run.
LEMMA AnswerStep == ASSUME RunInv, NEW r \in Runs, Answer(r) PROVE RunInv'
<1>1. /\ ids[r] \in Inventories \cup {<<>>} /\ todo[r] \in Seq(Devices)
      /\ stateMap \in [Runs -> Maps] /\ guarded \in [Runs -> BOOLEAN]
      /\ pc[r] \in Places => ids[r] # <<>>
      /\ pc[r] \in Places \ {"aggregate"} => todo[r] # <<>> /\ Head(todo[r]) \in Devices
  BY HeadTailProperties DEF RunInv, TypeOK, LoopInv, Places
<1>2. CASE AggregateData(r)
  <2>1. ids[r] # <<>>
    BY <1>1, <1>2 DEF AggregateData, Places
  <2>2. stateMap' \in [Runs -> Maps]
    BY <1>1, <1>2 DEF AggregateData, Maps
  <2> QED
    BY <1>2, <2>1, <2>2, EnrichStep DEF AggregateData
<1>3. ASSUME TakeSlice(r, ids[r]), Goto(r, "state"), available' = "no", ids[r] # <<>>,
             stateMap' \in [Runs -> Maps], guarded' \in [Runs -> BOOLEAN],
             UNCHANGED <<inventory, ids, ending>>
      PROVE  RunInv'
  <2>1. ids[r] \in Inventories
    BY <1>1, <1>3
  <2>2. PICK t \in Seq(Devices) : t # <<>> /\ todo' = [todo EXCEPT ![r] = t]
    BY <1>3, <2>1, SliceFacts DEF RunInv
  <2>3. /\ cursor' \in Nat
        /\ cursor' # 0 => \E q \in Inventories : cursor' < Len(q)
    BY <1>3, <2>1, SliceFacts DEF RunInv
  <2> QED
    BY <1>3, <2>2, <2>3, LoopStep DEF Places
<1>4. CASE AggregateMissing(r)
  <2>1. ids[r] # <<>> /\ stateMap' \in [Runs -> Maps] /\ guarded' \in [Runs -> BOOLEAN]
    BY <1>1, <1>4 DEF AggregateMissing, Places
  <2> QED
    BY <1>3, <1>4, <2>1 DEF AggregateMissing
<1>5. CASE DeviceState(r) \/ DeviceDetail(r)
  <2>1. ids[r] # <<>> /\ Head(todo[r]) \in Devices
    BY <1>1, <1>5 DEF DeviceState, DeviceDetail, Places
  <2> QED
    BY <1>5, <2>1, RecordStep DEF DeviceState, DeviceDetail, shared
<1>6. CASE FallBackToDetail(r)
  <2>1. /\ ids[r] # <<>> /\ todo[r] # <<>> /\ Goto(r, "detail")
        /\ todo' = [todo EXCEPT ![r] = todo[r]]
    BY <1>1, <1>6 DEF FallBackToDetail, Places, RunInv, TypeOK
  <2> QED
    BY <1>1, <1>6, <2>1, LoopStep DEF FallBackToDetail, Places, shared, RunInv, TypeOK
<1>7. CASE DetailError(r) \/ AuthFailure(r) \/ RequestTimeout(r)
  <2>1. CASE SecondPass(r) /\ pc[r] = "detail"
    <3>1. ids[r] # <<>> /\ stateMap' \in [Runs -> Maps] /\ guarded' \in [Runs -> BOOLEAN]
      BY <1>1, <2>1 DEF SecondPass, Places, Maps, NoStates
    <3> QED
      BY <1>3, <2>1, <3>1 DEF SecondPass
  <2> QED
    BY <1>7, <2>1, FailStep DEF DetailError, AuthFailure, RequestTimeout
<1>8. CASE Location(r)
  <2>1. ids[r] # <<>> /\ ids[r] \in Inventories
    BY <1>1, <1>8 DEF Location, Places
  <2>2. CASE Len(todo[r]) > 1
    BY <1>1, <1>8, <2>1, <2>2, AdvanceStep DEF Location, Places, shared
  <2>3. CASE ~(Len(todo[r]) > 1)
    <3>1. PICK t \in Seq(Devices) : t # <<>> /\ todo' = [todo EXCEPT ![r] = t]
      BY <1>8, <2>1, <2>3, EnrichmentFacts DEF Location
    <3> QED
      BY <1>1, <1>8, <2>1, <2>3, <3>1, LoopStep
         DEF Location, Places, shared, RunInv, TypeOK
  <2> QED
    BY <2>2, <2>3
<1>9. CASE Wireless(r)
  <2>1. PICK states \in {stateMap[r], [stateMap[r] EXCEPT ![Head(todo[r])] = "full"]} :
           IF Len(todo[r]) > 1
           THEN /\ stateMap' = [stateMap EXCEPT ![r] = states]
                /\ Advance(r, "wireless")
                /\ UNCHANGED <<ids, ending>>
           ELSE Publish(r, ids[r], states)
    BY <1>9 DEF Wireless
  <2>2. ids[r] # <<>> /\ states \in Maps /\ UNCHANGED shared
    BY <1>1, <1>9, <2>1 DEF Wireless, Places, Maps
  <2>3. CASE Len(todo[r]) > 1
    BY <1>1, <2>1, <2>2, <2>3, AdvanceStep DEF Places, shared
  <2>4. CASE ~(Len(todo[r]) > 1)
    BY <2>1, <2>2, <2>4, PublishStep
  <2> QED
    BY <2>3, <2>4
<1> QED
  BY <1>2, <1>3, <1>4, <1>5, <1>6, <1>7, <1>8, <1>9 DEF Answer

LEMMA InductiveStep == RunInv /\ [Next]_vars => RunInv'
<1> SUFFICES ASSUME RunInv, [Next]_vars PROVE RunInv'
  OBVIOUS
<1>1. CASE InventoryChanges \/ UNCHANGED vars
  BY <1>1 DEF InventoryChanges, vars, ending, RunInv, TypeOK, LoopInv
<1>2. ASSUME NEW r \in Runs, ScheduledStart(r) \/ RequestedStart(r) PROVE RunInv'
  BY <1>2, StartStep DEF ScheduledStart, RequestedStart
<1> QED
  BY <1>1, <1>2, AnswerStep DEF Next

\* A step of a run leaves the lists and the place of the others alone.
LEMMA OwnLists ==
  ASSUME NEW q \in Runs, NEW r \in Runs, q # r, RunInv,
         ScheduledStart(q) \/ RequestedStart(q) \/ Answer(q)
  PROVE  /\ pc'[r] = pc[r] /\ todo'[r] = todo[r] /\ ids'[r] = ids[r]
         /\ guarded'[r] = guarded[r] /\ stateMap'[r] = stateMap[r]
<1> USE DEF Goto, Advance, Record, BeginEnrichment, Publish, Fail, End, TakeSlice, RunInv,
            TypeOK
<1>1. CASE ScheduledStart(q) \/ RequestedStart(q)
  BY <1>1 DEF ScheduledStart, RequestedStart, Start
<1>2. CASE AggregateData(q) \/ AggregateMissing(q)
  BY <1>2 DEF AggregateData, AggregateMissing
<1>3. CASE DeviceState(q) \/ FallBackToDetail(q) \/ DeviceDetail(q)
  BY <1>3 DEF DeviceState, FallBackToDetail, DeviceDetail
<1>4. CASE DetailError(q) \/ AuthFailure(q) \/ RequestTimeout(q)
  BY <1>4 DEF DetailError, SecondPass, AuthFailure, RequestTimeout
<1>5. CASE Location(q) \/ Wireless(q)
  BY <1>5 DEF Location, Wireless
<1> QED
  BY <1>1, <1>2, <1>3, <1>4, <1>5 DEF Answer

\* The matrix has an aggregate path or has none: no answer changes that.
LEMMA PathKept ==
  ASSUME PathInv, [Next]_vars
  PROVE  AggregatePath' = AggregatePath
<1>1. CASE UNCHANGED vars \/ InventoryChanges
  BY <1>1 DEF vars, InventoryChanges, AggregatePath
<1>2. ASSUME NEW r \in Runs, ScheduledStart(r) \/ RequestedStart(r)
      PROVE  AggregatePath' = AggregatePath
  BY <1>2 DEF ScheduledStart, RequestedStart, Start, shared, AggregatePath
<1>3. ASSUME NEW r \in Runs, Answer(r) PROVE AggregatePath' = AggregatePath
  <2>1. CASE AggregateData(r) \/ AggregateMissing(r)
    BY <2>1 DEF AggregateData, AggregateMissing, PathInv, AggregatePath
  <2>2. CASE DetailError(r)
    BY <2>2 DEF DetailError, SecondPass, Fail, shared, PathInv, AggregatePath
  <2>3. CASE ~(AggregateData(r) \/ AggregateMissing(r) \/ DetailError(r))
    BY <1>3, <2>3
       DEF Answer, DeviceState, FallBackToDetail, DeviceDetail, Location,
           Wireless, AuthFailure, RequestTimeout, Fail, shared, AggregatePath
  <2> QED
    BY <2>1, <2>2, <2>3
<1> QED
  BY <1>1, <1>2, <1>3 DEF Next

\* Only a start leads to the aggregate request, only its answer without data
\* into the try, and what leaves the loop leaves the try.
LEMMA PathStep ==
  ASSUME IInv, [Next]_vars, NEW r \in Runs
  PROVE  /\ pc'[r] = "aggregate" => AggregatePath /\ ~guarded'[r]
         /\ guarded'[r] => AggregatePath /\ pc'[r] \in {"state", "detail"}
<1> USE DEF IInv, RunInv, PathInv
<1>1. CASE UNCHANGED vars \/ InventoryChanges
  BY <1>1 DEF vars, InventoryChanges
<1>2. ASSUME NEW q \in Runs, q # r, ScheduledStart(q) \/ RequestedStart(q) \/ Answer(q)
      PROVE  pc'[r] = pc[r] /\ guarded'[r] = guarded[r]
  BY <1>2, OwnLists
<1>3. CASE ScheduledStart(r) \/ RequestedStart(r)
  BY <1>3 DEF ScheduledStart, RequestedStart, Start, Publish, End, Goto, TypeOK,
              AggregatePath
<1>4. CASE Answer(r)
  <2> USE DEF Goto, Advance, Record, BeginEnrichment, Publish, Fail, End, TypeOK
  <2>1. CASE AggregateData(r) \/ AggregateMissing(r)
    BY <2>1 DEF AggregateData, AggregateMissing
  <2>2. CASE DeviceState(r) \/ FallBackToDetail(r) \/ DeviceDetail(r)
    BY <2>2 DEF DeviceState, FallBackToDetail, DeviceDetail
  <2>3. CASE DetailError(r) \/ AuthFailure(r) \/ RequestTimeout(r)
    BY <2>3 DEF DetailError, SecondPass, AuthFailure, RequestTimeout
  <2>4. CASE Location(r) \/ Wireless(r)
    BY <2>4 DEF Location, Wireless
  <2> QED
    BY <1>4, <2>1, <2>2, <2>3, <2>4 DEF Answer
<1> QED
  BY <1>1, <1>2, <1>3, <1>4 DEF Next

\* The elements of a list are those of its tail and its head.
LEMMA TailElements ==
  ASSUME NEW s \in Seq(Devices), s # <<>>, NEW d \in Elements(s), d # Head(s)
  PROVE  Len(s) > 1 /\ d \in Elements(Tail(s))
<1>1. PICK i \in 1..Len(s) : s[i] = d
  BY DEF Elements
<1>2. i # 1 /\ Len(s) > 1
  BY <1>1
<1>3. i - 1 \in 1..Len(Tail(s)) /\ Tail(s)[i - 1] = d
  BY <1>1, <1>2
<1> QED
  BY <1>2, <1>3 DEF Elements

\* With an aggregate path a device without a record is still in the list.
LEMMA MapStep ==
  ASSUME IInv, [Next]_vars, NEW r \in Runs, AggregatePath, pc'[r] \in {"state", "detail"}
  PROVE  \A d \in Elements(ids'[r]) : stateMap'[r][d] # "none" \/ d \in Elements(todo'[r])
<1> USE DEF IInv, MapInv
<1>1. CASE UNCHANGED vars \/ InventoryChanges
  BY <1>1 DEF vars, InventoryChanges
<1>2. ASSUME NEW q \in Runs, q # r, ScheduledStart(q) \/ RequestedStart(q) \/ Answer(q)
      PROVE  /\ pc'[r] = pc[r] /\ todo'[r] = todo[r]
             /\ ids'[r] = ids[r] /\ stateMap'[r] = stateMap[r]
  BY <1>2, OwnLists DEF RunInv
<1>3. CASE Start(r)
  <2>1. TakeSlice(r, inventory) /\ ids'[r] = inventory
    BY <1>3 DEF Start, Publish, End, Goto, TypeOK
  <2> QED
    BY <2>1 DEF TakeSlice, TypeOK
<1>4. CASE AggregateMissing(r) \/ SecondPass(r)
  <2>1. TakeSlice(r, ids[r]) /\ ids'[r] = ids[r]
    BY <1>4 DEF AggregateMissing, SecondPass
  <2> QED
    BY <2>1 DEF TakeSlice, TypeOK
<1>5. CASE FallBackToDetail(r)
  BY <1>5 DEF FallBackToDetail, TypeOK
<1>6. CASE DeviceState(r) \/ DeviceDetail(r)
  <2>1. /\ pc[r] \in {"state", "detail"} /\ ids'[r] = ids[r]
        /\ todo[r] \in Seq(Devices) /\ todo[r] # <<>>
    BY <1>6 DEF DeviceState, DeviceDetail, TypeOK, LoopInv, Places
  <2>2. PICK state \in {"full", "empty"} : Record(r, state)
    BY <1>6 DEF DeviceState, DeviceDetail
  <2>3. Head(todo[r]) \in Devices
    BY <2>1, HeadTailProperties
  <2>4. stateMap'[r] = [stateMap[r] EXCEPT ![Head(todo[r])] = state]
    BY <2>2 DEF Record, TypeOK
  <2>5. todo'[r] = Tail(todo[r])
    BY <2>2 DEF Record, Advance, BeginEnrichment, Goto, TypeOK
  <2> SUFFICES ASSUME NEW d \in Elements(ids[r]), stateMap'[r][d] = "none"
               PROVE  d \in Elements(Tail(todo[r]))
    BY <2>1, <2>5
  <2>6. d # Head(todo[r]) /\ stateMap[r][d] = "none"
    BY <2>3, <2>4 DEF TypeOK, Maps
  <2>7. d \in Elements(todo[r])
    BY <2>1, <2>6
  <2> QED
    BY <2>1, <2>6, <2>7, TailElements
<1>7. Answer(r) =>
        \/ AggregateMissing(r) \/ SecondPass(r) \/ FallBackToDetail(r)
        \/ DeviceState(r) \/ DeviceDetail(r)
  <2> USE DEF Goto, Advance, BeginEnrichment, Publish, Fail, End, TypeOK
  <2>1. ~AggregateData(r)
    BY DEF AggregateData
  <2>2. ~Location(r) /\ ~Wireless(r)
    BY DEF Location, Wireless
  <2>3. ~AuthFailure(r) /\ ~RequestTimeout(r)
    BY DEF AuthFailure, RequestTimeout
  <2>4. DetailError(r) => SecondPass(r)
    BY DEF DetailError
  <2> QED
    BY <2>1, <2>2, <2>3, <2>4 DEF Answer
<1> QED
  BY <1>1, <1>2, <1>3, <1>4, <1>5, <1>6, <1>7 DEF Next, ScheduledStart, RequestedStart

\* The types are kept, every loop that waits has a device left, the aggregate is
\* asked for only where there is one, only the loop over the devices runs in its
\* try and it has a record of every device it is through with, for any devices,
\* listings, budget and number of overlapping refreshes.
THEOREM Inductive == Spec => []IInv
<1>1. Init => IInv
  BY RefreshAssumption
     DEF Init, IInv, TypeOK, LoopInv, PathInv, MapInv, Places, Maps, NoStates
<1>2. ASSUME IInv, [Next]_vars PROVE IInv'
  <2>1. RunInv'
    BY <1>2, InductiveStep DEF IInv, RunInv
  <2>2. AggregatePath' = AggregatePath
    BY <1>2, PathKept DEF IInv
  <2>3. PathInv'
    BY <1>2, <2>2, PathStep DEF PathInv
  <2>4. MapInv'
    BY <1>2, <2>2, MapStep DEF MapInv, Elements
  <2> QED
    BY <2>1, <2>3, <2>4 DEF IInv, RunInv
<1> QED
  BY <1>1, <1>2, PTL DEF Spec

\* Types alone.
THEOREM TypeCorrect == Spec => []TypeOK
<1>1. IInv => TypeOK
  BY DEF IInv, RunInv
<1> QED
  BY <1>1, Inductive, PTL

-------------------------------------------------------------------------------
(* The fallback *)

\* Only an answer to an aggregate request touches the flag, so with none in
\* flight the fallback stays on whatever the overlapping refreshes do.
THEOREM Sticky == Spec => FallbackIsSticky
<1>1. ASSUME [Next]_vars, available = "no", \A r \in Runs : pc[r] # "aggregate"
      PROVE  available' = "no"
  <2>1. CASE UNCHANGED vars
    BY <1>1, <2>1 DEF vars
  <2>2. CASE InventoryChanges
    BY <1>1, <2>2 DEF InventoryChanges
  <2>3. ASSUME NEW r \in Runs, ScheduledStart(r) \/ RequestedStart(r)
        PROVE  available' = "no"
    BY <1>1, <2>3 DEF ScheduledStart, RequestedStart, Start, shared
  <2>4. ASSUME NEW r \in Runs, Answer(r) PROVE available' = "no"
    BY <1>1, <2>4
       DEF Answer, AggregateData, AggregateMissing, DeviceState, FallBackToDetail,
           DeviceDetail, DetailError, SecondPass, Location, Wireless, AuthFailure,
           RequestTimeout, Fail, shared
  <2> QED
    BY <1>1, <2>1, <2>2, <2>3, <2>4 DEF Next
<1> QED
  BY <1>1, PTL DEF Spec, FallbackIsSticky

\* The fallback of a matrix with an aggregate path never leaves out a device of
\* the listing, whether its first pass or its second one comes to the end.
THEOREM ListingWhole == Spec => WholeListing
<1>1. ASSUME IInv, [Next]_vars, NEW r \in Runs, AggregatePath,
             pc[r] \in {"state", "detail"}, pc'[r] \in {"location", "wireless"},
             NEW d \in Elements(ids[r])
      PROVE  stateMap'[r][d] # "none"
  <2> USE DEF IInv, TypeOK
  <2>1. Answer(r)
    <3>1. ASSUME NEW q \in Runs, q # r, ScheduledStart(q) \/ RequestedStart(q) \/ Answer(q)
          PROVE  pc'[r] = pc[r]
      BY <1>1, <3>1, OwnLists DEF RunInv
    <3>2. ~ScheduledStart(r) /\ ~RequestedStart(r)
      BY <1>1 DEF ScheduledStart, RequestedStart, Start
    <3> QED
      BY <1>1, <3>1, <3>2 DEF Next, vars, InventoryChanges
  <2>2. DeviceState(r) \/ DeviceDetail(r)
    <3> USE DEF Goto, Fail, End
    <3>1. ~AggregateData(r) /\ ~AggregateMissing(r) /\ ~Location(r) /\ ~Wireless(r)
      BY <1>1 DEF AggregateData, AggregateMissing, Location, Wireless
    <3>2. ~FallBackToDetail(r)
      BY <1>1 DEF FallBackToDetail
    <3>3. ~DetailError(r) /\ ~AuthFailure(r) /\ ~RequestTimeout(r)
      BY <1>1 DEF DetailError, SecondPass, AuthFailure, RequestTimeout
    <3> QED
      BY <2>1, <3>1, <3>2, <3>3 DEF Answer
  <2>3. PICK state \in {"full", "empty"} : Record(r, state)
    BY <2>2 DEF DeviceState, DeviceDetail
  <2>4. todo[r] \in Seq(Devices) /\ todo[r] # <<>> /\ Head(todo[r]) \in Devices
    <3>1. todo[r] \in Seq(Devices) /\ todo[r] # <<>>
      BY <1>1 DEF LoopInv, Places
    <3> QED
      BY <3>1, HeadTailProperties
  <2>5. ~(Len(todo[r]) > 1)
    BY <1>1, <2>3 DEF Record, Advance, Goto
  <2>6. stateMap'[r] = [stateMap[r] EXCEPT ![Head(todo[r])] = state]
    BY <1>1, <2>3 DEF Record
  <2>7. CASE d = Head(todo[r])
    BY <1>1, <2>4, <2>6, <2>7 DEF Maps
  <2>8. CASE d # Head(todo[r])
    <3>1. d \notin Elements(todo[r])
      BY <2>4, <2>5, <2>8, TailElements
    <3>2. stateMap[r][d] # "none"
      BY <1>1, <3>1 DEF MapInv
    <3> QED
      BY <2>6, <2>8, <3>2 DEF Maps
  <2> QED
    BY <2>7, <2>8
<1>2. IInv /\ [Next]_vars =>
        \A r \in Runs :
          AggregatePath /\ pc[r] \in {"state", "detail"}
            /\ pc'[r] \in {"location", "wireless"}
            => \A d \in Elements(ids[r]) : stateMap'[r][d] # "none"
  BY <1>1
<1> QED
  BY <1>2, Inductive, PTL DEF Spec, WholeListing

-------------------------------------------------------------------------------
(* The round robin *)

\* A slice of k places from the cursor c: no device twice, and what it leaves
\* out is k places nearer to the next cursor.
LEMMA SliceAdvances ==
  ASSUME NEW D, NEW s \in Seq(D), IsOrder(s), NEW k \in Nat \ {0},
         NEW c \in 0..Len(s)-1, NEW slice, slice = Take(Rotate(s, c), k)
  PROVE  /\ IsOrder(slice)
         /\ \A i \in 0..Len(s)-1 :
              \/ s[i + 1] \in Elements(slice)
              \/ Distance((c + Len(slice)) % Len(s), i, Len(s)) = Distance(c, i, Len(s)) - k
<1> DEFINE n == Len(s)
           rot == Rotate(s, c)
<1>1. n \in Nat \ {0} /\ c \in Nat /\ c < n
  OBVIOUS
<1>2. /\ rot \in Seq(D) /\ Len(rot) = n
      /\ \A i \in 0..n-1 : s[i + 1] = rot[Distance(c, i, n) + 1]
      /\ \A p \in 1..n : rot[p] = s[IF p <= n - c THEN p + c ELSE p + c - n]
  BY RotateFacts
<1> HIDE DEF rot
<1>3. /\ slice \in Seq(D) /\ Len(slice) = IF k < n THEN k ELSE n
      /\ \A p \in 1..Len(slice) : slice[p] = rot[p]
  BY <1>2, TakeFacts DEF rot
<1>4. IsOrder(slice)
  <2> SUFFICES ASSUME NEW p \in 1..Len(slice), NEW q \in 1..Len(slice), slice[p] = slice[q]
               PROVE  p = q
    BY DEF IsOrder
  <2> DEFINE at(m) == IF m <= n - c THEN m + c ELSE m + c - n
  <2>1. p \in 1..n /\ q \in 1..n
    BY <1>1, <1>3
  <2>2. s[at(p)] = s[at(q)]
    BY <1>2, <1>3, <2>1
  <2>3. at(p) \in 1..n /\ at(q) \in 1..n
    BY <1>1, <2>1
  <2>4. at(p) = at(q)
    BY <2>2, <2>3 DEF IsOrder
  <2> QED
    BY <1>1, <2>1, <2>4
<1>5. ASSUME NEW i \in 0..n-1, ~(Distance(c, i, n) < Len(slice))
      PROVE  Distance((c + Len(slice)) % n, i, n) = Distance(c, i, n) - k
  <2>1. Len(slice) = k /\ k < n
    BY <1>1, <1>3, <1>5 DEF Distance
  <2>2. (c + k) % n = IF c + k < n THEN c + k ELSE c + k - n
    <3> DEFINE x == c + k
    <3>1. x \in Nat /\ x < 2 * n
      BY <1>1, <2>1
    <3> HIDE DEF x
    <3>2. x % n = IF x < n THEN x ELSE x - n
      BY <1>1, <3>1, SmallModulus
    <3> QED
      BY <3>2 DEF x
  <2> QED
    BY <1>1, <1>5, <2>1, <2>2 DEF Distance
<1>6. ASSUME NEW i \in 0..n-1, Distance(c, i, n) < Len(slice)
      PROVE  s[i + 1] \in Elements(slice)
  <2>1. Distance(c, i, n) + 1 \in 1..Len(slice)
    BY <1>1, <1>6 DEF Distance
  <2>2. s[i + 1] = slice[Distance(c, i, n) + 1]
    BY <1>2, <1>3, <2>1
  <2> QED
    BY <2>1, <2>2 DEF Elements
<1> QED
  BY <1>4, <1>5, <1>6

\* The slices of the running system: whatever listing a run meets, wherever the
\* cursor was left and however many refreshes overlap.
THEOREM RoundRobin == Spec => SliceProgress
<1> DEFINE Progress(r) ==
      LET n == Len(ids'[r])
      IN  /\ IsOrder(todo'[r])
          /\ \A i \in 0..n-1 :
               \/ ids'[r][i + 1] \in Elements(todo'[r])
               \/ Distance(cursor', i, n) = Distance(cursor % n, i, n) - PerCycle
<1>1. ASSUME IInv, [Next]_vars, NEW r \in Runs,
             ~AggregatePath, pc[r] = "idle", pc'[r] = "state"
      PROVE  Progress(r)
  <2>1. Start(r)
    <3>1. ASSUME NEW q \in Runs, q # r, ScheduledStart(q) \/ RequestedStart(q) \/ Answer(q)
          PROVE  FALSE
      <4>1. pc'[r] = pc[r]
        BY <1>1, <3>1, OwnLists DEF IInv, RunInv
      <4> QED
        BY <1>1, <4>1
    <3>2. ~Answer(r)
      BY <1>1 DEF Answer, AggregateData, AggregateMissing, DeviceState,
         FallBackToDetail, DeviceDetail, DetailError, Location, Wireless,
         AuthFailure, RequestTimeout, Places
    <3> QED
      BY <1>1, <3>1, <3>2 DEF Next, vars, InventoryChanges, ScheduledStart, RequestedStart
  <2>2. /\ inventory # <<>> /\ TakeSlice(r, inventory)
        /\ ids' = [ids EXCEPT ![r] = inventory]
    BY <1>1, <2>1 DEF Start, Publish, End, AggregatePath, IInv, RunInv, TypeOK
  <2> DEFINE c == cursor % Len(inventory)
             slice == Take(Rotate(inventory, c), PerCycle)
  <2>3. /\ inventory \in Seq(Devices) /\ IsOrder(inventory)
        /\ Len(inventory) \in Nat \ {0}
    BY <1>1, <2>2, RefreshAssumption DEF IInv, RunInv, TypeOK
  <2>4. c \in 0..Len(inventory)-1
    BY <2>3, ModulusRange, <1>1 DEF IInv, RunInv, TypeOK
  <2>5. /\ ids'[r] = inventory /\ todo'[r] = slice
        /\ cursor' = (c + Len(slice)) % Len(inventory)
    BY <1>1, <2>2 DEF TakeSlice, IInv, RunInv, TypeOK
  <2> HIDE DEF slice
  <2>6. /\ IsOrder(slice)
        /\ \A i \in 0..Len(inventory)-1 :
             \/ inventory[i + 1] \in Elements(slice)
             \/ Distance((c + Len(slice)) % Len(inventory), i, Len(inventory))
                  = Distance(c, i, Len(inventory)) - PerCycle
    BY <2>3, <2>4, SliceAdvances, RefreshAssumption DEF slice
  <2> QED
    BY <2>5, <2>6
<1>2. ASSUME IInv, [Next]_vars
      PROVE  \A r \in Runs :
               ~AggregatePath /\ pc[r] = "idle" /\ pc'[r] = "state" =>
                 LET n == Len(ids'[r])
                 IN  /\ IsOrder(todo'[r])
                     /\ \A i \in 0..n-1 :
                          \/ ids'[r][i + 1] \in Elements(todo'[r])
                          \/ Distance(cursor', i, n)
                               = Distance(cursor % n, i, n) - PerCycle
  BY <1>1, <1>2
<1> QED
  BY <1>2, Inductive, PTL DEF Spec, SliceProgress

-------------------------------------------------------------------------------
(* The bill *)

LEMMA LoopLengthFacts ==
  ASSUME NEW s \in Seq(Devices)
  PROVE  /\ LoopLength(s) = IF AggregatePath \/ Len(s) <= PerCycle THEN Len(s) ELSE PerCycle
         /\ LoopLength(s) \in 0..Len(s)
         /\ s # <<>> => LoopLength(s) > 0
<1>1. PerCycle \in Nat \ {0} /\ Len(s) \in Nat /\ MaxPerCycle(s) \in Nat
  BY RefreshAssumption DEF MaxPerCycle
<1>2. LoopLength(s) = IF MaxPerCycle(s) < Len(s) THEN MaxPerCycle(s) ELSE Len(s)
  BY <1>1, TakeFacts DEF LoopLength
<1> QED
  BY <1>1, <1>2 DEF MaxPerCycle

\* A slice is as long as a loop.
LEMMA SliceLength ==
  ASSUME TypeOK, NEW r \in Runs, NEW s \in Inventories, s # <<>>, TakeSlice(r, s)
  PROVE  Len(todo'[r]) = LoopLength(s)
<1> DEFINE c == cursor % Len(s)
           rot == Rotate(s, c)
<1>1. s \in Seq(Devices) /\ Len(s) \in Nat \ {0} /\ PerCycle \in Nat \ {0}
  BY RefreshAssumption
<1>2. CASE AggregatePath
  BY <1>1, <1>2, LoopLengthFacts DEF TakeSlice, TypeOK
<1>3. CASE ~AggregatePath
  <2>1. todo'[r] = Take(rot, PerCycle)
    BY <1>3 DEF TakeSlice, TypeOK
  <2>2. c \in 0..Len(s)-1
    BY <1>1, ModulusRange DEF TypeOK
  <2> HIDE DEF c
  <2>3. rot \in Seq(Devices) /\ Len(rot) = Len(s)
    BY <1>1, <2>2, RotateFacts
  <2> HIDE DEF rot
  <2>4. Len(todo'[r]) = IF PerCycle < Len(s) THEN PerCycle ELSE Len(s)
    BY <1>1, <2>1, <2>3, TakeFacts
  <2> QED
    BY <1>1, <1>3, <2>4, LoopLengthFacts
<1> QED
  BY <1>2, <1>3

\* What an answer makes of the place and of the list: an end, the next loop, a
\* device less, or the one second pass.
LEMMA Moves ==
  ASSUME IInv, NEW r \in Runs, Answer(r)
  PROVE  LET left  == Len(todo[r])
             left2 == Len(todo'[r])
             loop  == LoopLength(ids[r])
             first == IF EnableLocation THEN "location" ELSE "wireless"
         IN  \/ pc[r] \in Places /\ pc'[r] = "idle"
             \/ /\ ids'[r] = ids[r]
                /\ \/ pc[r] = "aggregate" /\ pc'[r] \in {first, "state"} /\ left2 = loop
                   \/ /\ pc[r] \in {"state", "detail"} /\ pc'[r] = "state"
                      /\ left2 = left - 1 /\ guarded'[r] = guarded[r]
                   \/ /\ pc[r] = "state" /\ pc'[r] = "detail"
                      /\ left2 = left /\ guarded'[r] = guarded[r]
                   \/ /\ pc[r] = "detail" /\ guarded[r]
                      /\ pc'[r] = "state" /\ ~guarded'[r] /\ left2 = loop
                   \/ pc[r] \in {"state", "detail"} /\ pc'[r] = first /\ left2 = loop
                   \/ /\ pc[r] \in {"location", "wireless"}
                      /\ pc'[r] = pc[r] /\ left2 = left - 1
                   \/ pc[r] = "location" /\ pc'[r] = "wireless" /\ left2 = loop
<1> DEFINE first == IF EnableLocation THEN "location" ELSE "wireless"
<1>1. /\ ids[r] \in Inventories \cup {<<>>} /\ todo[r] \in Seq(Devices)
      /\ Len(todo[r]) \in Nat
      /\ pc[r] \in Places => ids[r] # <<>>
  <2>1. ids[r] \in Inventories \cup {<<>>} /\ todo[r] \in Seq(Devices)
    BY DEF IInv, RunInv, TypeOK
  <2>2. pc[r] \in Places => ids[r] # <<>>
    BY DEF IInv, RunInv, LoopInv, Places
  <2> QED
    BY <2>1, <2>2
<1>2. ASSUME NEW place, Advance(r, place), Len(todo[r]) > 1
      PROVE  /\ pc'[r] = place /\ Len(todo'[r]) = Len(todo[r]) - 1
             /\ guarded'[r] = guarded[r]
  <2>1. pc'[r] = place /\ todo'[r] = Tail(todo[r]) /\ guarded'[r] = guarded[r]
    BY <1>2 DEF Advance, Goto, IInv, RunInv, TypeOK
  <2>2. todo[r] # <<>>
    BY <1>1, <1>2
  <2> QED
    BY <1>1, <2>1, <2>2, HeadTailProperties
<1>3. ASSUME BeginEnrichment(r, ids[r])
      PROVE  pc'[r] = first /\ Len(todo'[r]) = LoopLength(ids[r])
  BY <1>3 DEF BeginEnrichment, Goto, LoopLength, IInv, RunInv, TypeOK
<1>4. CASE AggregateData(r)
  BY <1>3, <1>4 DEF AggregateData
<1>5. CASE AggregateMissing(r)
  <2>1. ids[r] \in Inventories /\ ids[r] # <<>>
    BY <1>1, <1>5 DEF AggregateMissing, Places
  <2>2. Len(todo'[r]) = LoopLength(ids[r])
    BY <1>5, <2>1, SliceLength DEF AggregateMissing, IInv
  <2>3. pc'[r] = "state"
    BY <1>5 DEF AggregateMissing, Goto, IInv, RunInv, TypeOK
  <2> QED
    BY <1>5, <2>2, <2>3 DEF AggregateMissing
<1>6. CASE DeviceState(r) \/ DeviceDetail(r)
  <2>1. pc[r] \in {"state", "detail"} /\ ids'[r] = ids[r]
    BY <1>6 DEF DeviceState, DeviceDetail
  <2>2. PICK state \in {"full", "empty"} : Record(r, state)
    BY <1>6 DEF DeviceState, DeviceDetail
  <2>3. CASE Len(todo[r]) > 1
    BY <1>2, <2>1, <2>2, <2>3 DEF Record
  <2>4. CASE ~(Len(todo[r]) > 1)
    BY <1>3, <2>1, <2>2, <2>4 DEF Record
  <2> QED
    BY <2>3, <2>4
<1>7. CASE SecondPass(r) /\ pc[r] = "detail" /\ guarded[r]
  <2>1. ids[r] \in Inventories /\ ids[r] # <<>>
    BY <1>1, <1>7 DEF Places
  <2>2. Len(todo'[r]) = LoopLength(ids[r])
    BY <1>7, <2>1, SliceLength DEF SecondPass, IInv
  <2>3. pc'[r] = "state" /\ ~guarded'[r] /\ ids'[r] = ids[r]
    BY <1>7 DEF SecondPass, Goto, IInv, RunInv, TypeOK
  <2> QED
    BY <1>7, <2>2, <2>3
<1>8. CASE FallBackToDetail(r)
  BY <1>8 DEF FallBackToDetail, Goto, IInv, RunInv, TypeOK
<1>9. CASE DetailError(r) \/ AuthFailure(r) \/ RequestTimeout(r)
  <2>1. ASSUME NEW how, Fail(r, how) PROVE pc'[r] = "idle"
    BY <2>1 DEF Fail, End, IInv, RunInv, TypeOK
  <2> QED
    BY <1>7, <1>9, <2>1 DEF DetailError, AuthFailure, RequestTimeout, Places
<1>10. CASE Location(r)
  <2>1. CASE Len(todo[r]) > 1
    BY <1>2, <1>10, <2>1 DEF Location
  <2>2. CASE ~(Len(todo[r]) > 1)
    BY <1>10, <2>2 DEF Location, Goto, LoopLength, IInv, RunInv, TypeOK
  <2> QED
    BY <2>1, <2>2
<1>11. CASE Wireless(r)
  <2>1. CASE Len(todo[r]) > 1
    BY <1>2, <1>11, <2>1 DEF Wireless
  <2>2. CASE ~(Len(todo[r]) > 1)
    BY <1>11, <2>2 DEF Wireless, Publish, End, IInv, RunInv, TypeOK, Places
  <2> QED
    BY <2>1, <2>2
<1> QED
  BY <1>4, <1>5, <1>6, <1>7, <1>8, <1>9, <1>10, <1>11 DEF Answer

\* A refresh is bounded by its cost when it starts, and each answer leaves it
\* fewer requests, however many run beside it and switch the aggregate path on
\* or off.
THEOREM CostBound == Spec => BillBounded
<1>1. ASSUME IInv, IInv', [Next]_vars, NEW r \in Runs PROVE Cheaper(r)
  <2> DEFINE Loop(s) == IF AggregatePath \/ Len(s) <= PerCycle THEN Len(s) ELSE PerCycle
             Enrich(loop) == IF EnableLocation THEN loop + loop ELSE loop
             Again(again, loop) == IF again THEN loop + loop ELSE 0
             Left(at, left, again, loop) ==
               IF at = "idle" THEN 0
               ELSE IF at = "aggregate" THEN 1 + loop + loop + loop + loop + Enrich(loop)
               ELSE IF at = "state" THEN left + left + Again(again, loop) + Enrich(loop)
               ELSE IF at = "detail" THEN left + left - 1 + Again(again, loop) + Enrich(loop)
               ELSE IF at = "location" THEN left + loop
               ELSE left
  <2>1. /\ AggregatePath' = AggregatePath
        /\ pc[r] \in {"idle"} \cup Places /\ pc'[r] \in {"idle"} \cup Places
    BY <1>1, PathKept DEF IInv, RunInv, TypeOK
  <2>2. /\ ids[r] \in Seq(Devices) /\ ids'[r] \in Seq(Devices) /\ inventory \in Seq(Devices)
        /\ todo[r] \in Seq(Devices) /\ todo'[r] \in Seq(Devices)
    <3>1. \A s \in Inventories \cup {<<>>} : s \in Seq(Devices)
      <4>1. \A s \in Inventories : s \in Seq(Devices)
        BY RefreshAssumption
      <4>2. <<>> \in Seq(Devices)
        OBVIOUS
      <4> QED
        BY <4>1, <4>2
    <3>2. ids[r] \in Inventories \cup {<<>>} /\ todo[r] \in Seq(Devices)
          /\ inventory \in Inventories
      BY <1>1 DEF IInv, RunInv, TypeOK
    <3>3. ids'[r] \in Inventories \cup {<<>>} /\ todo'[r] \in Seq(Devices)
      BY <1>1 DEF IInv, RunInv, TypeOK
    <3> QED
      BY <3>1, <3>2, <3>3
  <2>3. /\ \A s \in Seq(Devices) : LoopLength(s) = Loop(s)
        /\ LoopLength(ids[r])' = Loop(ids'[r])
    <3>1. \A s \in Seq(Devices) : LoopLength(s) = Loop(s)
      BY LoopLengthFacts
    <3>2. LoopLength(ids[r])' = LoopLength(ids'[r])
      BY <2>1 DEF LoopLength, MaxPerCycle
    <3> QED
      BY <2>2, <3>1, <3>2
  <2>4. /\ RequestsLeft(r) = Left(pc[r], Len(todo[r]), guarded[r], Loop(ids[r]))
        /\ RequestsLeft(r)' = Left(pc'[r], Len(todo'[r]), guarded'[r], Loop(ids'[r]))
    <3>1. LoopLength(ids[r]) = Loop(ids[r])
      BY <2>2, <2>3
    <3> HIDE DEF Loop
    <3> QED
      BY <2>1, <2>3, <3>1 DEF RequestsLeft, Places
  <2>5. /\ \A s \in Seq(Devices) : /\ Len(s) \in Nat /\ Loop(s) \in 0..Len(s)
                                   /\ s # <<>> => Loop(s) > 0 /\ Len(s) > 0
                                   /\ AggregatePath => Loop(s) = Len(s)
    BY RefreshAssumption
  <2>6. /\ pc[r] = "aggregate" => AggregatePath
        /\ pc[r] \in Places => ids[r] # <<>>
        /\ pc[r] \in Places \ {"aggregate"} => todo[r] # <<>>
    BY <1>1 DEF IInv, RunInv, LoopInv, PathInv, Places
  <2> HIDE DEF Loop
  <2>7. CASE /\ pc'[r] = pc[r] /\ todo'[r] = todo[r]
             /\ ids'[r] = ids[r] /\ guarded'[r] = guarded[r]
    <3> HIDE DEF Left
    <3>1. RequestsLeft(r)' = RequestsLeft(r)
      BY <2>4, <2>7
    <3> QED
      BY <2>7, <3>1 DEF Cheaper
  <2>8. CASE Start(r)
    <3>1. pc[r] = "idle" /\ inventory \in Inventories
      BY <1>1, <2>8 DEF Start, IInv, RunInv, TypeOK
    <3>2. Cost(inventory) =
            IF AggregatePath THEN 1 + (IF EnableLocation THEN 6 ELSE 5) * Loop(inventory)
                             ELSE (IF EnableLocation THEN 4 ELSE 3) * Loop(inventory)
      BY <2>2, <2>3 DEF Cost
    <3>3. Loop(inventory) \in Nat
      BY <2>2, <2>5
    <3>4. CASE inventory = <<>>
      <4>1. pc'[r] = "idle"
        BY <1>1, <2>8, <3>4 DEF Start, Publish, End, IInv, RunInv, TypeOK
      <4> QED
        BY <2>4, <3>1, <3>2, <3>3, <4>1 DEF Cheaper
    <3>5. CASE inventory # <<>> /\ available \notin {"no", "nopath"}
      <4>1. pc'[r] = "aggregate" /\ ids'[r] = inventory /\ AggregatePath
        BY <1>1, <2>8, <3>5 DEF Start, Goto, IInv, RunInv, TypeOK, AggregatePath
      <4> DEFINE n == Loop(inventory)
      <4>2. n \in Nat
        BY <3>3
      <4>3. RequestsLeft(r)' = 1 + n + n + n + n + Enrich(n)
        BY <2>4, <4>1
      <4>4. Cost(inventory) = 1 + (IF EnableLocation THEN 6 ELSE 5) * n
        BY <3>2, <4>1
      <4> HIDE DEF n
      <4>5. 1 + n + n + n + n + Enrich(n) = 1 + (IF EnableLocation THEN 6 ELSE 5) * n
        BY <4>2
      <4>6. RequestsLeft(r)' <= Cost(inventory)
        BY <4>2, <4>3, <4>4, <4>5
      <4> QED
        BY <3>1, <4>6 DEF Cheaper
    <3>6. CASE inventory # <<>> /\ available \in {"no", "nopath"}
      <4>1. pc'[r] = "state" /\ ids'[r] = inventory /\ TakeSlice(r, inventory)
        BY <1>1, <2>8, <3>6 DEF Start, Goto, IInv, RunInv, TypeOK
      <4> DEFINE n == Loop(inventory)
      <4>2. Len(todo'[r]) = n /\ n \in Nat
        BY <1>1, <2>2, <2>3, <3>1, <3>3, <3>6, <4>1, SliceLength DEF IInv, RunInv
      <4>3. ~guarded'[r]
        BY <1>1, <2>8, <3>1, <3>6 DEF Start, IInv, PathInv
      <4>4. RequestsLeft(r)' = n + n + Enrich(n)
        BY <2>4, <4>1, <4>2, <4>3
      <4>5. Cost(inventory) = IF AggregatePath THEN 1 + (IF EnableLocation THEN 6 ELSE 5) * n
                              ELSE (IF EnableLocation THEN 4 ELSE 3) * n
        BY <3>2
      <4> HIDE DEF n
      <4>6. RequestsLeft(r)' <= Cost(inventory)
        BY <4>2, <4>4, <4>5
      <4> QED
        BY <3>1, <4>6 DEF Cheaper
    <3> QED
      BY <3>4, <3>5, <3>6
  <2>9. CASE Answer(r)
    <3> DEFINE first == IF EnableLocation THEN "location" ELSE "wireless"
               left == Len(todo[r])
               left2 == Len(todo'[r])
               again == guarded[r]
               again2 == guarded'[r]
               loop == Loop(ids[r])
    <3>1. \/ pc[r] \in Places /\ pc'[r] = "idle"
          \/ /\ ids'[r] = ids[r]
             /\ \/ pc[r] = "aggregate" /\ pc'[r] \in {first, "state"} /\ left2 = loop
                \/ /\ pc[r] \in {"state", "detail"} /\ pc'[r] = "state"
                   /\ left2 = left - 1 /\ again2 = again
                \/ /\ pc[r] = "state" /\ pc'[r] = "detail"
                   /\ left2 = left /\ again2 = again
                \/ /\ pc[r] = "detail" /\ again
                   /\ pc'[r] = "state" /\ ~again2 /\ left2 = loop
                \/ pc[r] \in {"state", "detail"} /\ pc'[r] = first /\ left2 = loop
                \/ /\ pc[r] \in {"location", "wireless"}
                   /\ pc'[r] = pc[r] /\ left2 = left - 1
                \/ pc[r] = "location" /\ pc'[r] = "wireless" /\ left2 = loop
      BY <1>1, <2>2, <2>3, <2>9, Moves
    <3>2. /\ left \in Nat /\ left2 \in Nat /\ loop \in Nat
          /\ pc[r] \in Places => loop > 0
          /\ pc[r] \in Places \ {"aggregate"} => left > 0
      BY <2>2, <2>5, <2>6
    <3>3. /\ RequestsLeft(r) = Left(pc[r], left, again, loop)
          /\ ids'[r] = ids[r] => RequestsLeft(r)' = Left(pc'[r], left2, again2, loop)
          /\ pc'[r] = "idle" => RequestsLeft(r)' = 0
      BY <2>4
    <3> HIDE DEF left, left2, again, again2, loop
    <3>4. RequestsLeft(r)' < RequestsLeft(r)
      BY <3>1, <3>2, <3>3 DEF Places
    <3> QED
      BY <3>4 DEF Cheaper
  <2>10. CASE UNCHANGED vars \/ InventoryChanges
    BY <2>7, <2>10 DEF vars, InventoryChanges
  <2>11. ASSUME NEW q \in Runs, q # r, ScheduledStart(q) \/ RequestedStart(q) \/ Answer(q)
         PROVE  Cheaper(r)
    BY <1>1, <2>7, <2>11, OwnLists DEF IInv, RunInv
  <2> QED
    BY <1>1, <2>8, <2>9, <2>10, <2>11 DEF Next, ScheduledStart, RequestedStart
<1>2. IInv /\ IInv' /\ [Next]_vars => \A r \in Runs : Cheaper(r)
  BY <1>1
<1> QED
  BY <1>2, Inductive, PTL DEF Spec, BillBounded
===============================================================================
