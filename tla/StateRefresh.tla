----------------------------- MODULE StateRefresh -----------------------------
(***************************************************************************)
(* The state refresh: StateCoordinator._async_update_data (coordinator.py) *)
(* with RmsApiClient.async_get_states_for_devices, _async_per_device_state *)
(* and async_get_device_state (api.py), one step for the code between two  *)
(* requests.  A request is its outcome: RmsRequest models how it is made.  *)
(*                                                                         *)
(* Home Assistant's DataUpdateCoordinator is external.  It does not        *)
(* serialize refreshes: a requested one may run while a scheduled one is   *)
(* in flight, so several Runs share _aggregate_state_available, the        *)
(* _round_robin_cursor and the published data.                             *)
(***************************************************************************)
EXTENDS Integers, Sequences, FiniteSets

CONSTANTS
  Devices,         \* the devices RMS may list
  Inventories,     \* the orders of devices InventoryCoordinator.data may have
  Runs,            \* the refreshes that may be in flight together
  PerCycle,        \* max_per_cycle computed without an aggregate path
  EnableLocation   \* option CONF_ENABLE_LOCATION

IsOrder(s) == \A i, j \in 1..Len(s) : s[i] = s[j] => i = j

ASSUME RefreshAssumption ==
  /\ Inventories \subseteq Seq(Devices)
  /\ \A s \in Inventories : IsOrder(s)
  /\ PerCycle \in Nat \ {0}
  /\ EnableLocation \in BOOLEAN

VARIABLES
  inventory,   \* InventoryCoordinator.data, in the order of its keys
  available,   \* _aggregate_state_available: "unknown" (None), "yes" or "no";
               \* "nopath" when the endpoint matrix has no aggregate path
  cursor,      \* _round_robin_cursor
  pc,          \* the request run r waits for, "idle" when it is not running
  ids,         \* the run's device_ids
  todo,        \* the devices its current loop has still to ask for
  guarded,     \* its loop runs inside the try of the aggregate request
  stateMap,    \* what its state map has for each device: "none" without a key
  outcome,     \* how the last run ended, and at which request if access was denied
  data         \* StateCoordinator.data

shared  == <<inventory, available, cursor>>
ending  == <<outcome, data>>
vars == <<inventory, available, cursor, pc, ids, todo, guarded, stateMap,
          outcome, data>>

Places == {"aggregate", "state", "detail", "location", "wireless"}
Maps   == [Devices -> {"none", "empty", "full"}]

TypeOK ==
  /\ inventory \in Inventories
  /\ available \in {"unknown", "yes", "no", "nopath"}
  /\ cursor \in Nat
  /\ cursor # 0 => \E s \in Inventories : cursor < Len(s)
  /\ pc \in [Runs -> {"idle"} \cup Places]
  /\ ids \in [Runs -> Inventories \cup {<<>>}]
  /\ todo \in [Runs -> Seq(Devices)]
  /\ guarded \in [Runs -> BOOLEAN]
  /\ stateMap \in [Runs -> Maps]
  /\ outcome \in [how : {"ok", "failed", "authFailed"}, at : {"idle"} \cup Places]
  /\ data \in [Devices -> {"absent", "empty", "full"}]

NoStates == [d \in Devices |-> "none"]

Init ==
  /\ inventory \in Inventories
  /\ available \in {"unknown", "nopath"}
  /\ cursor = 0
  /\ pc = [r \in Runs |-> "idle"]
  /\ ids = [r \in Runs |-> <<>>]
  /\ todo = [r \in Runs |-> <<>>]
  /\ guarded = [r \in Runs |-> FALSE]
  /\ stateMap = [r \in Runs |-> NoStates]
  /\ outcome = [how |-> "ok", at |-> "idle"]
  /\ data = [d \in Devices |-> "absent"]

-------------------------------------------------------------------------------
(* The pieces the steps are made of *)

Elements(s) == {s[i] : i \in 1..Len(s)}

\* The first k of s, all when s is shorter: s[:k]
Take(s, k) == SubSeq(s, 1, IF k < Len(s) THEN k ELSE Len(s))

\* device_ids[cursor:] + device_ids[:cursor]
Rotate(s, c) == SubSeq(s, c + 1, Len(s)) \o SubSeq(s, 1, c)

AggregatePath == available # "nopath"

\* With an aggregate path in the matrix max_per_cycle is None, and then both
\* the per-device fallback and the enrichment take every device
MaxPerCycle(s) == IF AggregatePath THEN Len(s) ELSE PerCycle

\* Mutant: the cursor is not used
TakeSlice_firstOnly(r, s) ==
  LET slice == Take(s, PerCycle)
  IN  /\ todo' = [todo EXCEPT ![r] = slice]
      /\ cursor' = (cursor + Len(slice)) % Len(s)

\* The part of _async_per_device_state before its loop: the slice is taken and
\* the cursor moved at once, before the first request
TakeSlice(r, s) ==
  LET c     == cursor % Len(s)
      slice == Take(Rotate(s, c), PerCycle)
  IN  IF AggregatePath
      THEN /\ todo' = [todo EXCEPT ![r] = s]
           /\ UNCHANGED cursor
      ELSE /\ todo' = [todo EXCEPT ![r] = slice]
           /\ cursor' = (c + Len(slice)) % Len(s)

\* A run issues its next request and waits for it
Goto(r, place) == pc' = [pc EXCEPT ![r] = place]

\* The run ends and its local variables are gone
End(r, how) ==
  /\ pc' = [pc EXCEPT ![r] = "idle"]
  /\ outcome' = [how |-> how, at |-> IF how = "authFailed" THEN pc[r] ELSE "idle"]
  /\ ids' = [ids EXCEPT ![r] = <<>>]
  /\ todo' = [todo EXCEPT ![r] = <<>>]
  /\ guarded' = [guarded EXCEPT ![r] = FALSE]
  /\ stateMap' = [stateMap EXCEPT ![r] = NoStates]

\* ... without a result: the coordinator keeps the old data
Fail(r, how) == End(r, how) /\ UNCHANGED <<shared, data>>

\* ... with results for every device of its inventory
Publish(r, s, states) ==
  /\ End(r, "ok")
  /\ data' = [d \in Devices |->
                IF d \notin Elements(s) THEN "absent"
                ELSE IF states[d] = "full" THEN "full" ELSE "empty"]

\* The state map is returned: the first enrichment loop begins
BeginEnrichment(r, s) ==
  /\ todo' = [todo EXCEPT ![r] = Take(s, MaxPerCycle(s))]
  /\ guarded' = [guarded EXCEPT ![r] = FALSE]
  /\ Goto(r, IF EnableLocation THEN "location" ELSE "wireless")

\* The loop goes on with the next device: the same request for the next
\* device, or what follows the loop
Advance(r, place) ==
  /\ todo' = [todo EXCEPT ![r] = Tail(@)]
  /\ Goto(r, place)
  /\ UNCHANGED guarded

\* results[device_id] of the device asked for, and the end of its turn
Record(r, state) ==
  /\ stateMap' = [stateMap EXCEPT ![r][Head(todo[r])] = state]
  /\ IF Len(todo[r]) > 1
     THEN Advance(r, "state")
     ELSE BeginEnrichment(r, ids[r])

-------------------------------------------------------------------------------
(* Steps of a run *)

\* _async_update_data up to its first request
Start(r) ==
  /\ pc[r] = "idle"
  /\ IF inventory = <<>>
     THEN Publish(r, <<>>, NoStates) /\ UNCHANGED shared
     ELSE /\ ids' = [ids EXCEPT ![r] = inventory]
          /\ IF available \notin {"no", "nopath"}
             THEN Goto(r, "aggregate") /\ UNCHANGED <<cursor, todo>>
             ELSE Goto(r, "state") /\ TakeSlice(r, inventory)
          /\ UNCHANGED <<inventory, available, guarded, stateMap, ending>>

\* The refresh timer, which an authentication failure does not rearm, and
\* async_request_refresh by a service call
Stopped == outcome.how = "authFailed"

ScheduledStart(r) == ~Stopped /\ Start(r)
RequestedStart(r) == Start(r)

\* A non-empty state map: it may miss devices, or have keys nobody looks up
AggregateData(r) ==
  /\ pc[r] = "aggregate"
  /\ available' = "yes"
  /\ \E found \in SUBSET Elements(ids[r]) :
       stateMap' = [stateMap EXCEPT ![r] =
                      [d \in Devices |-> IF d \in found THEN "full" ELSE "none"]]
  /\ BeginEnrichment(r, ids[r])
  /\ UNCHANGED <<inventory, cursor, ids, ending>>

\* The fallback, now and from now on: from inside the try when the answer has no
\* data (404), from behind it for a map without a device and for RmsApiError
AggregateMissing(r) ==
  /\ pc[r] = "aggregate"
  /\ available' = "no"
  /\ TakeSlice(r, ids[r])
  /\ Goto(r, "state")
  /\ \E inTry \in BOOLEAN : guarded' = [guarded EXCEPT ![r] = inTry]
  /\ UNCHANGED <<inventory, ids, stateMap, ending>>

\* Mutant: success rearms the aggregate
DeviceState_rearms(r) ==
  /\ pc[r] = "state"
  /\ available' = "unknown"
  /\ Record(r, "full")
  /\ UNCHANGED <<inventory, cursor, ids, ending>>

\* async_get_device_state: a dict from the state endpoint
DeviceState(r) ==
  /\ pc[r] = "state"
  /\ Record(r, "full")
  /\ UNCHANGED <<shared, ids, ending>>

\* Not found, no dict, a contract violation or RmsApiError: ask for the detail
FallBackToDetail(r) ==
  /\ pc[r] = "state"
  /\ Goto(r, "detail")
  /\ UNCHANGED <<shared, ids, todo, guarded, stateMap, ending>>

\* The detail endpoint returns a dict, or nothing and the state is {}
DeviceDetail(r) ==
  /\ pc[r] = "detail"
  /\ \E state \in {"full", "empty"} : Record(r, state)
  /\ UNCHANGED <<shared, ids, ending>>

\* Mutants: the second pass is guarded again, or asks for the rest only
SecondPass_guarded(r) ==
  /\ available' = "no"
  /\ TakeSlice(r, ids[r])
  /\ stateMap' = [stateMap EXCEPT ![r] = NoStates]
  /\ Goto(r, "state")
  /\ UNCHANGED <<inventory, ids, guarded, ending>>

SecondPass_rest(r) ==
  /\ available' = "no"
  /\ guarded' = [guarded EXCEPT ![r] = FALSE]
  /\ stateMap' = [stateMap EXCEPT ![r] = NoStates]
  /\ Goto(r, "state")
  /\ UNCHANGED <<inventory, cursor, ids, todo, ending>>

\* except RmsApiError around the aggregate request, for an error of the loop in
\* it: the loop over the devices runs again, behind the try
SecondPass(r) ==
  /\ available' = "no"
  /\ TakeSlice(r, ids[r])
  /\ guarded' = [guarded EXCEPT ![r] = FALSE]
  /\ stateMap' = [stateMap EXCEPT ![r] = NoStates]
  /\ Goto(r, "state")
  /\ UNCHANGED <<inventory, ids, ending>>

\* The detail endpoint's RmsApiError: UpdateFailed for all devices, unless the
\* loop is inside the try
DetailError(r) ==
  /\ pc[r] = "detail"
  /\ \/ guarded[r] /\ SecondPass(r)
     \/ ~guarded[r] /\ Fail(r, "failed")

\* _async_enrich_locations: data, nothing and RmsApiError all go on
Location(r) ==
  /\ pc[r] = "location"
  /\ IF Len(todo[r]) > 1
     THEN Advance(r, "location")
     ELSE /\ todo' = [todo EXCEPT ![r] = Take(ids[r], MaxPerCycle(ids[r]))]
          /\ Goto(r, "wireless")
          /\ UNCHANGED guarded
  /\ UNCHANGED <<shared, ids, stateMap, ending>>

\* Mutant: a device is put back to be asked for again
Wireless_again(r) ==
  /\ pc[r] = "wireless"
  /\ todo' = [todo EXCEPT ![r] = Append(Tail(@), Head(@))]
  /\ UNCHANGED <<shared, pc, ids, guarded, stateMap, ending>>

\* _async_enrich_wireless: a 401 or 403 goes on too.  Clients counted for a
\* device without a state give it one.
Wireless(r) ==
  /\ pc[r] = "wireless"
  /\ \E states \in {stateMap[r], [stateMap[r] EXCEPT ![Head(todo[r])] = "full"]} :
       IF Len(todo[r]) > 1
       THEN /\ stateMap' = [stateMap EXCEPT ![r] = states]
            /\ Advance(r, "wireless")
            /\ UNCHANGED <<ids, ending>>
       ELSE Publish(r, ids[r], states)
  /\ UNCHANGED shared

\* 401 or 403 anywhere but in the wireless loop
AuthFailure(r) ==
  /\ pc[r] \in Places \ {"wireless"}
  /\ Fail(r, "authFailed")

\* TimeoutError is caught nowhere in the integration: Home Assistant does it
RequestTimeout(r) == pc[r] \in Places /\ Fail(r, "failed")

\* InventoryCoordinator publishes another listing
InventoryChanges ==
  /\ inventory' \in Inventories \ {inventory}
  /\ UNCHANGED <<available, cursor, pc, ids, todo, guarded, stateMap, ending>>

-------------------------------------------------------------------------------
Answer(r) ==
  \/ AggregateData(r) \/ AggregateMissing(r)
  \/ DeviceState(r) \/ FallBackToDetail(r) \/ DeviceDetail(r) \/ DetailError(r)
  \/ Location(r) \/ Wireless(r) \/ AuthFailure(r) \/ RequestTimeout(r)

Next ==
  \/ \E r \in Runs : ScheduledStart(r) \/ RequestedStart(r) \/ Answer(r)
  \/ InventoryChanges

Spec == Init /\ [][Next]_vars

(* Every request returns or raises: CallReturns of RmsRequest, as long as RMS *)
(* does not make it sleep for ever.  No refresh need start.                   *)
FairSpec == Spec /\ \A r \in Runs : WF_vars(Answer(r))

-------------------------------------------------------------------------------
(* Properties *)

\* The inductive invariant: a run that waits in a loop has the device it asked
\* for at the head of its list ...
LoopInv ==
  \A r \in Runs :
    /\ pc[r] # "idle" => ids[r] # <<>>
    /\ pc[r] \in Places \ {"aggregate"} => todo[r] # <<>>

\* ... only a matrix with an aggregate path makes a run ask for it, and only
\* the loop over the devices runs inside its try ...
PathInv ==
  \A r \in Runs :
    /\ pc[r] = "aggregate" => AggregatePath /\ ~guarded[r]
    /\ guarded[r] => AggregatePath /\ pc[r] \in {"state", "detail"}

\* ... and with one the loop has an answer for every device it has been through.
MapInv ==
  \A r \in Runs :
    AggregatePath /\ pc[r] \in {"state", "detail"} =>
      \A d \in Elements(ids[r]) : stateMap[r][d] # "none" \/ d \in Elements(todo[r])

IInv == TypeOK /\ LoopInv /\ PathInv /\ MapInv

\* Once the fallback is on, nothing but an aggregate request that was already
\* in flight turns it off again: a single transient error of the aggregate
\* endpoint costs a request per device until the entry is reloaded.
FallbackIsSticky ==
  [][available = "no" /\ (\A r \in Runs : pc[r] # "aggregate")
       => available' = "no"]_vars

\* Steps further from the cursor c to index i of a list of n
Distance(c, i, n) == IF i >= c THEN i - c ELSE i - c + n

\* Round-robin slicing starves nobody: whichever of the overlapping runs takes
\* a slice, and whatever the cursor was left at by an inventory of another
\* length, the slice has no device twice and each device it leaves out is
\* PerCycle places nearer to the cursor for the next one.
SliceProgress ==
  [][\A r \in Runs :
       ~AggregatePath /\ pc[r] = "idle" /\ pc'[r] = "state" =>
         LET n == Len(ids'[r])
         IN  /\ IsOrder(todo'[r])
             /\ \A i \in 0..n-1 :
                  \/ ids'[r][i + 1] \in Elements(todo'[r])
                  \/ Distance(cursor', i, n) = Distance(cursor % n, i, n) - PerCycle]_vars

\* With an aggregate path a refresh leaves the fallback only with an answer for
\* every device of its listing, all of one pass: neither the slice of the budget
\* nor the error that makes the loop start over leaves a device out.
WholeListing ==
  [][\A r \in Runs :
       AggregatePath /\ pc[r] \in {"state", "detail"} /\ pc'[r] \in {"location", "wireless"}
         => \A d \in Elements(ids[r]) : stateMap'[r][d] # "none"]_vars

\* Devices one loop asks for, at most
LoopLength(s) == Len(Take(s, MaxPerCycle(s)))

\* Requests run r may still have to make, that in flight included: two for each
\* device left in the loop, and as many again for the second pass
RequestsLeft(r) ==
  LET left   == Len(todo[r])
      loop   == LoopLength(ids[r])
      enrich == IF EnableLocation THEN loop + loop ELSE loop
      again  == IF guarded[r] THEN loop + loop ELSE 0
  IN  CASE pc[r] = "idle"      -> 0
        [] pc[r] = "aggregate" -> 1 + loop + loop + loop + loop + enrich
        [] pc[r] = "state"     -> left + left + again + enrich
        [] pc[r] = "detail"    -> left + left - 1 + again + enrich
        [] pc[r] = "location"  -> left + loop
        [] pc[r] = "wireless"  -> left

\* What a refresh of s costs at most, without retries and channel polls
Cost(s) ==
  IF AggregatePath THEN 1 + (IF EnableLocation THEN 6 ELSE 5) * LoopLength(s)
                   ELSE (IF EnableLocation THEN 4 ELSE 3) * LoopLength(s)

Cheaper(r) ==
  \/ UNCHANGED <<pc[r], todo[r], RequestsLeft(r)>>
  \/ pc[r] = "idle" /\ RequestsLeft(r)' <= Cost(inventory)
  \/ RequestsLeft(r)' < RequestsLeft(r)

\* The bill of a refresh against the monthly quota is bounded when it starts:
\* with an aggregate path one request and six for a device (five without
\* location), as the fallback may run twice, and four (three) for a device of
\* the slice without one, whatever RMS answers and whatever the runs beside it
\* make of the aggregate path; every answer leaves fewer to make.
BillBounded == [][\A r \in Runs : Cheaper(r)]_vars

\* Every refresh ends, whatever RMS answers to its requests.
RunsEnd == \A r \in Runs : pc[r] # "idle" ~> pc[r] = "idle"

\* README, Credentials Setup: device_location:read is a scope to add "if needed
\* ... for GPS tracker entities", so a credential without it costs the location
\* data and not the whole refresh.
LocationScopeOptional ==
  outcome # [how |-> "authFailed", at |-> "location"]
===============================================================================
