----------------------------- MODULE PortConfig -----------------------------
(***************************************************************************)
(* The PoE switch (switch.py) and PortConfigCoordinator (coordinator.py):  *)
(* a switch writes a port's PoE setting through RMS, waits for the write's *)
(* status channel and asks the coordinator to refresh; the coordinator     *)
(* reads the ports of one device after another and publishes them all.     *)
(*                                                                         *)
(* One port per device.  RMS carries a write out whenever it likes, also   *)
(* after the call gave up on it.  The debouncer and the polling timer of   *)
(* Home Assistant's DataUpdateCoordinator are external.                    *)
(***************************************************************************)
EXTENDS Naturals

CONSTANTS
  Devices,   \* RMS devices
  Listings,  \* the inventories a refresh may find
  Calls,     \* service calls that turn PoE on or off
  Runs       \* slots for refreshes in flight: a bound on how many overlap

ASSUME ListingsAssumption == Listings \subseteq SUBSET Devices

Settings == {"on", "off"}
Readings == Settings \cup {"empty", "absent"}  \* what data says of a device

VARIABLES
  poe,        \* the setting of each device's port
  calls,      \* the service calls
  write,      \* what becomes of a call's write at RMS
  runs,       \* the refreshes in flight
  data,       \* coordinator.data
  armed,      \* the polling timer is set
  cooldown,   \* the debouncer's timer is set
  atEnd       \* a refresh is due when the debouncer's timer ends

refresher == <<runs, data, armed, cooldown, atEnd>>
vars == <<poe, calls, write, runs, data, armed, cooldown, atEnd>>

NewCalls == [phase : {"idle", "posting", "waiting", "refreshing", "returned", "raised"},
             device : Devices, enabled : Settings]

RunStates == [active : BOOLEAN, debounced : BOOLEAN, todo : SUBSET Devices,
              results : [Devices -> Readings], denied : SUBSET Devices,
              listing : SUBSET Devices,      \* history: the inventory it began with
              changed : SUBSET Devices]      \* history: devices written since it began

TypeOK ==
  /\ poe \in [Devices -> Settings]
  /\ calls \in [Calls -> NewCalls]
  /\ write \in [Calls -> {"none", "queued", "done", "failed"}]
  /\ runs \in [Runs -> RunStates]
  /\ data \in [Devices -> Readings]
  /\ armed \in BOOLEAN
  /\ cooldown \in BOOLEAN
  /\ atEnd \in BOOLEAN

Nothing == [d \in Devices |-> "absent"]

Idle == [active |-> FALSE, debounced |-> FALSE, todo |-> {}, results |-> Nothing,
         denied |-> {}, listing |-> {}, changed |-> {}]

Active == {r \in Runs : runs[r].active}

\* The debouncer's lock: a refresh it started is running
Locked == \E r \in Active : runs[r].debounced

Init ==
  /\ poe \in [Devices -> Settings]
  /\ calls \in [Calls -> [phase : {"idle"}, device : Devices, enabled : Settings]]
  /\ write = [c \in Calls |-> "none"]
  /\ runs = [r \in Runs |-> Idle]
  /\ data = Nothing
  /\ armed = TRUE
  /\ cooldown = FALSE
  /\ atEnd = FALSE

-------------------------------------------------------------------------------
(* Refreshes: _async_update_data inside DataUpdateCoordinator._async_refresh *)

\* A refresh begins: it takes the inventory of the moment and cancels both timers
Begin(isDebounced) ==
  \E r \in Runs \ Active, listing \in Listings :
    /\ runs' = [runs EXCEPT ![r] = [Idle EXCEPT
         !.active = TRUE, !.debounced = isDebounced, !.todo = listing, !.listing = listing]]
    /\ armed' = FALSE
    /\ cooldown' = FALSE
    /\ atEnd' = FALSE

\* A refresh ends: polling goes on, unless the credentials were refused, and
\* the calls that awaited a debounced refresh return
End(r, refused) ==
  /\ runs' = [runs EXCEPT ![r] = Idle]
  /\ armed' = (armed \/ ~refused)
  /\ cooldown' = (cooldown \/ runs[r].debounced)
  /\ calls' = [c \in Calls |->
       IF calls[c].phase = "refreshing" /\ runs[r].debounced
       THEN [calls[c] EXCEPT !.phase = "returned"] ELSE calls[c]]
  /\ UNCHANGED <<poe, write, atEnd>>

\* The polling timer fires.  Bound: a slot stays free for a debounced refresh.
ScheduledRefresh ==
  /\ armed
  /\ Locked \/ \E r, s \in Runs \ Active : r # s
  /\ Begin(FALSE)
  /\ UNCHANGED <<poe, calls, write, data>>

\* async_request_refresh by setup or by the refresh service: deferred during
\* the cooldown, dropped while a debounced refresh runs
RequestRefresh ==
  /\ IF cooldown THEN atEnd' = TRUE /\ UNCHANGED <<runs, armed, cooldown>>
     ELSE ~Locked /\ Begin(TRUE)
  /\ UNCHANGED <<poe, calls, write, data>>

\* The debouncer's timer, which is never set while the lock is held
CooldownOver ==
  /\ cooldown
  /\ IF atEnd THEN ~Locked /\ Begin(TRUE)
     ELSE cooldown' = FALSE /\ UNCHANGED <<runs, armed, atEnd>>
  /\ UNCHANGED <<poe, calls, write, data>>

\* The answer for one device arrives
Answered(r, d, reading, refused) ==
  /\ d \in runs[r].todo
  /\ runs' = [runs EXCEPT ![r].todo = @ \ {d}, ![r].results[d] = reading,
                          ![r].denied = @ \cup refused]
  /\ UNCHANGED <<poe, calls, write, data, armed, cooldown, atEnd>>

\* Mutant: the rows are those of the device's last publication
ReadRows_cached(r, d) == Answered(r, d, IF data[d] \in Settings THEN data[d] ELSE poe[d], {})

\* The device's rows
ReadRows(r, d) == Answered(r, d, poe[d], {})

\* The channel of the read failed, or its payload has no rows: []
ReadNoRows(r, d) == Answered(r, d, "empty", {})

\* 404, RmsApiError, or no payload in time: None, or continue
ReadNothing(r, d) == Answered(r, d, "absent", {d})

\* Mutant: the refusal ends the refresh (the defect fixed in 7476e58)
ReadDenied_aborts(r, d) ==
  /\ d \in runs[r].todo
  /\ End(r, TRUE)
  /\ UNCHANGED data

\* Mutant: the refusal leaves the loop, not the iteration
ReadDenied_breaks(r, d) ==
  /\ d \in runs[r].todo
  /\ runs' = [runs EXCEPT ![r].todo = {}, ![r].denied = @ \cup {d}]
  /\ UNCHANGED <<poe, calls, write, data, armed, cooldown, atEnd>>

\* ConfigEntryAuthFailed: continue
ReadDenied(r, d) == Answered(r, d, "absent", {d})

\* TimeoutError is no RmsApiError: the refresh fails, data stay what they were
ReadTimeout(r, d) ==
  /\ d \in runs[r].todo
  /\ End(r, FALSE)
  /\ UNCHANGED data

\* return results
Publish(r) ==
  /\ r \in Active
  /\ runs[r].todo = {}
  /\ data' = runs[r].results
  /\ End(r, FALSE)

RunStep(r) ==
  \/ \E d \in Devices : ReadRows(r, d) \/ ReadNoRows(r, d) \/ ReadNothing(r, d)
                        \/ ReadDenied(r, d) \/ ReadTimeout(r, d)
  \/ Publish(r)

-------------------------------------------------------------------------------
(* The switch: _async_set_poe *)

Goto(c, phase) == calls' = [calls EXCEPT ![c].phase = phase]

TurnPoe(c) ==
  /\ calls[c].phase = "idle"
  /\ Goto(c, "posting")
  /\ UNCHANGED <<poe, write, refresher>>

\* The call returned: any status below 400 is taken for success, so RMS may
\* or may not have taken the request
PostAccepted(c) ==
  /\ calls[c].phase = "posting"
  /\ Goto(c, "waiting")
  /\ \E fate \in {"none", "queued"} : write' = [write EXCEPT ![c] = fate]
  /\ UNCHANGED <<poe, refresher>>

\* RmsApiError, ConfigEntryAuthFailed and TimeoutError all leave the handler
\* before the refresh; RMS may have taken the request all the same
PostFails(c) ==
  /\ calls[c].phase = "posting"
  /\ Goto(c, "raised")
  /\ \E fate \in {"none", "queued"} : write' = [write EXCEPT ![c] = fate]
  /\ UNCHANGED <<poe, refresher>>

\* Mutant: the next refresh is awaited even if no refresh was started
ChannelDone_waits(c) ==
  /\ calls[c].phase = "waiting"
  /\ Goto(c, "refreshing")
  /\ IF cooldown THEN atEnd' = TRUE /\ UNCHANGED <<runs, armed, cooldown>>
     ELSE IF Locked THEN UNCHANGED <<runs, armed, cooldown, atEnd>>
     ELSE Begin(TRUE)
  /\ UNCHANGED <<poe, write, data>>

\* The channel is awaited (whatever its outcome: payload, failure, None), and
\* the refresh is requested: deferred, dropped, or begun and awaited
ChannelDone(c) ==
  /\ calls[c].phase = "waiting"
  /\ \/ /\ cooldown
        /\ atEnd' = TRUE
        /\ Goto(c, "returned")
        /\ UNCHANGED <<runs, armed, cooldown>>
     \/ /\ ~cooldown /\ Locked
        /\ Goto(c, "returned")
        /\ UNCHANGED <<runs, armed, cooldown, atEnd>>
     \/ /\ ~cooldown /\ ~Locked
        /\ Begin(TRUE)
        /\ Goto(c, "refreshing")
  /\ UNCHANGED <<poe, write, data>>

\* A poll of the channel raises
ChannelError(c) ==
  /\ calls[c].phase = "waiting"
  /\ Goto(c, "raised")
  /\ UNCHANGED <<poe, write, refresher>>

CallStep(c) == PostAccepted(c) \/ PostFails(c) \/ ChannelDone(c) \/ ChannelError(c)

-------------------------------------------------------------------------------
(* RMS *)

CarryOut(c) ==
  LET d == calls[c].device IN
  /\ write[c] = "queued"
  /\ write' = [write EXCEPT ![c] = "done"]
  /\ poe' = [poe EXCEPT ![d] = calls[c].enabled]
  /\ runs' = [r \in Runs |-> IF runs[r].active
                             THEN [runs[r] EXCEPT !.changed = @ \cup {d}] ELSE runs[r]]
  /\ UNCHANGED <<calls, data, armed, cooldown, atEnd>>

WriteFails(c) ==
  /\ write[c] = "queued"
  /\ write' = [write EXCEPT ![c] = "failed"]
  /\ UNCHANGED <<poe, calls, refresher>>

-------------------------------------------------------------------------------
Next ==
  \/ \E c \in Calls : TurnPoe(c) \/ CallStep(c) \/ CarryOut(c) \/ WriteFails(c)
  \/ \E r \in Runs : RunStep(r)
  \/ ScheduledRefresh \/ RequestRefresh \/ CooldownOver

Spec == Init /\ [][Next]_vars

(* An attempt times out and a channel wait is bounded (RmsRequest, StatusChannel), *)
(* so every answer a call or a refresh waits for comes.                            *)
FairSpec ==
  /\ Spec
  /\ \A c \in Calls : WF_vars(CallStep(c))
  /\ \A r \in Runs : WF_vars(RunStep(r))

-------------------------------------------------------------------------------
(* Properties *)

\* A published setting is the one the port has now, unless the port was written
\* while the refresh that publishes it, the one that ends with it, ran: no
\* reading is mixed up between devices, carried over from an earlier refresh or
\* taken from a failed one, and no other refresh in flight excuses a stale one.
PublishedIsCurrent ==
  [][data' # data =>
       \E r \in Active \ Active' : \A d \in Devices \ runs[r].changed :
          data'[d] \in Settings => data'[d] = poe[d]]_vars

\* A publication leaves out the devices that were refused or unknown to RMS in
\* the refresh that ends with it and no others: one device's error costs no
\* other device its switches, and no other refresh's refusals count.
NobodyLeftOut ==
  [][data' # data =>
       \E r \in Active \ Active' :
          \A d \in runs[r].listing \ runs[r].denied : data'[d] # "absent"]_vars

\* A call that awaits its refresh has a refresh to wait for, however the request
\* met the cooldown, the lock and the polling timer: no call waits forever.
NoCallStranded == \A c \in Calls : calls[c].phase = "refreshing" => Locked

\* Polling never stops: no answer for a device, refusals included, leaves the
\* coordinator without its timer once no refresh is in flight.
PollGoesOn == Active = {} => armed

\* The inductive invariant: both, and what a refresh in flight holds.
IInv ==
  /\ TypeOK
  /\ \A r \in Active : \A d \in Devices :
       /\ runs[r].results[d] \in Settings /\ d \notin runs[r].changed =>
            runs[r].results[d] = poe[d]
       /\ d \in runs[r].listing => \/ d \in runs[r].todo \cup runs[r].denied
                                   \/ runs[r].results[d] # "absent"
  /\ NoCallStranded
  /\ PollGoesOn

\* "one device from blocking port configuration for all others": what a refresh
\* has read is published when it ends (violated: TimeoutError).
OneDeviceBlocksNone ==
  [][\A r \in Runs : runs[r].active /\ ~runs'[r].active =>
       \A d \in Devices : runs[r].results[d] \in Settings => data'[d] = runs[r].results[d]]_vars
===============================================================================
