-------------------------- MODULE PortConfig_proofs --------------------------
(***************************************************************************)
(* What a port configuration refresh publishes, for any devices, calls and *)
(* number of overlapping refreshes.                                        *)
(***************************************************************************)
EXTENDS PortConfig, TLAPS

\* A refresh in flight keeps what it read in step with the port.
RunInv(r) ==
  \A d \in Devices :
    /\ runs[r].results[d] \in Settings /\ d \notin runs[r].changed =>
         runs[r].results[d] = poe[d]
    /\ d \in runs[r].listing => \/ d \in runs[r].todo \cup runs[r].denied
                                \/ runs[r].results[d] # "absent"

\* The state a refresh begins and ends in has its type.
LEMMA IdleType == Idle \in RunStates
BY DEF Idle, RunStates, Nothing, Readings, Settings

\* A refresh that begins has read nothing and owes every device of its listing.
LEMMA BeginKeeps ==
  ASSUME IInv, NEW b \in BOOLEAN, Begin(b), poe' = poe
  PROVE  /\ runs' \in [Runs -> RunStates] /\ armed' \in BOOLEAN
         /\ cooldown' \in BOOLEAN /\ atEnd' \in BOOLEAN
         /\ \A r \in Runs : runs'[r].active => RunInv(r)'
         /\ Active' # {} /\ (b \/ Locked => Locked')
<1>1. PICK r \in Runs \ Active, listing \in Listings :
        /\ runs' = [runs EXCEPT ![r] = [Idle EXCEPT
             !.active = TRUE, !.debounced = b, !.todo = listing, !.listing = listing]]
        /\ armed' = FALSE /\ cooldown' = FALSE /\ atEnd' = FALSE
  BY DEF Begin
<1> DEFINE begun == [Idle EXCEPT !.active = TRUE, !.debounced = b,
                                 !.todo = listing, !.listing = listing]
<1>2. begun \in RunStates
  BY IdleType, ListingsAssumption DEF RunStates
<1>3. runs' = [runs EXCEPT ![r] = begun] /\ runs \in [Runs -> RunStates]
  BY <1>1 DEF IInv, TypeOK
<1>4. runs' \in [Runs -> RunStates]
  <2> HIDE DEF begun
  <2> QED BY <1>2, <1>3
<1>5. ASSUME NEW s \in Runs, runs'[s].active PROVE RunInv(s)'
  <2>1. CASE s = r
    <3>1. /\ runs'[s].results = Nothing /\ runs'[s].todo = listing
          /\ runs'[s].listing = listing
      BY <1>3, <2>1 DEF Idle
    <3> QED BY <3>1 DEF RunInv, Nothing, Settings
  <2>2. CASE s # r
    <3>1. runs'[s] = runs[s]
      BY <1>3, <2>2
    <3> QED BY <3>1, <1>5 DEF RunInv, IInv, Active
  <2> QED BY <2>1, <2>2
<1>6. r \in Active' /\ (b => Locked')
  <2>1. runs'[r].active /\ runs'[r].debounced = b
    BY <1>3 DEF Idle
  <2> QED BY <2>1 DEF Active, Locked
<1>7. Locked => Locked'
  <2> SUFFICES ASSUME Locked PROVE Locked'
    OBVIOUS
  <2>1. PICK s \in Active : runs[s].debounced
    BY DEF Locked
  <2>2. runs'[s] = runs[s]
    BY <1>1, <1>3, <2>1
  <2> QED BY <2>1, <2>2 DEF Active, Locked
<1> QED BY <1>1, <1>4, <1>5, <1>6, <1>7

\* Ending one refresh leaves the others alone.
LEMMA EndKeeps ==
  ASSUME IInv, NEW r \in Runs, End(r, FALSE)
  PROVE  /\ runs' \in [Runs -> RunStates] /\ armed' \in BOOLEAN
         /\ cooldown' \in BOOLEAN /\ atEnd' \in BOOLEAN
         /\ calls' \in [Calls -> NewCalls] /\ poe' = poe /\ write' = write
         /\ \A s \in Runs : runs'[s].active => RunInv(s)'
         /\ armed' = TRUE /\ NoCallStranded'
<1>1. /\ runs' = [runs EXCEPT ![r] = Idle] /\ runs \in [Runs -> RunStates]
      /\ poe' = poe /\ write' = write /\ atEnd' = atEnd
  BY DEF End, IInv, TypeOK
<1>2. runs' \in [Runs -> RunStates]
  BY <1>1, IdleType
<1>3. armed' \in BOOLEAN /\ atEnd' \in BOOLEAN /\ armed' = TRUE
  BY <1>1 DEF End, IInv, TypeOK
<1>4. runs[r].debounced \in BOOLEAN
  BY <1>1 DEF RunStates
<1>5. cooldown' \in BOOLEAN
  BY <1>4 DEF End, IInv, TypeOK
<1>6. calls' \in [Calls -> NewCalls]
  <2>1. calls \in [Calls -> NewCalls]
    BY DEF IInv, TypeOK
  <2>2. \A c \in Calls : [calls[c] EXCEPT !.phase = "returned"] \in NewCalls
    BY <2>1 DEF NewCalls
  <2> QED BY <2>1, <2>2 DEF End
<1>7. ASSUME NEW s \in Runs, runs'[s].active PROVE RunInv(s)'
  <2>1. s # r
    BY <1>1, <1>7 DEF Idle
  <2>2. runs'[s] = runs[s]
    BY <1>1, <2>1
  <2> QED BY <1>1, <1>7, <2>2 DEF RunInv, IInv, Active
<1>8. NoCallStranded'
  <2> SUFFICES ASSUME NEW c \in Calls, calls'[c].phase = "refreshing" PROVE Locked'
    BY DEF NoCallStranded
  <2>1. calls[c].phase = "refreshing" /\ ~runs[r].debounced
    <3>1. calls[c] \in NewCalls
      BY DEF IInv, TypeOK
    <3>2. [calls[c] EXCEPT !.phase = "returned"].phase = "returned"
      BY <3>1 DEF NewCalls
    <3> QED BY <3>2 DEF End
  <2>2. PICK s \in Active : runs[s].debounced
    BY <2>1 DEF IInv, NoCallStranded, Locked
  <2>3. runs'[s] = runs[s]
    BY <1>1, <2>1, <2>2 DEF Active
  <2> QED BY <2>2, <2>3 DEF Active, Locked
<1> QED BY <1>1, <1>2, <1>3, <1>5, <1>6, <1>7, <1>8

\* An answer is the port's setting, no setting at all, or a refusal on record.
LEMMA AnswerKeeps ==
  ASSUME IInv, NEW r \in Runs, NEW d \in Devices, NEW reading \in Readings,
         NEW refused \in SUBSET {d}, Answered(r, d, reading, refused),
         reading \in Settings => reading = poe[d],
         reading = "absent" => d \in refused
  PROVE  /\ runs' \in [Runs -> RunStates]
         /\ \A s \in Runs : runs'[s].active => RunInv(s)'
<1> DEFINE next == [runs[r] EXCEPT !.todo = @ \ {d}, !.results[d] = reading,
                                   !.denied = @ \cup refused]
<1>1. /\ runs' = [runs EXCEPT ![r] = next] /\ runs \in [Runs -> RunStates]
      /\ poe' = poe
  BY DEF Answered, IInv, TypeOK
<1>2. runs[r] \in RunStates
  BY <1>1
<1>3. next \in RunStates
  BY <1>2 DEF RunStates
<1>4. /\ next.active = runs[r].active
      /\ next.results = [runs[r].results EXCEPT ![d] = reading]
      /\ next.todo = runs[r].todo \ {d} /\ next.denied = runs[r].denied \cup refused
      /\ next.changed = runs[r].changed /\ next.listing = runs[r].listing
  BY <1>2 DEF RunStates
<1> HIDE DEF next
<1>5. ASSUME NEW s \in Runs, runs'[s].active PROVE RunInv(s)'
  <2>1. CASE s = r
    <3>1. runs'[s] = next /\ r \in Active
      BY <1>1, <1>4, <1>5, <2>1 DEF Active
    <3>2. RunInv(r)
      BY <3>1 DEF IInv, RunInv
    <3>3. runs[r].results \in [Devices -> Readings]
      BY <1>2 DEF RunStates
    <3>4. ASSUME NEW e \in Devices
          PROVE  /\ next.results[e] \in Settings /\ e \notin next.changed =>
                      next.results[e] = poe[e]
                 /\ e \in next.listing => \/ e \in next.todo \cup next.denied
                                          \/ next.results[e] # "absent"
      <4>1. CASE e = d
        BY <1>4, <3>3, <4>1
      <4>2. CASE e # d
        BY <1>4, <3>2, <3>3, <4>2 DEF RunInv
      <4> QED BY <4>1, <4>2
    <3> QED BY <1>1, <3>1, <3>4 DEF RunInv
  <2>2. CASE s # r
    <3>1. runs'[s] = runs[s]
      BY <1>1, <2>2
    <3> QED BY <1>1, <1>5, <3>1 DEF RunInv, IInv, Active
  <2> QED BY <2>1, <2>2
<1> QED BY <1>1, <1>3, <1>5

\* A step that neither begins nor ends a refresh, and strands no call, keeps
\* the calls and the polling going.
LEMMA GoingOn ==
  ASSUME IInv, armed' = armed,
         \A r \in Runs : /\ runs'[r].active = runs[r].active
                        /\ runs'[r].debounced = runs[r].debounced,
         \A c \in Calls : calls'[c].phase = "refreshing" => calls[c].phase = "refreshing"
  PROVE  NoCallStranded' /\ PollGoesOn'
<1>1. Active' = Active
  BY DEF Active
<1>2. Locked => Locked'
  BY <1>1 DEF Locked, Active
<1> QED BY <1>1, <1>2 DEF IInv, NoCallStranded, PollGoesOn

\* A write marks its device in every refresh in flight.
LEMMA CarryOutKeeps ==
  ASSUME IInv, NEW c \in Calls, CarryOut(c)
  PROVE  IInv'
<1> DEFINE dev == calls[c].device
<1>1. /\ dev \in Devices /\ calls[c].enabled \in Settings
  BY DEF IInv, TypeOK, NewCalls
<1>2. /\ poe' = [poe EXCEPT ![dev] = calls[c].enabled]
      /\ poe \in [Devices -> Settings]
      /\ runs \in [Runs -> RunStates]
  BY DEF CarryOut, IInv, TypeOK
<1>3. \A r \in Runs : [runs[r] EXCEPT !.changed = @ \cup {dev}] \in RunStates
  BY <1>1, <1>2 DEF RunStates
<1>4. runs' \in [Runs -> RunStates]
  BY <1>2, <1>3 DEF CarryOut
<1>5. TypeOK'
  <2>1. write' \in [Calls -> {"none", "queued", "done", "failed"}]
    BY DEF CarryOut, IInv, TypeOK
  <2>2. poe' \in [Devices -> Settings]
    BY <1>1, <1>2
  <2> QED BY <1>4, <2>1, <2>2 DEF CarryOut, IInv, TypeOK
<1>6. ASSUME NEW r \in Runs, runs'[r].active PROVE RunInv(r)'
  <2>1. runs[r] \in RunStates
    BY <1>2
  <2>2. /\ runs[r].active
        /\ runs'[r] = [runs[r] EXCEPT !.changed = @ \cup {dev}]
    BY <1>2, <1>6 DEF CarryOut
  <2>3. /\ runs'[r].results = runs[r].results /\ runs'[r].todo = runs[r].todo
        /\ runs'[r].denied = runs[r].denied /\ runs'[r].listing = runs[r].listing
        /\ runs'[r].changed = runs[r].changed \cup {dev}
    BY <2>1, <2>2 DEF RunStates
  <2>4. RunInv(r)
    BY <2>2 DEF IInv, RunInv, Active
  <2>5. \A e \in Devices \ {dev} : poe'[e] = poe[e]
    BY <1>2
  <2> HIDE DEF dev
  <2> QED BY <2>3, <2>4, <2>5 DEF RunInv
<1>7. \A r \in Runs : /\ runs'[r].active = runs[r].active
                     /\ runs'[r].debounced = runs[r].debounced
  BY <1>2 DEF CarryOut, RunStates
<1>8. NoCallStranded' /\ PollGoesOn'
  BY <1>7, GoingOn DEF CarryOut
<1> QED BY <1>5, <1>6, <1>8 DEF IInv, RunInv, Active

\* The inductive invariant.
THEOREM Inductive == Spec => []IInv
<1>1. Init => IInv
  <2> SUFFICES ASSUME Init PROVE IInv
    OBVIOUS
  <2>1. Active = {}
    BY DEF Init, Active, Idle
  <2>2. runs \in [Runs -> RunStates]
    BY IdleType DEF Init
  <2>3. data \in [Devices -> Readings]
    BY DEF Init, Nothing, Readings
  <2>4. calls \in [Calls -> NewCalls]
    BY DEF Init, NewCalls
  <2>5. NoCallStranded /\ PollGoesOn
    BY DEF Init, NoCallStranded, PollGoesOn
  <2> QED BY <2>1, <2>2, <2>3, <2>4, <2>5 DEF Init, IInv, TypeOK
<1>2. IInv /\ [Next]_vars => IInv'
  <2> SUFFICES ASSUME IInv, [Next]_vars PROVE IInv'
    OBVIOUS
  <2>0. /\ runs \in [Runs -> RunStates] /\ calls \in [Calls -> NewCalls]
        /\ \A r \in Runs : runs[r].active => RunInv(r)
    BY DEF IInv, TypeOK, RunInv, Active
  <2> DEFINE RunsKept == /\ runs' \in [Runs -> RunStates]
                         /\ \A r \in Runs : runs'[r].active => RunInv(r)'
             RestKept == /\ poe' = poe /\ write' = write /\ data' = data
                         /\ calls' \in [Calls -> NewCalls]
  <2>00. ASSUME NEW c \in Calls,
                NEW phase \in {"idle", "posting", "waiting", "refreshing", "returned", "raised"},
                Goto(c, phase)
         PROVE  /\ calls' \in [Calls -> NewCalls]
                /\ phase # "refreshing" => \A e \in Calls :
                     calls'[e].phase = "refreshing" => calls[e].phase = "refreshing"
    <3>1. [calls[c] EXCEPT !.phase = phase] \in NewCalls
      BY <2>0 DEF NewCalls
    <3>2. [calls[c] EXCEPT !.phase = phase].phase = phase
      BY <2>0 DEF NewCalls
    <3> QED BY <2>0, <2>00, <3>1, <3>2 DEF Goto
  <2>1. ASSUME NEW c \in Calls, TurnPoe(c) PROVE IInv'
    <3>1. /\ calls' \in [Calls -> NewCalls]
          /\ \A e \in Calls : calls'[e].phase = "refreshing" => calls[e].phase = "refreshing"
      BY <2>1, <2>00 DEF TurnPoe
    <3>9. NoCallStranded' /\ PollGoesOn'
      BY <2>1, <3>1, GoingOn DEF TurnPoe, refresher
    <3> QED BY <2>1, <3>1, <3>9 DEF TurnPoe, IInv, TypeOK, refresher, Active
  <2>2. ASSUME NEW c \in Calls, PostAccepted(c) PROVE IInv'
    <3>1. /\ calls' \in [Calls -> NewCalls]
          /\ \A e \in Calls : calls'[e].phase = "refreshing" => calls[e].phase = "refreshing"
      BY <2>2, <2>00 DEF PostAccepted
    <3>9. NoCallStranded' /\ PollGoesOn'
      BY <2>2, <3>1, GoingOn DEF PostAccepted, refresher
    <3>2. write' \in [Calls -> {"none", "queued", "done", "failed"}]
      BY <2>2 DEF PostAccepted, IInv, TypeOK
    <3> QED BY <2>2, <3>1, <3>2, <3>9 DEF PostAccepted, IInv, TypeOK, refresher, Active
  <2>3. ASSUME NEW c \in Calls, PostFails(c) PROVE IInv'
    <3>1. /\ calls' \in [Calls -> NewCalls]
          /\ \A e \in Calls : calls'[e].phase = "refreshing" => calls[e].phase = "refreshing"
      BY <2>3, <2>00 DEF PostFails
    <3>9. NoCallStranded' /\ PollGoesOn'
      BY <2>3, <3>1, GoingOn DEF PostFails, refresher
    <3>2. write' \in [Calls -> {"none", "queued", "done", "failed"}]
      BY <2>3 DEF PostFails, IInv, TypeOK
    <3> QED BY <2>3, <3>1, <3>2, <3>9 DEF PostFails, IInv, TypeOK, refresher, Active
  <2>4. ASSUME NEW c \in Calls, ChannelDone(c) PROVE IInv'
    <3>1. RestKept
      BY <2>4, <2>00 DEF ChannelDone
    <3>2. /\ RunsKept /\ armed' \in BOOLEAN /\ cooldown' \in BOOLEAN /\ atEnd' \in BOOLEAN
      <4>1. CASE UNCHANGED <<runs, armed, cooldown>> /\ atEnd' \in BOOLEAN
        BY <2>0, <3>1, <4>1 DEF RunInv, IInv, TypeOK
      <4>2. CASE Begin(TRUE)
        BY <3>1, <4>2, BeginKeeps
      <4> QED BY <2>4, <4>1, <4>2 DEF ChannelDone, IInv, TypeOK
    <3>3. NoCallStranded' /\ PollGoesOn'
      <4>1. CASE UNCHANGED <<runs, armed>> /\ Goto(c, "returned")
        <5>1. \A e \in Calls : calls'[e].phase = "refreshing" => calls[e].phase = "refreshing"
          BY <2>00, <4>1
        <5> QED BY <4>1, <5>1, GoingOn
      <4>2. CASE Begin(TRUE)
        BY <3>1, <4>2, BeginKeeps DEF NoCallStranded, PollGoesOn
      <4> QED BY <2>4, <4>1, <4>2 DEF ChannelDone
    <3> QED BY <3>1, <3>2, <3>3 DEF IInv, TypeOK, RunInv, Active
  <2>5. ASSUME NEW c \in Calls, ChannelError(c) PROVE IInv'
    <3>1. /\ calls' \in [Calls -> NewCalls]
          /\ \A e \in Calls : calls'[e].phase = "refreshing" => calls[e].phase = "refreshing"
      BY <2>5, <2>00 DEF ChannelError
    <3>9. NoCallStranded' /\ PollGoesOn'
      BY <2>5, <3>1, GoingOn DEF ChannelError, refresher
    <3> QED BY <2>5, <3>1, <3>9 DEF ChannelError, IInv, TypeOK, refresher, Active
  <2>6. ASSUME NEW c \in Calls, CarryOut(c) PROVE IInv'
    BY <2>6, CarryOutKeeps
  <2>7. ASSUME NEW c \in Calls, WriteFails(c) PROVE IInv'
    <3>1. write' \in [Calls -> {"none", "queued", "done", "failed"}]
      BY <2>7 DEF WriteFails, IInv, TypeOK
    <3>2. NoCallStranded' /\ PollGoesOn'
      BY <2>7, GoingOn DEF WriteFails, refresher
    <3> QED BY <2>7, <3>1, <3>2 DEF WriteFails, IInv, TypeOK, refresher, Active
  <2>8. ASSUME NEW r \in Runs, NEW d \in Devices, NEW reading \in Readings,
               NEW refused \in SUBSET {d}, Answered(r, d, reading, refused),
               reading \in Settings => reading = poe[d],
               reading = "absent" => d \in refused
        PROVE  IInv'
    <3>1. RunsKept
      BY <2>8, AnswerKeeps
    <3>2. NoCallStranded' /\ PollGoesOn'
      <4>1. \A s \in Runs : /\ runs'[s].active = runs[s].active
                           /\ runs'[s].debounced = runs[s].debounced
        BY <2>0, <2>8 DEF Answered, RunStates
      <4> QED BY <2>8, <4>1, GoingOn DEF Answered
    <3> QED BY <2>8, <3>1, <3>2 DEF Answered, IInv, TypeOK, RunInv, Active
  <2>9. ASSUME NEW r \in Runs, NEW d \in Devices,
               ReadRows(r, d) \/ ReadNoRows(r, d) \/ ReadNothing(r, d) \/ ReadDenied(r, d)
        PROVE  IInv'
    <3>1. poe[d] \in Readings
      BY DEF IInv, TypeOK, Readings
    <3>2. CASE ReadRows(r, d)
      BY <2>8, <3>1, <3>2 DEF ReadRows, IInv, TypeOK, Settings
    <3>3. CASE ReadNoRows(r, d)
      BY <2>8, <3>3 DEF ReadNoRows, Readings, Settings
    <3>4. CASE ReadNothing(r, d) \/ ReadDenied(r, d)
      BY <2>8, <3>4 DEF ReadNothing, ReadDenied, Readings, Settings
    <3> QED BY <2>9, <3>2, <3>3, <3>4
  <2>10. ASSUME NEW r \in Runs, NEW d \in Devices, ReadTimeout(r, d) PROVE IInv'
    <3>1. End(r, FALSE) /\ data' = data
      BY <2>10 DEF ReadTimeout
    <3> QED BY <3>1, EndKeeps DEF PollGoesOn, IInv, TypeOK, RunInv, Active
  <2>11. ASSUME NEW r \in Runs, Publish(r) PROVE IInv'
    <3>1. End(r, FALSE) /\ data' = runs[r].results
      BY <2>11 DEF Publish
    <3>2. runs[r].results \in [Devices -> Readings]
      BY <2>0 DEF RunStates
    <3> QED BY <3>1, <3>2, EndKeeps DEF PollGoesOn, IInv, TypeOK, RunInv, Active
  <2>12. CASE ScheduledRefresh \/ RequestRefresh \/ CooldownOver
    <3>1. RestKept
      BY <2>0, <2>12 DEF ScheduledRefresh, RequestRefresh, CooldownOver
    <3>2. /\ RunsKept /\ armed' \in BOOLEAN /\ cooldown' \in BOOLEAN /\ atEnd' \in BOOLEAN
      <4>1. CASE UNCHANGED <<runs, armed>> /\ cooldown' \in BOOLEAN /\ atEnd' \in BOOLEAN
        BY <2>0, <3>1, <4>1 DEF RunInv, IInv, TypeOK
      <4>2. CASE \E b \in BOOLEAN : Begin(b)
        BY <3>1, <4>2, BeginKeeps
      <4> QED BY <2>12, <4>1, <4>2
            DEF ScheduledRefresh, RequestRefresh, CooldownOver, IInv, TypeOK
    <3>3. calls' = calls
      BY <2>12 DEF ScheduledRefresh, RequestRefresh, CooldownOver
    <3>4. NoCallStranded' /\ PollGoesOn'
      <4>1. CASE UNCHANGED <<runs, armed>>
        BY <3>3, <4>1, GoingOn
      <4>2. CASE \E b \in BOOLEAN : Begin(b)
        BY <3>1, <3>3, <4>2, BeginKeeps DEF IInv, NoCallStranded, PollGoesOn
      <4> QED BY <2>12, <4>1, <4>2 DEF ScheduledRefresh, RequestRefresh, CooldownOver
    <3> QED BY <3>1, <3>2, <3>4 DEF IInv, TypeOK, RunInv, Active
  <2>13. CASE UNCHANGED vars
    BY <2>13 DEF vars, IInv, TypeOK, NoCallStranded, PollGoesOn, Locked, Active
  <2> QED BY <2>1, <2>2, <2>3, <2>4, <2>5, <2>6, <2>7, <2>9, <2>10, <2>11, <2>12, <2>13
          DEF Next, CallStep, RunStep
<1> QED BY <1>1, <1>2, PTL DEF Spec

\* Type correctness.
THEOREM TypeCorrect == Spec => []TypeOK
<1>1. IInv => TypeOK
  BY DEF IInv
<1> QED BY <1>1, Inductive, PTL

\* No call waits for a refresh that nobody runs.
THEOREM CallsGoOn == Spec => []NoCallStranded
<1>1. IInv => NoCallStranded
  BY DEF IInv
<1> QED BY <1>1, Inductive, PTL

\* The polling timer is set whenever no refresh is in flight.
THEOREM PollingGoesOn == Spec => []PollGoesOn
<1>1. IInv => PollGoesOn
  BY DEF IInv
<1> QED BY <1>1, Inductive, PTL

\* Only a refresh that has asked every device changes the data, and ends with it.
LEMMA OnlyPublish ==
  ASSUME IInv, [Next]_vars, data' # data
  PROVE  \E r \in Runs : Publish(r) /\ r \notin Active'
<1>1. ASSUME NEW c \in Calls, TurnPoe(c) \/ CallStep(c) \/ CarryOut(c) \/ WriteFails(c)
      PROVE data' = data
  BY <1>1 DEF TurnPoe, CallStep, PostAccepted, PostFails, ChannelDone, ChannelError,
              CarryOut, WriteFails, refresher
<1>2. ASSUME NEW r \in Runs, NEW d \in Devices,
             \/ ReadRows(r, d) \/ ReadNoRows(r, d) \/ ReadNothing(r, d)
             \/ ReadDenied(r, d) \/ ReadTimeout(r, d)
      PROVE data' = data
  BY <1>2 DEF ReadRows, ReadNoRows, ReadNothing, ReadDenied, ReadTimeout, Answered
<1>3. ScheduledRefresh \/ RequestRefresh \/ CooldownOver \/ UNCHANGED vars => data' = data
  BY DEF ScheduledRefresh, RequestRefresh, CooldownOver, vars
<1>4. PICK r \in Runs : Publish(r)
  BY <1>1, <1>2, <1>3 DEF Next, RunStep
<1>5. ~runs'[r].active
  BY <1>4 DEF Publish, End, IInv, TypeOK, Idle
<1> QED BY <1>4, <1>5 DEF Active

\* What is published is current, but for writes during the refresh.
THEOREM Current == Spec => PublishedIsCurrent
<1>1. IInv /\ [Next]_vars =>
        [data' # data =>
           \E r \in Active \ Active' : \A d \in Devices \ runs[r].changed :
              data'[d] \in Settings => data'[d] = poe[d]]_vars
  <2> SUFFICES ASSUME IInv, [Next]_vars, data' # data
               PROVE  \E r \in Active \ Active' : \A d \in Devices \ runs[r].changed :
                        data'[d] \in Settings => data'[d] = poe[d]
    OBVIOUS
  <2>1. PICK r \in Runs : Publish(r) /\ r \notin Active'
    BY OnlyPublish
  <2>2. r \in Active /\ data' = runs[r].results
    BY <2>1 DEF Publish
  <2> QED BY <2>1, <2>2 DEF IInv
<1> QED BY <1>1, Inductive, PTL DEF Spec, PublishedIsCurrent

\* One device's error leaves out no other device.
THEOREM Complete == Spec => NobodyLeftOut
<1>1. IInv /\ [Next]_vars =>
        [data' # data =>
           \E r \in Active \ Active' :
              \A d \in runs[r].listing \ runs[r].denied : data'[d] # "absent"]_vars
  <2> SUFFICES ASSUME IInv, [Next]_vars, data' # data
               PROVE  \E r \in Active \ Active' : \A d \in runs[r].listing \ runs[r].denied :
                        data'[d] # "absent"
    OBVIOUS
  <2>1. PICK r \in Runs : Publish(r) /\ r \notin Active'
    BY OnlyPublish
  <2>2. r \in Active /\ data' = runs[r].results /\ runs[r].todo = {}
    BY <2>1 DEF Publish
  <2>3. runs[r].listing \subseteq Devices
    BY <2>1 DEF IInv, TypeOK, RunStates
  <2> QED BY <2>1, <2>2, <2>3 DEF IInv
<1> QED BY <1>1, Inductive, PTL DEF Spec, NobodyLeftOut
===============================================================================
