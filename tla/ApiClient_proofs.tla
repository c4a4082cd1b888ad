-------------------------- MODULE ApiClient_proofs --------------------------
(***************************************************************************)
(* Proofs about the API client: async_request (RmsRequest) and the wait    *)
(* for the outcome of an asynchronous request (StatusChannel).             *)
(*                                                                         *)
(* async_request for any number of concurrent calls, any number of retries *)
(* and any window.  One argument carries the invariants and the refinement *)
(* of RmsCall: CallInv ties the copies of a request that RMS may still     *)
(* carry out to the attempts made so far.                                  *)
(*                                                                         *)
(* The wait for any budgets: types, truthful results, the time bound, what *)
(* polling finds and the closed socket.  It shares no state with the loop; *)
(* its names begin with Channel where the loop has the same ones.          *)
(***************************************************************************)
EXTENDS RmsRequest, StatusChannel, TLAPS

\* The steps of the calls and of RMS
CallStep(c) ==
  Invoke(c) \/ AttemptEnds(c) \/ NextAttempt(c) \/ RmsApplies(c)

\* Every step keeps the variables in their types.
LEMMA TypeStep == ASSUME TypeOK, [Next]_vars PROVE TypeOK'
<1> USE RequestAssumption DEF TypeOK, Outcomes, Busy, Reading, Sleeping
<1>1. CASE UNCHANGED vars
  BY <1>1 DEF vars
<1>2. ASSUME NEW c \in Calls, Invoke(c) PROVE TypeOK'
  BY <1>2 DEF Invoke, BeginAttempt, IncrementRequestCounter, WindowOver
<1>3. ASSUME NEW c \in Calls, AttemptEnds(c) PROVE TypeOK'
  <2> USE DEF Sleep, Return, ReadBody, counterVars, serverVars
  <2>1. CASE NetworkErrorRetry(c)
    BY <2>1 DEF NetworkErrorRetry
  <2>2. CASE NetworkErrorGiveUp(c)
    BY <2>2 DEF NetworkErrorGiveUp
  <2>3. CASE AttemptTimeout(c)
    BY <2>3 DEF AttemptTimeout
  <2>4. CASE Unauthorized(c)
    BY <2>4 DEF Unauthorized
  <2>5. CASE NotFound(c)
    BY <2>5 DEF NotFound
  <2>6. CASE RetriableStatus(c)
    BY <2>6 DEF RetriableStatus
  <2>7. CASE ErrorStatus(c)
    BY <2>7 DEF ErrorStatus
  <2>8. CASE SuccessStatus(c)
    BY <2>8 DEF SuccessStatus
  <2>9. CASE ParseData(c)
    BY <2>9 DEF ParseData
  <2>10. CASE ParseFailure(c)
    BY <2>10 DEF ParseFailure
  <2> QED
    BY <1>3, <2>1, <2>2, <2>3, <2>4, <2>5, <2>6, <2>7, <2>8, <2>9, <2>10
       DEF AttemptEnds
<1>4. ASSUME NEW c \in Calls, NextAttempt(c) PROVE TypeOK'
  BY <1>4 DEF NextAttempt, BeginAttempt, IncrementRequestCounter, WindowOver
<1>5. ASSUME NEW c \in Calls, RmsApplies(c) PROVE TypeOK'
  BY <1>5 DEF RmsApplies, counterVars
<1>6. CASE NewDay
  BY <1>6 DEF NewDay, serverVars, counterVars
<1> QED
  BY <1>1, <1>2, <1>3, <1>4, <1>5, <1>6 DEF Next

\* An attempt is counted: in the running window, or as the first of a new one.
LEMMA CountStep ==
  ASSUME TypeOK, CounterInv, IncrementRequestCounter, UNCHANGED today, TypeOK'
  PROVE  CounterInv'
<1> USE RequestAssumption DEF TypeOK, CounterInv, CounterIsWindow
<1>1. /\ today \in 0..MaxDay /\ windowStart \in 0..today
      /\ \A d \in 0..MaxDay + 1 : sentBefore[d] \in Nat
      /\ \A d \in 0..today : sentBefore'[d] = sentBefore[d]
      /\ \A d \in today + 1..MaxDay + 1 : sentBefore'[d] = sentBefore[d] + 1
      /\ today' = today /\ requestCounter \in Nat
  BY DEF IncrementRequestCounter
<1>2. \A d \in today + 1..MaxDay + 1 : sentBefore'[d] = sentBefore'[today + 1]
  BY <1>1
<1>3. CASE WindowOver
  <2>1. windowStart' = today /\ requestCounter' = 1
    BY <1>3 DEF IncrementRequestCounter
  <2>2. requestCounter' = sentBefore'[today + 1] - sentBefore'[today]
    BY <1>1, <1>3, <2>1
  <2>3. ~WindowOver'
    BY <1>1, <2>1 DEF WindowOver
  <2> QED
    BY <1>1, <1>2, <2>1, <2>2, <2>3
<1>4. CASE ~WindowOver
  <2>1. windowStart' = windowStart /\ requestCounter' = requestCounter + 1
    BY <1>4 DEF IncrementRequestCounter
  <2>2. requestCounter' = sentBefore'[today + 1] - sentBefore'[windowStart]
    BY <1>1, <2>1
  <2>3. ~WindowOver'
    BY <1>1, <1>4, <2>1 DEF WindowOver
  <2> QED
    BY <1>1, <1>2, <2>1, <2>2, <2>3
<1> QED
  BY <1>3, <1>4

\* Of the other steps only the change of day touches the window: a day on which
\* nothing has been sent yet begins.
LEMMA CounterStep == ASSUME TypeOK, CounterInv, [Next]_vars, TypeOK' PROVE CounterInv'
<1>1. ASSUME UNCHANGED <<counterVars, today>> PROVE CounterInv'
  BY <1>1 DEF CounterInv, CounterIsWindow, WindowOver, counterVars
<1>2. ASSUME NEW c \in Calls, Invoke(c) \/ NextAttempt(c) PROVE CounterInv'
  BY <1>2, CountStep DEF Invoke, NextAttempt, BeginAttempt
<1>3. ASSUME NEW c \in Calls, AttemptEnds(c) \/ RmsApplies(c)
      PROVE  UNCHANGED <<counterVars, today>>
  BY <1>3 DEF AttemptEnds, NetworkErrorRetry, NetworkErrorGiveUp, AttemptTimeout,
       Unauthorized, NotFound, RetriableStatus, ErrorStatus, SuccessStatus,
       ParseData, ParseFailure, RmsApplies
<1>4. CASE NewDay
  <2>1. today' = today + 1 /\ today + 1 <= MaxDay /\ UNCHANGED counterVars
    BY <1>4, RequestAssumption DEF NewDay, TypeOK
  <2>2. today \in Nat /\ windowStart \in Nat /\ MaxDay \in Nat
    BY RequestAssumption DEF TypeOK
  <2>3. sentBefore[today + 2] = sentBefore[today + 1]
    BY <2>1, <2>2 DEF CounterInv
  <2> QED
    BY <2>1, <2>2, <2>3 DEF CounterInv, CounterIsWindow, WindowOver, counterVars
<1>5. CASE UNCHANGED vars
  BY <1>1, <1>5 DEF vars, counterVars
<1> QED
  BY <1>1, <1>2, <1>3, <1>4, <1>5 DEF Next

\* Every step of call c keeps CallInv of c and leaves the other calls alone.
LEMMA CallStepInv ==
  ASSUME IInv, NEW c \in Calls, CallStep(c)
  PROVE  \A d \in Calls : CallInv(d)'
<1> SUFFICES ASSUME NEW d \in Calls PROVE CallInv(d)'
  OBVIOUS
<1> USE RequestAssumption DEF IInv, CallInv, TypeOK, Sends, Busy, Reading, Sleeping
<1>1. CASE Invoke(c)
  BY <1>1 DEF Invoke, BeginAttempt
<1>2. CASE AttemptEnds(c)
  <2> USE DEF Sleep, Return, ReadBody, counterVars, serverVars
  <2>1. CASE NetworkErrorRetry(c)
    BY <2>1 DEF NetworkErrorRetry
  <2>2. CASE NetworkErrorGiveUp(c)
    BY <2>2 DEF NetworkErrorGiveUp
  <2>3. CASE AttemptTimeout(c)
    BY <2>3 DEF AttemptTimeout
  <2>4. CASE Unauthorized(c)
    BY <2>4 DEF Unauthorized
  <2>5. CASE NotFound(c)
    BY <2>5 DEF NotFound
  <2>6. CASE RetriableStatus(c)
    BY <2>6 DEF RetriableStatus
  <2>7. CASE ErrorStatus(c)
    BY <2>7 DEF ErrorStatus
  <2>8. CASE SuccessStatus(c)
    BY <2>8 DEF SuccessStatus
  <2>9. CASE ParseData(c)
    BY <2>9 DEF ParseData
  <2>10. CASE ParseFailure(c)
    BY <2>10 DEF ParseFailure
  <2> QED
    BY <1>2, <2>1, <2>2, <2>3, <2>4, <2>5, <2>6, <2>7, <2>8, <2>9, <2>10
       DEF AttemptEnds
<1>3. CASE NextAttempt(c)
  BY <1>3 DEF NextAttempt, BeginAttempt
<1>4. CASE RmsApplies(c)
  BY <1>4 DEF RmsApplies
<1> QED
  BY <1>1, <1>2, <1>3, <1>4 DEF CallStep

\* IInv holds initially and every step keeps it.
LEMMA InductiveInit == Init => IInv
<1> SUFFICES ASSUME Init PROVE IInv
  OBVIOUS
<1>1. TypeOK /\ \A c \in Calls : CallInv(c)
  BY RequestAssumption DEF Init, TypeOK, CallInv, Sends, Sleeping
<1>2. CounterInv
  BY RequestAssumption DEF Init, CounterInv, CounterIsWindow, WindowOver
<1> QED
  BY <1>1, <1>2 DEF IInv

LEMMA InductiveStep == IInv /\ [Next]_vars => IInv'
<1> SUFFICES ASSUME IInv, [Next]_vars PROVE IInv'
  OBVIOUS
<1>1. TypeOK'
  BY TypeStep DEF IInv
<1>2. CounterInv'
  BY <1>1, CounterStep DEF IInv
<1>3. ASSUME NEW c \in Calls, CallStep(c) PROVE \A d \in Calls : CallInv(d)'
  BY <1>3, CallStepInv
<1>4. CASE NewDay \/ UNCHANGED vars
  BY <1>1, <1>2, <1>4
     DEF IInv, CallInv, Sends, NewDay, serverVars, counterVars, vars
<1> QED
  BY <1>1, <1>2, <1>3, <1>4 DEF IInv, Next, CallStep

\* The inductive invariant holds in every reachable state.
THEOREM Inductive == Spec => []IInv
  BY InductiveInit, InductiveStep, PTL DEF Spec

\* Types are kept: in particular the day counters and the attempt number stay
\* in range whatever the number of concurrent calls.
THEOREM TypeCorrect == Spec => []TypeOK
<1>1. IInv => TypeOK
  BY DEF IInv
<1> QED
  BY <1>1, Inductive, PTL

\* However retries, lost answers and late deliveries interleave, RMS carries a
\* request out at most as often as async_request sent it.
THEOREM EffectsBounded == Spec => []EffectBound
<1>1. ASSUME IInv, NEW c \in Calls PROVE applied[c] <= Sends(c)
  <2>1. applied[c] \in Nat /\ onWire[c] \in Nat /\ Sends(c) \in Nat
    BY <1>1, RequestAssumption DEF IInv, TypeOK, Sends
  <2> QED
    BY <1>1, <2>1 DEF IInv, CallInv
<1>2. IInv => EffectBound
  BY <1>1 DEF EffectBound
<1> QED
  BY <1>2, Inductive, PTL

\* The line behind the retry loop is never reached.
THEOREM LoopNeverExhausted == Spec => []NeverExhausted
<1>1. IInv => NeverExhausted
  BY DEF IInv, CallInv, NeverExhausted
<1> QED
  BY <1>1, Inductive, PTL

\* No response stays unreleased after its attempt.
THEOREM ResponsesReleased == Spec => []ResponseReleased
<1>1. IInv => ResponseReleased
  BY DEF IInv, CallInv, ResponseReleased
<1> QED
  BY <1>1, Inductive, PTL

\* _request_counter is the number of attempts made in its window, for any number
\* of concurrent callers, any window and any days.
THEOREM CounterExact == Spec => []CounterIsWindow
<1>1. IInv => CounterIsWindow
  BY DEF IInv, CounterInv
<1> QED
  BY <1>1, Inductive, PTL

\* Whatever the other calls, RMS and the clock do, each step of a call brings it
\* nearer its end: it awaits three times an attempt at most.
THEOREM CallsAdvance == Spec => CallAdvances
<1>1. ASSUME IInv, IInv', [Next]_vars, NEW c \in Calls PROVE Advances(c)
  <2> DEFINE Same == pc'[c] = pc[c] /\ attempt'[c] = attempt[c]
             Left(at, n) ==
               IF at = "idle" THEN 3 * (MaxRetries + 1) + 1
               ELSE IF at = "done" THEN 0
               ELSE 3 * (MaxRetries - n)
                    + (IF at = "sent" THEN 3 ELSE IF at \in Sleeping THEN 1 ELSE 2)
  <2>1. /\ TypeOK /\ TypeOK' /\ MaxRetries \in Nat
        /\ attempt[c] \in 0..MaxRetries /\ attempt'[c] \in 0..MaxRetries
        /\ pc'[c] \notin Sleeping \/ attempt'[c] < MaxRetries
    BY <1>1, RequestAssumption DEF IInv, TypeOK, CallInv
  <2>2. /\ AwaitsLeft(c) = Left(pc[c], attempt[c])
        /\ AwaitsLeft(c)' = Left(pc'[c], attempt'[c])
    BY <2>1 DEF TypeOK, AwaitsLeft, Busy, Reading, Sleeping
  <2>10. ASSUME NEW at, NEW n \in 0..MaxRetries
         PROVE  /\ at = "done" => Left(at, n) = 0
                /\ at \in Sleeping => Left(at, n) = 3 * (MaxRetries - n) + 1
                /\ at \in {"readingBody", "readingError"} =>
                     Left(at, n) = 3 * (MaxRetries - n) + 2
                /\ at = "sent" => Left(at, n) = 3 * (MaxRetries - n) + 3
    BY DEF Sleeping
  <2> USE <2>1 DEF TypeOK
  <2>3. CASE UNCHANGED vars \/ NewDay
    BY <2>3 DEF vars, NewDay, Advances
  <2>4. ASSUME NEW d \in Calls, CallStep(d), d # c PROVE Same
    <3> USE DEF Sleep, Return, ReadBody
    <3>1. CASE Invoke(d) \/ NextAttempt(d)
      BY <2>4, <3>1 DEF Invoke, NextAttempt, BeginAttempt
    <3>2. CASE RmsApplies(d)
      BY <3>2 DEF RmsApplies
    <3>3. CASE AttemptEnds(d)
      BY <2>4, <3>3 DEF AttemptEnds, NetworkErrorRetry, NetworkErrorGiveUp,
         AttemptTimeout, Unauthorized, NotFound, RetriableStatus, ErrorStatus,
         SuccessStatus, ParseData, ParseFailure
    <3> QED
      BY <2>4, <3>1, <3>2, <3>3 DEF CallStep
  <2>5. CASE Invoke(c)
    <3>1. pc[c] = "idle" /\ pc'[c] = "sent" /\ attempt'[c] = 0
      BY <2>5 DEF Invoke, BeginAttempt
    <3> QED
      BY <2>2, <3>1 DEF Advances
  <2>6. CASE NextAttempt(c)
    <3>1. pc[c] \in Sleeping /\ pc'[c] = "sent" /\ attempt'[c] = attempt[c] + 1
      BY <2>6 DEF NextAttempt, BeginAttempt
    <3> QED
      BY <2>2, <3>1 DEF Advances, Sleeping
  <2>7. CASE RmsApplies(c)
    BY <2>7 DEF RmsApplies, Advances
  <2>8. CASE AttemptEnds(c)
    <3>1. /\ pc[c] \in {"sent", "readingBody", "readingError"}
          /\ attempt'[c] = attempt[c]
          /\ \/ pc'[c] \in Sleeping \cup {"done"}
             \/ pc[c] = "sent" /\ pc'[c] \in {"readingBody", "readingError"}
      BY <2>8 DEF AttemptEnds, NetworkErrorRetry, NetworkErrorGiveUp, AttemptTimeout,
         Unauthorized, NotFound, RetriableStatus, ErrorStatus, SuccessStatus,
         ParseData, ParseFailure, Sleep, Return, ReadBody, Reading, Sleeping
    <3> HIDE <2>1 DEF TypeOK, Left
    <3>2. 3 * (MaxRetries - attempt[c]) \in Nat
      BY <2>1
    <3>3. CASE pc'[c] \in Sleeping \cup {"done"}
      <4>1. /\ \/ AwaitsLeft(c) = 3 * (MaxRetries - attempt[c]) + 2
               \/ AwaitsLeft(c) = 3 * (MaxRetries - attempt[c]) + 3
            /\ \/ AwaitsLeft(c)' = 0
               \/ AwaitsLeft(c)' = 3 * (MaxRetries - attempt[c]) + 1
        BY <2>1, <2>2, <2>10, <3>1, <3>3
      <4> QED
        BY <3>2, <4>1 DEF Advances
    <3>4. CASE pc[c] = "sent" /\ pc'[c] \in {"readingBody", "readingError"}
      <4>1. /\ AwaitsLeft(c) = 3 * (MaxRetries - attempt[c]) + 3
            /\ AwaitsLeft(c)' = 3 * (MaxRetries - attempt[c]) + 2
        BY <2>1, <2>2, <2>10, <3>1, <3>4
      <4> QED
        BY <3>2, <4>1 DEF Advances
    <3> QED
      BY <3>1, <3>3, <3>4
  <2>9. Same => Advances(c)
    BY DEF Advances
  <2> QED
    BY <1>1, <2>3, <2>4, <2>5, <2>6, <2>7, <2>8, <2>9 DEF Next, CallStep
<1>2. IInv /\ IInv' /\ [Next]_vars => \A c \in Calls : Advances(c)
  BY <1>1
<1> QED
  BY <1>2, Inductive, PTL DEF Spec, CallAdvances

-------------------------------------------------------------------------------
(* Refinement: each step of async_request is a step of RmsCall or a stutter *)

\* The steps that leave the abstract call where it is: an attempt ends in a
\* sleep or in the reading of a body, or a day passes.
LEMMA StutterSteps ==
  ASSUME IInv, NEW c \in Calls,
         NetworkErrorRetry(c) \/ RetriableStatus(c) \/ ErrorStatus(c) \/ SuccessStatus(c)
  PROVE  UNCHANGED Promise!vars
  BY DEF IInv, TypeOK, Promise!vars, NetworkErrorRetry, RetriableStatus,
         ErrorStatus, SuccessStatus, serverVars, Sleep, ReadBody, Phase, Sends, Busy,
         Reading, Sleeping

\* The steps that return or raise are Reply steps.
LEMMA ReplySteps ==
  ASSUME IInv, NEW c \in Calls,
         NetworkErrorGiveUp(c) \/ AttemptTimeout(c) \/ Unauthorized(c)
           \/ NotFound(c) \/ ParseData(c) \/ ParseFailure(c)
  PROVE  Promise!Reply(c)
<1> USE DEF IInv, TypeOK, Promise!Reply, Phase, Sends, Outcomes, Busy, Reading,
            Sleeping, Return, serverVars
<1>1. CASE NetworkErrorGiveUp(c)
  BY <1>1 DEF NetworkErrorGiveUp
<1>2. CASE AttemptTimeout(c)
  BY <1>2 DEF AttemptTimeout
<1>3. CASE Unauthorized(c)
  BY <1>3 DEF Unauthorized
<1>4. CASE NotFound(c)
  BY <1>4 DEF NotFound
<1>5. CASE ParseData(c)
  BY <1>5 DEF ParseData
<1>6. CASE ParseFailure(c)
  BY <1>6 DEF ParseFailure
<1> QED
  BY <1>1, <1>2, <1>3, <1>4, <1>5, <1>6

\* A step of a call, or of RMS on its request, is an abstract step.
LEMMA CallStepRefines ==
  ASSUME IInv, NEW c \in Calls, CallStep(c)
  PROVE  [Promise!Next]_Promise!vars
<1>1. CASE Invoke(c)
  <2>1. \A d \in Calls : /\ Phase(d)' = IF d = c THEN "pending" ELSE Phase(d)
                         /\ Sends(d)' = IF d = c THEN 1 ELSE Sends(d)
    BY <1>1 DEF IInv, TypeOK, CallInv, Invoke, BeginAttempt, Phase, Sends
  <2>2. Phase(c) = "idle" /\ UNCHANGED <<applied, result>>
    BY <1>1 DEF Invoke, Phase
  <2>3. Promise!Invoke(c)
    BY <2>1, <2>2 DEF Promise!Invoke
  <2> QED
    BY <2>3 DEF Promise!Next
<1>2. CASE NextAttempt(c)
  <2>1. \A d \in Calls : /\ Phase(d)' = Phase(d)
                         /\ Sends(d)' = IF d = c THEN Sends(d) + 1 ELSE Sends(d)
    BY <1>2 DEF IInv, TypeOK, NextAttempt, BeginAttempt, Phase, Sends, Sleeping
  <2>2. /\ Phase(c) = "pending" /\ Sends(c) < MaxRetries + 1
        /\ UNCHANGED <<applied, result>>
    BY <1>2, RequestAssumption DEF IInv, TypeOK, NextAttempt, Phase, Sends, Sleeping
  <2>3. Promise!Resend(c)
    BY <2>1, <2>2 DEF Promise!Resend
  <2> QED
    BY <2>3 DEF Promise!Next
<1>3. CASE RmsApplies(c)
  <2>1. \A d \in Calls : Phase(d)' = Phase(d) /\ Sends(d)' = Sends(d)
    BY <1>3 DEF RmsApplies, Phase, Sends
  <2>2. /\ applied' = [applied EXCEPT ![c] = @ + 1]
        /\ UNCHANGED result
        /\ onWire[c] > 0
    BY <1>3 DEF RmsApplies
  <2>3. applied[c] < Sends(c)
    BY <2>2 DEF IInv, TypeOK, CallInv, Sends
  <2>4. Promise!Effect(c)
    BY <2>1, <2>2, <2>3 DEF Promise!Effect
  <2> QED
    BY <2>4 DEF Promise!Next
<1>4. CASE AttemptEnds(c)
  BY <1>4, StutterSteps, ReplySteps DEF AttemptEnds, Promise!Next
<1> QED
  BY <1>1, <1>2, <1>3, <1>4 DEF CallStep

\* async_request keeps the promise of RmsCall: bounded sends, no effect without
\* a send, exactly one outcome, and "not found" only where the caller allows it.
THEOREM Refinement == Spec => KeepsPromise
<1>1. Init => Promise!Init
  BY DEF Init, Phase, Sends, Promise!Init
<1>2. IInv /\ [Next]_vars => [Promise!Next]_Promise!vars
  <2>1. ASSUME IInv, NewDay \/ UNCHANGED vars PROVE UNCHANGED Promise!vars
    BY <2>1 DEF NewDay, serverVars, counterVars, vars, Phase, Sends, Promise!vars
  <2> QED
    BY <2>1, CallStepRefines DEF Next, CallStep
<1> QED
  BY <1>1, <1>2, Inductive, PTL DEF Spec, KeepsPromise, Promise!Spec

-------------------------------------------------------------------------------
(* The wait for a status channel *)

\* The invariant holds initially, with or without the socket library.
LEMMA ChannelStarts ==
  ASSUME ChannelInit
  PROVE  ChannelInv
<1> USE ChannelAssumption
<1>1. ChannelTypeOK
  <2>1. phase \in {"token", "polling"} /\ timer \in Nat /\ deadline \in Nat
    BY DEF ChannelInit
  <2>2. connected \in BOOLEAN /\ subscribed \in BOOLEAN /\ missed \in BOOLEAN
    BY DEF ChannelInit
  <2> QED
    BY <2>1, <2>2 DEF ChannelInit, ChannelTypeOK, InSocket, InPolling
<1>2. TimeInv
  BY DEF ChannelInit, TimeInv, InPolling
<1>3. JobInv /\ TruthfulResult /\ DoneIsFound
  BY DEF ChannelInit, JobInv, TruthfulResult, DoneIsFound, Unreported, InPolling
<1> QED
  BY <1>1, <1>2, <1>3 DEF ChannelInv

\* One step of the wait or of its environment keeps the invariant.
LEMMA ChannelStep ==
  ASSUME ChannelInv, [ChannelNext]_channelVars
  PROVE  ChannelInv'
<1> USE ChannelAssumption DEF ChannelInv, ChannelTypeOK, TimeInv, JobInv, TruthfulResult,
            DoneIsFound, InSocket, InPolling, IsTerminal, Unreported, Bound,
            Enter, Finish, BeginPolling, LeaveSocket, CloseSocket, remote, local
<1>1. CASE Token
  <2> USE <1>1 DEF Token
  <2>1. ChannelTypeOK'
    OBVIOUS
  <2>2. TimeInv'
    OBVIOUS
  <2>3. JobInv' /\ TruthfulResult' /\ DoneIsFound'
    OBVIOUS
  <2> QED
    BY <2>1, <2>2, <2>3
<1>2. CASE NoToken
  <2> USE <1>2 DEF NoToken
  <2>1. ChannelTypeOK'
    OBVIOUS
  <2>2. TimeInv'
    OBVIOUS
  <2>3. JobInv' /\ TruthfulResult' /\ DoneIsFound'
    OBVIOUS
  <2> QED
    BY <2>1, <2>2, <2>3
<1>3. CASE TokenError
  <2> USE <1>3 DEF TokenError
  <2>1. ChannelTypeOK'
    OBVIOUS
  <2>2. TimeInv'
    OBVIOUS
  <2>3. JobInv' /\ TruthfulResult' /\ DoneIsFound'
    OBVIOUS
  <2> QED
    BY <2>1, <2>2, <2>3
<1>4. CASE Connect
  <2> USE <1>4 DEF Connect
  <2>1. ChannelTypeOK'
    OBVIOUS
  <2>2. TimeInv'
    OBVIOUS
  <2>3. JobInv' /\ TruthfulResult' /\ DoneIsFound'
    OBVIOUS
  <2> QED
    BY <2>1, <2>2, <2>3
<1>5. CASE ConnectError
  <2> USE <1>5 DEF ConnectError
  <2>1. ChannelTypeOK'
    OBVIOUS
  <2>2. TimeInv'
    OBVIOUS
  <2>3. JobInv' /\ TruthfulResult' /\ DoneIsFound'
    OBVIOUS
  <2> QED
    BY <2>1, <2>2, <2>3
<1>6. CASE Subscribe
  <2> USE <1>6 DEF Subscribe
  <2>1. ChannelTypeOK'
    OBVIOUS
  <2>2. TimeInv'
    OBVIOUS
  <2>3. JobInv' /\ TruthfulResult' /\ DoneIsFound'
    OBVIOUS
  <2> QED
    BY <2>1, <2>2, <2>3
<1>7. CASE Deliver
  <2> USE <1>7 DEF Deliver
  <2>1. ChannelTypeOK'
    OBVIOUS
  <2>2. TimeInv'
    OBVIOUS
  <2>3. JobInv' /\ TruthfulResult' /\ DoneIsFound'
    OBVIOUS
  <2> QED
    BY <2>1, <2>2, <2>3
<1>8. CASE WaitDone
  <2> USE <1>8 DEF WaitDone
  <2>1. ChannelTypeOK'
    OBVIOUS
  <2>2. TimeInv'
    OBVIOUS
  <2>3. JobInv' /\ TruthfulResult' /\ DoneIsFound'
    OBVIOUS
  <2> QED
    BY <2>1, <2>2, <2>3
<1>9. CASE WaitTimeout
  <2> USE <1>9 DEF WaitTimeout
  <2>1. ChannelTypeOK'
    OBVIOUS
  <2>2. TimeInv'
    OBVIOUS
  <2>3. JobInv' /\ TruthfulResult' /\ DoneIsFound'
    OBVIOUS
  <2> QED
    BY <2>1, <2>2, <2>3
<1>10. CASE Disconnect
  <2> USE <1>10 DEF Disconnect
  <2>1. ChannelTypeOK'
    <3>1. connected' \in BOOLEAN /\ subscribed' \in BOOLEAN
      OBVIOUS
    <3>2. CASE future = "set"
      BY <3>1, <3>2
    <3>3. CASE future # "set"
      BY <3>1, <3>3
    <3> QED
      BY <3>2, <3>3
  <2>2. TimeInv'
    OBVIOUS
  <2>3. JobInv' /\ TruthfulResult' /\ DoneIsFound'
    OBVIOUS
  <2> QED
    BY <2>1, <2>2, <2>3
<1>11. CASE DisconnectError
  <2> USE <1>11 DEF DisconnectError
  <2>1. ChannelTypeOK'
    OBVIOUS
  <2>2. TimeInv'
    OBVIOUS
  <2>3. JobInv' /\ TruthfulResult' /\ DoneIsFound'
    OBVIOUS
  <2> QED
    BY <2>1, <2>2, <2>3
<1>12. CASE PollTerminal
  <2> USE <1>12 DEF PollTerminal
  <2>1. ChannelTypeOK'
    OBVIOUS
  <2>2. TimeInv'
    OBVIOUS
  <2>3. JobInv' /\ TruthfulResult' /\ DoneIsFound'
    OBVIOUS
  <2> QED
    BY <2>1, <2>2, <2>3
<1>13. CASE PollAgain
  <2> USE <1>13 DEF PollAgain
  <2>1. ChannelTypeOK'
    OBVIOUS
  <2>2. TimeInv'
    OBVIOUS
  <2>3. JobInv' /\ TruthfulResult' /\ DoneIsFound'
    OBVIOUS
  <2> QED
    BY <2>1, <2>2, <2>3
<1>14. CASE PollError
  <2> USE <1>14 DEF PollError
  <2>1. ChannelTypeOK'
    OBVIOUS
  <2>2. TimeInv'
    OBVIOUS
  <2>3. JobInv' /\ TruthfulResult' /\ DoneIsFound'
    OBVIOUS
  <2> QED
    BY <2>1, <2>2, <2>3
<1>15. CASE WakeUp
  <2> USE <1>15 DEF WakeUp
  <2>1. ChannelTypeOK'
    OBVIOUS
  <2>2. TimeInv'
    OBVIOUS
  <2>3. JobInv' /\ TruthfulResult' /\ DoneIsFound'
    OBVIOUS
  <2> QED
    BY <2>1, <2>2, <2>3
<1>16. CASE Tick
  <2> USE <1>16 DEF Tick
  <2>1. ChannelTypeOK'
    OBVIOUS
  <2>2. TimeInv'
    OBVIOUS
  <2>3. JobInv' /\ TruthfulResult' /\ DoneIsFound'
    OBVIOUS
  <2> QED
    BY <2>1, <2>2, <2>3
<1>17. CASE JobEnds
  <2> USE <1>17 DEF JobEnds
  <2>1. ChannelTypeOK'
    OBVIOUS
  <2>2. TimeInv'
    OBVIOUS
  <2>3. JobInv' /\ TruthfulResult' /\ DoneIsFound'
    OBVIOUS
  <2> QED
    BY <2>1, <2>2, <2>3
<1>18. CASE JobProgress
  <2> USE <1>18 DEF JobProgress
  <2>1. ChannelTypeOK'
    OBVIOUS
  <2>2. TimeInv'
    OBVIOUS
  <2>3. JobInv' /\ TruthfulResult' /\ DoneIsFound'
    OBVIOUS
  <2> QED
    BY <2>1, <2>2, <2>3
<1>19. CASE SubscriptionArrives
  <2> USE <1>19 DEF SubscriptionArrives
  <2>1. ChannelTypeOK'
    OBVIOUS
  <2>2. TimeInv'
    OBVIOUS
  <2>3. JobInv' /\ TruthfulResult' /\ DoneIsFound'
    OBVIOUS
  <2> QED
    BY <2>1, <2>2, <2>3
<1>20. CASE RmsReads
  <2> USE <1>20 DEF RmsReads
  <2>1. ChannelTypeOK'
    OBVIOUS
  <2>2. TimeInv'
    OBVIOUS
  <2>3. JobInv'
    <3>1. payload' \subseteq ended /\ ended' = ended /\ wire' = wire
      OBVIOUS
    <3>2. payload' = {} => ~Unreported'
      OBVIOUS
    <3> QED
      BY <3>1, <3>2
  <2>4. TruthfulResult' /\ DoneIsFound'
    OBVIOUS
  <2> QED
    BY <2>1, <2>2, <2>3, <2>4
<1>21. CASE SocketDrops
  <2> USE <1>21 DEF SocketDrops
  <2>1. ChannelTypeOK'
    OBVIOUS
  <2>2. TimeInv'
    OBVIOUS
  <2>3. JobInv' /\ TruthfulResult' /\ DoneIsFound'
    OBVIOUS
  <2> QED
    BY <2>1, <2>2, <2>3
<1>22. CASE UNCHANGED channelVars
  BY <1>22 DEF channelVars
<1> QED
  BY <1>1, <1>2, <1>3, <1>4, <1>5, <1>6, <1>7, <1>8, <1>9, <1>10, <1>11,
     <1>12, <1>13, <1>14, <1>15, <1>16, <1>17, <1>18, <1>19, <1>20, <1>21, <1>22
     DEF ChannelNext, WaitStep

\* The inductive invariant holds in every reachable state.
THEOREM ChannelInductive == ChannelSpec => []ChannelInv
  BY ChannelStarts, ChannelStep, PTL DEF ChannelSpec

\* Types.
THEOREM ChannelTypes == ChannelSpec => []ChannelTypeOK
<1>1. ChannelInv => ChannelTypeOK
  BY DEF ChannelInv
<1> QED
  BY <1>1, ChannelInductive, PTL

\* A payload names a device at least, and only devices that are through.
THEOREM Truthful == ChannelSpec => []TruthfulResult
<1>1. ChannelInv => TruthfulResult
  BY DEF ChannelInv
<1> QED
  BY <1>1, ChannelInductive, PTL

\* The wait never outlasts the sum of its budgets.
THEOREM Bounded == ChannelSpec => []WaitBounded
<1>1. ChannelInv => WaitBounded
  BY ChannelAssumption
     DEF ChannelInv, ChannelTypeOK, TimeInv, WaitBounded, Bound, InSocket, InPolling
<1> QED
  BY <1>1, ChannelInductive, PTL

\* Polling finds every job that is through a poll and an interval before the
\* deadline, unless RMS answers a poll without a status.
THEOREM Found == ChannelSpec => []DoneIsFound
<1>1. ChannelInv => DoneIsFound
  BY DEF ChannelInv
<1> QED
  BY <1>1, ChannelInductive, PTL

\* No socket outlives the socket phase but one whose disconnect failed.
THEOREM Closed == ChannelSpec => []SocketClosed
<1>1. ChannelInv => SocketClosed
  BY DEF ChannelInv, JobInv, SocketClosed, InPolling
<1> QED
  BY <1>1, ChannelInductive, PTL
===============================================================================
