------------------------------ MODULE RmsRequest ------------------------------
(***************************************************************************)
(* RmsApiClient.async_request (custom_components/teltonika_rms/api.py):    *)
(* the retry loop every RMS call goes through, the classification of each  *)
(* attempt, the release of its response and the 30-day request counter.    *)
(*                                                                         *)
(* Several calls run at once: the coordinators refresh concurrently on one *)
(* event loop and share the client.  A step is the code between two awaits.*)
(* The network and RMS are the environment: RMS may carry out a request    *)
(* whose answer is lost, or long after the caller gave up, and an answer   *)
(* says nothing of whether RMS did: any body of a status below 400 is data.*)
(***************************************************************************)
EXTENDS Integers

CONSTANTS
  Calls,        \* the calls made (one refresh or service makes several)
  NotFoundOk,   \* the calls made with allow_not_found=True
  MaxRetries,   \* _MAX_RETRIES
  WindowDays,   \* the 30 days after which the request counter starts again
  MaxDay        \* bound: the last day the model looks at

ASSUME RequestAssumption ==
  /\ NotFoundOk \subseteq Calls
  /\ MaxRetries \in Nat
  /\ WindowDays \in Nat \ {0}
  /\ MaxDay \in Nat

VARIABLES
  pc,             \* where call c is between two awaits
  attempt,        \* the loop variable of async_request
  onWire,         \* copies of the request of c RMS may still carry out
  applied,        \* times RMS carried the request of c out
  held,           \* c holds a response it has not released
  result,         \* what c returned or raised
  requestCounter, \* _request_counter
  windowStart,    \* _request_window_start, in days
  today,          \* the wall clock, in days
  sentBefore      \* history: attempts made before each day

serverVars  == <<onWire, applied>>
counterVars == <<requestCounter, windowStart, sentBefore>>
vars == <<pc, attempt, onWire, applied, held, result,
          requestCounter, windowStart, today, sentBefore>>

Outcomes == {"ok", "notFound", "authFailed", "apiError", "timeout"}

\* "backoff" is a sleep of _retry_delay, "retryAfter" one RMS asked for
Reading  == {"readingBody", "readingError"}
Sleeping == {"backoff", "retryAfter"}
Busy     == {"sent"} \cup Reading \cup Sleeping

TypeOK ==
  /\ pc \in [Calls -> {"idle", "done"} \cup Busy]
  /\ attempt \in [Calls -> 0..MaxRetries]
  /\ onWire \in [Calls -> Nat]
  /\ applied \in [Calls -> Nat]
  /\ held \in [Calls -> BOOLEAN]
  /\ result \in [Calls -> Outcomes \cup {"none"}]
  /\ requestCounter \in Nat
  /\ windowStart \in 0..MaxDay
  /\ today \in 0..MaxDay
  /\ sentBefore \in [0..MaxDay + 1 -> Nat]

Init ==
  /\ pc = [c \in Calls |-> "idle"]
  /\ attempt = [c \in Calls |-> 0]
  /\ onWire = [c \in Calls |-> 0]
  /\ applied = [c \in Calls |-> 0]
  /\ held = [c \in Calls |-> FALSE]
  /\ result = [c \in Calls |-> "none"]
  /\ requestCounter = 0
  /\ windowStart = 0
  /\ today = 0
  /\ sentBefore = [d \in 0..MaxDay + 1 |-> 0]

-------------------------------------------------------------------------------
(* The pieces the steps are made of *)

\* _increment_request_counter: the window moves, then the attempt is counted
WindowOver == today - windowStart >= WindowDays

\* Mutant: the start of the window is not moved
IncrementRequestCounter_keepsStart ==
  /\ requestCounter' = IF WindowOver THEN 1 ELSE requestCounter + 1
  /\ UNCHANGED windowStart
  /\ sentBefore' = [d \in 0..MaxDay + 1 |->
                      IF d > today THEN sentBefore[d] + 1 ELSE sentBefore[d]]

IncrementRequestCounter ==
  /\ requestCounter' = IF WindowOver THEN 1 ELSE requestCounter + 1
  /\ windowStart' = IF WindowOver THEN today ELSE windowStart
  /\ sentBefore' = [d \in 0..MaxDay + 1 |->
                      IF d > today THEN sentBefore[d] + 1 ELSE sentBefore[d]]

\* Mutant: the retry is not counted
BeginAttempt_notCounted(c, n) ==
  /\ pc' = [pc EXCEPT ![c] = "sent"]
  /\ onWire' = [onWire EXCEPT ![c] = @ + 1]
  /\ UNCHANGED attempt
  /\ IncrementRequestCounter

\* The head of the loop body up to the await of auth.async_request
BeginAttempt(c, n) ==
  /\ pc' = [pc EXCEPT ![c] = "sent"]
  /\ attempt' = [attempt EXCEPT ![c] = n]
  /\ onWire' = [onWire EXCEPT ![c] = @ + 1]
  /\ IncrementRequestCounter

\* Mutant: no finally clause
Return_notReleased(c, outcome) ==
  /\ pc' = [pc EXCEPT ![c] = "done"]
  /\ result' = [result EXCEPT ![c] = outcome]
  /\ UNCHANGED <<held, attempt>>

\* return or raise; the finally clause releases the response
Return(c, outcome) ==
  /\ pc' = [pc EXCEPT ![c] = "done"]
  /\ result' = [result EXCEPT ![c] = outcome]
  /\ held' = [held EXCEPT ![c] = FALSE]
  /\ UNCHANGED attempt

\* asyncio.sleep before the next attempt
Sleep(c, phase, holding) ==
  /\ pc' = [pc EXCEPT ![c] = phase]
  /\ held' = [held EXCEPT ![c] = holding]
  /\ UNCHANGED <<attempt, result>>

\* The headers are in and the body has still to be read
ReadBody(c, phase) ==
  /\ pc' = [pc EXCEPT ![c] = phase]
  /\ held' = [held EXCEPT ![c] = TRUE]
  /\ UNCHANGED <<attempt, result>>

-------------------------------------------------------------------------------
(* Steps of a call *)

Invoke(c) ==
  /\ pc[c] = "idle"
  /\ BeginAttempt(c, 0)
  /\ UNCHANGED <<applied, held, result, today>>

\* except ClientError, retries left: the connection, the token refresh or the
\* reading of a body failed
NetworkErrorRetry(c) ==
  /\ pc[c] \in {"sent"} \cup Reading
  /\ attempt[c] < MaxRetries
  /\ Sleep(c, "backoff", FALSE)
  /\ UNCHANGED <<serverVars, counterVars, today>>

NetworkErrorGiveUp(c) ==
  /\ pc[c] \in {"sent"} \cup Reading
  /\ attempt[c] >= MaxRetries
  /\ Return(c, "apiError")
  /\ UNCHANGED <<serverVars, counterVars, today>>

\* asyncio.timeout or the total timeout of the session: TimeoutError is no
\* ClientError, so it leaves the loop at once
AttemptTimeout(c) ==
  /\ pc[c] \in {"sent"} \cup Reading
  /\ Return(c, "timeout")
  /\ UNCHANGED <<serverVars, counterVars, today>>

\* 401 or 403: ConfigEntryAuthFailed
Unauthorized(c) ==
  /\ pc[c] = "sent"
  /\ Return(c, "authFailed")
  /\ UNCHANGED <<serverVars, counterVars, today>>

\* 404 with allow_not_found: (None, {})
NotFound(c) ==
  /\ pc[c] = "sent"
  /\ c \in NotFoundOk
  /\ Return(c, "notFound")
  /\ UNCHANGED <<serverVars, counterVars, today>>

\* Mutant: "and attempt < _MAX_RETRIES" is missing
RetriableStatus_always(c) ==
  /\ pc[c] = "sent"
  /\ Sleep(c, "backoff", TRUE)
  /\ UNCHANGED <<serverVars, counterVars, today>>

\* 429, 500, 502, 503 or 504 with retries left: the response is held while
\* _async_retry_sleep waits, for Retry-After if the header is there and a number
RetriableStatus(c) ==
  /\ pc[c] = "sent"
  /\ attempt[c] < MaxRetries
  /\ \E phase \in Sleeping : Sleep(c, phase, TRUE)
  /\ UNCHANGED <<serverVars, counterVars, today>>

\* Any other status of 400 and more, or one of these on the last attempt
ErrorStatus(c) ==
  /\ pc[c] = "sent"
  /\ ReadBody(c, "readingError")
  /\ UNCHANGED <<serverVars, counterVars, today>>

SuccessStatus(c) ==
  /\ pc[c] = "sent"
  /\ ReadBody(c, "readingBody")
  /\ UNCHANGED <<serverVars, counterVars, today>>

\* _parse_envelope returns whatever the body holds as data, a text that does not
\* parse ({"raw": text}) and an envelope without "success" included
ParseData(c) ==
  /\ pc[c] = "readingBody"
  /\ Return(c, "ok")
  /\ UNCHANGED <<serverVars, counterVars, today>>

\* RmsApiError of an error status, or of "success": false
ParseFailure(c) ==
  /\ pc[c] \in Reading
  /\ Return(c, "apiError")
  /\ UNCHANGED <<serverVars, counterVars, today>>

\* The sleep is over (the finally clause releases a held response) and the
\* loop goes on; after the last attempt it would fall through to "Unexpected
\* retry exhaustion", which NeverExhausted rules out
NextAttempt(c) ==
  /\ pc[c] \in Sleeping
  /\ attempt[c] < MaxRetries
  /\ BeginAttempt(c, attempt[c] + 1)
  /\ held' = [held EXCEPT ![c] = FALSE]
  /\ UNCHANGED <<applied, result, today>>

-------------------------------------------------------------------------------
(* Steps of the environment *)

\* While the call waits for the answer, or long after it gave up
RmsApplies(c) ==
  /\ onWire[c] > 0
  /\ onWire' = [onWire EXCEPT ![c] = @ - 1]
  /\ applied' = [applied EXCEPT ![c] = @ + 1]
  /\ UNCHANGED <<pc, attempt, held, result, counterVars, today>>

NewDay ==
  /\ today < MaxDay
  /\ today' = today + 1
  /\ UNCHANGED <<pc, attempt, serverVars, held, result, counterVars>>

-------------------------------------------------------------------------------
\* What ends an attempt: an answer, a network error or the timeout
AttemptEnds(c) ==
  \/ NetworkErrorRetry(c) \/ NetworkErrorGiveUp(c) \/ AttemptTimeout(c)
  \/ Unauthorized(c) \/ NotFound(c)
  \/ RetriableStatus(c) \/ ErrorStatus(c)
  \/ SuccessStatus(c) \/ ParseData(c) \/ ParseFailure(c)

Next ==
  \/ \E c \in Calls : \/ Invoke(c) \/ AttemptEnds(c) \/ NextAttempt(c)
                      \/ RmsApplies(c)
  \/ NewDay

Spec == Init /\ [][Next]_vars

\* _retry_delay is at most 30.5 seconds; a Retry-After may be "inf"
BackoffEnds(c) == pc[c] = "backoff" /\ NextAttempt(c)

(* The event loop runs what is ready, a backoff ends, and asyncio.timeout    *)
(* ends an attempt no answer ends.  Nothing is assumed of RMS, not even that *)
(* the sleep it asks for ends.                                               *)
FairSpec ==
  Spec /\ \A c \in Calls : WF_vars(AttemptEnds(c)) /\ WF_vars(BackoffEnds(c))

-------------------------------------------------------------------------------
(* Properties *)

\* Requests put on the wire for call c
Sends(c) == IF pc[c] = "idle" THEN 0 ELSE attempt[c] + 1

\* RMS never carries a request out more often than async_request sent it, the
\* copies that outlive a timed-out or retried attempt included: at most
\* _MAX_RETRIES + 1 reboots for one press of the button.
EffectBound == \A c \in Calls : applied[c] <= Sends(c)

\* No path sleeps after the last attempt, so the loop never falls through to
\* the RmsApiError("Unexpected retry exhaustion") behind it, and no caller
\* waits for a retry that does not come.
NeverExhausted == \A c \in Calls : pc[c] \in Sleeping => attempt[c] < MaxRetries

\* The finally clause of _async_perform_request_attempt releases the response
\* on each of its exits: a call holds one only while it reads the body or
\* sleeps for Retry-After, never when it sends the next attempt or is over.
ResponseReleased == \A c \in Calls : pc[c] \in {"idle", "sent", "done"} => ~held[c]

\* The counter is what its docstring says, a rolling count: the attempts made
\* since the day its window started, whichever of the concurrent callers made
\* them and however the days and the restart of the window fall between them.
CounterIsWindow == requestCounter = sentBefore[today + 1] - sentBefore[windowStart]

\* What makes it inductive: a window that is over has counted nothing today, so
\* that the restart drops no attempt of the day the new window begins on.
CounterInv ==
  /\ windowStart <= today
  /\ \A d \in today + 1..MaxDay + 1 : sentBefore[d] = sentBefore[today + 1]
  /\ WindowOver => sentBefore[today + 1] = sentBefore[today]
  /\ CounterIsWindow

\* What the place of a call says of its result, its retries and the copies of its
\* request: inductive, as EffectBound alone is not.
CallInv(c) ==
  /\ pc[c] = "idle" => attempt[c] = 0
  /\ pc[c] # "done" => result[c] = "none"
  /\ pc[c] \in Sleeping => attempt[c] < MaxRetries
  /\ pc[c] \in {"idle", "sent", "done"} => ~held[c]
  /\ applied[c] + onWire[c] <= Sends(c)

IInv ==
  /\ TypeOK
  /\ CounterInv
  /\ \A c \in Calls : CallInv(c)

\* Awaits left to call c: three an attempt (the headers, the body, the sleep)
AwaitsLeft(c) ==
  CASE pc[c] = "idle"      -> 3 * (MaxRetries + 1) + 1
    [] pc[c] = "sent"      -> 3 * (MaxRetries - attempt[c]) + 3
    [] pc[c] \in Reading   -> 3 * (MaxRetries - attempt[c]) + 2
    [] pc[c] \in Sleeping  -> 3 * (MaxRetries - attempt[c]) + 1
    [] pc[c] = "done"      -> 0

\* No step takes a call back to an await it has been through: each brings it
\* nearer its end, whatever the other calls and RMS do in between, so it has
\* ended after at most three awaits per attempt.
Advances(c) ==
  pc'[c] # pc[c] \/ attempt'[c] # attempt[c] => AwaitsLeft(c)' < AwaitsLeft(c)

CallAdvances == [][\A c \in Calls : Advances(c)]_vars

\* Every call returns or raises whatever RMS and the network do, unless RMS makes
\* it sleep for ever: Retry-After has no upper bound and "inf" is a number.
CallReturns ==
  \A c \in Calls : []<>(pc[c] # "retryAfter") => (pc[c] = "sent" ~> pc[c] = "done")

\* Where RmsCall sees call c
Phase(c) == CASE pc[c] = "idle" -> "idle"
              [] pc[c] = "done" -> "returned"
              [] OTHER -> "pending"

\* async_request implements the promise of RmsCall.
Promise == INSTANCE RmsCall WITH
  MaxSends <- MaxRetries + 1,
  phase    <- [c \in Calls |-> Phase(c)],
  sends    <- [c \in Calls |-> Sends(c)],
  effects  <- applied,
  reply    <- result

KeepsPromise == Promise!Spec
===============================================================================
