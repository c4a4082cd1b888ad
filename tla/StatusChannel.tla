---------------------------- MODULE StatusChannel ----------------------------
(***************************************************************************)
(* RmsStatusChannelManager.async_wait_for_channel (status_channel.py): RMS *)
(* does a job asynchronously, and its outcome is awaited first on a socket *)
(* and then by polling.  One wait, in discrete time: waits share no state. *)
(*                                                                         *)
(* The job runs on one or more devices.  The job, the socket library and   *)
(* RMS are the environment: messages are lost, duplicated, reordered and   *)
(* late, the socket drops, the subscription does not arrive, RMS forgets a *)
(* channel.  What RMS sends for other channels is dropped by _handle when  *)
(* it is tagged, and assumed not to be sent to this socket when it is not. *)
(***************************************************************************)
EXTENDS Integers

CONSTANTS
  Targets,        \* the devices the job of the channel runs on
  TokenTime,      \* the longest async_get_access_token takes
  ConnectTime,    \* the longest client.connect takes (wait_timeout)
  SendTime,       \* the longest client.emit or client.disconnect takes
  SocketBudget,   \* min(20, timeout_seconds)
  PollBudget,     \* timeout_seconds
  PollInterval,   \* the sleep between two polls
  PollTime        \* the longest async_poll_status_channel takes: a bound only as
                  \* long as RMS names no endless Retry-After

ASSUME ChannelAssumption ==
  /\ Targets # {}
  /\ TokenTime \in Nat /\ ConnectTime \in Nat /\ SendTime \in Nat
  /\ SocketBudget \in Nat /\ PollTime \in Nat
  /\ PollBudget \in Nat \ {0} /\ PollInterval \in Nat \ {0}

VARIABLES
  phase,       \* the await the wait is in
  timer,       \* time left in it
  elapsed,     \* time since the wait began
  deadline,    \* when polling ends, 0 before it begins
  connected,   \* the socket is open
  future,      \* the future _handle completes
  payload,     \* the devices reported ended by what the future or a poll holds
  outcome,     \* what the wait returns
  ended,       \* the devices whose part of the job has ended
  endedAt,     \* history: when the last one did, -1 before
  missed,      \* history: a poll was answered by 404 or by no status we know
  subscribed,  \* RMS sends this channel's messages to the socket
  wire         \* messages sent to the socket; delivery leaves them there

local  == <<phase, timer, elapsed, deadline, future, payload, outcome>>
remote == <<ended, endedAt, missed, subscribed, wire>>
channelVars ==
  <<phase, timer, elapsed, deadline, connected, future, payload, outcome,
    ended, endedAt, missed, subscribed, wire>>

InSocket  == {"connecting", "subscribing", "waiting", "disconnecting"}
InPolling == {"polling", "answered", "sleeping"}

ChannelTypeOK ==
  /\ phase \in {"token", "done"} \cup InSocket \cup InPolling
  /\ timer \in Nat
  /\ elapsed \in Nat
  /\ deadline \in Nat
  /\ connected \in BOOLEAN
  /\ future \in {"pending", "set", "cancelled"}
  /\ payload \subseteq Targets
  /\ outcome \in {"waiting", "none", "raised", "payload"}
  /\ ended \subseteq Targets
  /\ endedAt \in Nat \cup {-1}
  /\ missed \in BOOLEAN
  /\ subscribed \in BOOLEAN
  /\ wire \subseteq SUBSET Targets

\* _is_terminal: a flat status speaks for the whole job, but a payload grouped
\* by device is terminal as soon as the last event of one device is
IsTerminal(reported) == reported # {}

-------------------------------------------------------------------------------
(* The pieces the steps are made of *)

Enter(place, time) == phase' = place /\ timer' = time

Finish(how) ==
  /\ Enter("done", 0)
  /\ outcome' = how

\* _async_wait_via_polling up to its first request: the deadline lies ahead
BeginPolling ==
  /\ deadline' = elapsed + PollBudget
  /\ Enter("polling", PollTime)

\* A payload of the socket is returned, None falls back to polling
LeaveSocket(found) ==
  IF found THEN Finish("payload") /\ UNCHANGED deadline
           ELSE BeginPolling /\ UNCHANGED outcome

\* The finally clause awaits the disconnect of a socket that is still open
CloseSocket(found) ==
  IF connected THEN Enter("disconnecting", SendTime) /\ UNCHANGED <<deadline, outcome>>
               ELSE LeaveSocket(found)

ChannelInit ==
  /\ \/ phase = "token" /\ timer = TokenTime /\ deadline = 0
     \/ phase = "polling" /\ timer = PollTime /\ deadline = PollBudget \* no socketio
  /\ elapsed = 0
  /\ connected = FALSE
  /\ future = "pending"
  /\ payload = {}
  /\ outcome = "waiting"
  /\ ended = {}
  /\ endedAt = -1
  /\ missed = FALSE
  /\ subscribed = FALSE
  /\ wire = {}

-------------------------------------------------------------------------------
(* Steps of the wait *)

Token ==
  /\ phase = "token"
  /\ Enter("connecting", ConnectTime)
  /\ UNCHANGED <<elapsed, deadline, connected, future, payload, outcome, remote>>

\* A PAT client without a token
NoToken ==
  /\ phase = "token"
  /\ BeginPolling
  /\ UNCHANGED <<elapsed, connected, future, payload, outcome, remote>>

\* The token refresh fails before the try block: no fallback
TokenError ==
  /\ phase = "token"
  /\ Finish("raised")
  /\ UNCHANGED <<elapsed, deadline, connected, future, payload, remote>>

Connect ==
  /\ phase = "connecting"
  /\ connected' = TRUE
  /\ Enter("subscribing", SendTime)
  /\ UNCHANGED <<elapsed, deadline, future, payload, outcome, remote>>

ConnectError ==
  /\ phase = "connecting"
  /\ BeginPolling
  /\ UNCHANGED <<elapsed, connected, future, payload, outcome, remote>>

\* client.emit is over; its error is swallowed
Subscribe ==
  /\ phase = "subscribing"
  /\ Enter("waiting", SocketBudget)
  /\ UNCHANGED <<elapsed, deadline, connected, future, payload, outcome, remote>>

\* Mutant: any message completes the future
Deliver_anyMessage ==
  /\ connected
  /\ future = "pending"
  /\ future' = "set"
  /\ payload' \in wire
  /\ UNCHANGED <<phase, timer, elapsed, deadline, connected, outcome, remote>>

\* _handle: only a terminal message completes the future, and only once
Deliver ==
  /\ connected
  /\ future = "pending"
  /\ future' = "set"
  /\ payload' \in {message \in wire : IsTerminal(message)}
  /\ UNCHANGED <<phase, timer, elapsed, deadline, connected, outcome, remote>>

\* asyncio.wait_for returns what the future holds ...
WaitDone ==
  /\ phase = "waiting"
  /\ future = "set"
  /\ CloseSocket(TRUE)
  /\ UNCHANGED <<elapsed, connected, future, payload, remote>>

\* Mutant: the future is awaited without wait_for
WaitTimeout_never == FALSE /\ UNCHANGED channelVars

\* ... or gives up when the budget is spent; a payload set in the same turn of
\* the event loop is dropped with it
WaitTimeout ==
  /\ phase = "waiting"
  /\ timer = 0
  /\ future' = "cancelled"
  /\ payload' = {}
  /\ CloseSocket(FALSE)
  /\ UNCHANGED <<elapsed, connected, remote>>

Disconnect ==
  /\ phase = "disconnecting"
  /\ connected' = FALSE
  /\ subscribed' = FALSE
  /\ LeaveSocket(future = "set")
  /\ UNCHANGED <<elapsed, future, payload, ended, endedAt, missed, wire>>

\* An error of the disconnect replaces the payload or the fallback
DisconnectError ==
  /\ phase = "disconnecting"
  /\ Finish("raised")
  /\ UNCHANGED <<elapsed, deadline, connected, future, payload, remote>>

\* async_poll_status_channel returns a terminal status ...
PollTerminal ==
  /\ phase = "answered"
  /\ IsTerminal(payload)
  /\ Finish("payload")
  /\ UNCHANGED <<elapsed, deadline, connected, future, payload, remote>>

\* Mutant: a status the terminal check does not know
PollAgain_unrecognized ==
  /\ phase = "answered"
  /\ Enter("sleeping", PollInterval)
  /\ payload' = {}
  /\ UNCHANGED <<elapsed, deadline, connected, future, outcome, remote>>

\* ... or one that is not, or None
PollAgain ==
  /\ phase = "answered"
  /\ ~IsTerminal(payload)
  /\ Enter("sleeping", PollInterval)
  /\ UNCHANGED <<elapsed, deadline, connected, future, payload, outcome, remote>>

\* RmsApiError, ConfigEntryAuthFailed and TimeoutError end the wait
PollError ==
  /\ phase \in {"polling", "answered"}
  /\ Finish("raised")
  /\ UNCHANGED <<elapsed, deadline, connected, future, payload, remote>>

\* Mutant: the deadline is computed in the loop
WakeUp_slides ==
  /\ phase = "sleeping"
  /\ timer = 0
  /\ BeginPolling
  /\ UNCHANGED <<elapsed, connected, future, payload, outcome, remote>>

\* asyncio.sleep(2) is over and the deadline is looked at
WakeUp ==
  /\ phase = "sleeping"
  /\ timer = 0
  /\ IF elapsed < deadline
     THEN Enter("polling", PollTime) /\ UNCHANGED outcome
     ELSE Finish("none")
  /\ UNCHANGED <<elapsed, deadline, connected, future, payload, remote>>

-------------------------------------------------------------------------------
(* Steps of the environment *)

\* Time passes while the wait may stay where it is: wait_for wakes up at once
Tick ==
  /\ timer > 0
  /\ ~(phase = "waiting" /\ future = "set")
  /\ timer' = timer - 1
  /\ elapsed' = elapsed + 1
  /\ UNCHANGED <<phase, deadline, connected, future, payload, outcome, remote>>

\* The job is over on one device; the message tells of it alone or of all so far
JobEnds ==
  \E device \in Targets \ ended :
    /\ ended' = ended \cup {device}
    /\ endedAt' = IF ended' = Targets THEN elapsed ELSE endedAt
    /\ IF subscribed THEN \E message \in {{device}, ended'} : wire' = wire \cup {message}
                     ELSE UNCHANGED wire
    /\ UNCHANGED <<local, connected, missed, subscribed>>

JobProgress ==
  /\ ended # Targets
  /\ subscribed
  /\ wire' = wire \cup {{}}
  /\ UNCHANGED <<local, connected, ended, endedAt, missed, subscribed>>

\* The "subscribe" event reaches RMS, perhaps after emit has returned
SubscriptionArrives ==
  /\ phase \in {"subscribing", "waiting"}
  /\ connected
  /\ subscribed' = TRUE
  /\ UNCHANGED <<local, connected, ended, endedAt, missed, wire>>

\* RMS reads the channel for a poll; its answer takes the rest of the time.  The
\* status is grouped by device, or flat and terminal when all devices are
\* through, or there is none: the channel is forgotten or the body unknown.
RmsReads ==
  /\ phase = "polling"
  /\ phase' = "answered"
  /\ \/ payload' = ended /\ UNCHANGED missed
     \/ ended # Targets /\ payload' = {} /\ UNCHANGED missed
     \/ payload' = {} /\ missed' = TRUE
  /\ UNCHANGED <<timer, elapsed, deadline, connected, future, outcome,
                 ended, endedAt, subscribed, wire>>

SocketDrops ==
  /\ connected
  /\ connected' = FALSE
  /\ subscribed' = FALSE
  /\ UNCHANGED <<local, ended, endedAt, missed, wire>>

-------------------------------------------------------------------------------
\* What the event loop does as soon as an await is over
WaitStep ==
  \/ Token \/ NoToken \/ TokenError \/ Connect \/ ConnectError \/ Subscribe
  \/ WaitDone \/ WaitTimeout \/ Disconnect \/ DisconnectError
  \/ PollTerminal \/ PollAgain \/ PollError \/ WakeUp

ChannelNext ==
  \/ WaitStep \/ Deliver \/ Tick
  \/ JobEnds \/ JobProgress \/ SubscriptionArrives \/ RmsReads \/ SocketDrops

ChannelSpec == ChannelInit /\ [][ChannelNext]_channelVars

(* Time passes, and an await whose time is up ends.  Nothing is assumed of RMS *)
(* and the network but that a poll ends, if only in an error: no message need  *)
(* arrive and no job need end.                                                 *)
FairChannelSpec == ChannelSpec /\ WF_channelVars(Tick) /\ WF_channelVars(WaitStep)

-------------------------------------------------------------------------------
(* Properties *)

\* The wait reports only what has happened: the devices its payload names are
\* through, and there is one.  Progress messages, duplicates, messages out of
\* order and messages that race the timeout never complete it.  It does not
\* promise that every device is through: see IsTerminal.
TruthfulResult == outcome = "payload" => payload # {} /\ payload \subseteq ended

\* The wait is bounded: socket and polling have a budget each, and the polling
\* deadline is fixed once, so the last poll begins before it.
Bound == TokenTime + ConnectTime + 2 * SendTime + SocketBudget
         + PollBudget + PollTime + PollInterval

WaitBounded == elapsed < Bound

\* Polling makes up for everything the socket loses ("Socket.IO first with HTTP
\* polling as a safe fallback", docs/decisions/0001): a wait gives up on a job
\* that is through on every device only if that happened after the last poll
\* was read, no earlier than a poll and an interval before the deadline, or if
\* RMS answered a poll without a status.
DoneIsFound ==
  outcome = "none" /\ ended = Targets /\ ~missed =>
    endedAt + PollInterval + PollTime >= deadline

\* No socket is left open behind a wait that polls or returns, however the
\* connection, the answer and the timeout raced.
SocketClosed ==
  phase \in InPolling \cup {"done"} /\ outcome # "raised" => ~connected

\* The inductive invariant: what is left of each budget in each phase, and what
\* a future, a message and a poll say of the job.
TimeInv ==
  LET opened == TokenTime + ConnectTime + SendTime
      closed == opened + SocketBudget + SendTime
  IN
  /\ phase = "token" => elapsed + timer <= TokenTime
  /\ phase = "connecting" => elapsed + timer <= TokenTime + ConnectTime
  /\ phase = "subscribing" => elapsed + timer <= opened
  /\ phase = "waiting" => elapsed + timer <= opened + SocketBudget
  /\ phase = "disconnecting" => elapsed + timer <= closed
  /\ phase \in InPolling => deadline <= closed + PollBudget
  /\ phase \in {"polling", "answered"} =>
       timer <= PollTime /\ elapsed + timer < deadline + PollTime
  /\ phase = "sleeping" =>
       timer <= PollInterval /\ elapsed + timer < deadline + PollTime + PollInterval
  /\ phase = "done" => timer = 0 /\ elapsed < Bound

\* Every device is through, and no poll has been answered without a status
Unreported == ended = Targets /\ ~missed

JobInv ==
  /\ ended = Targets => endedAt \in Nat
  /\ payload \subseteq ended
  /\ \A message \in wire : message \subseteq ended
  /\ future = "set" => payload # {} /\ phase \notin {"token", "connecting"} \cup InPolling
  /\ phase = "answered" /\ payload = {} /\ Unreported =>
       endedAt + PollTime >= elapsed + timer
  /\ phase = "sleeping" /\ Unreported =>
       endedAt + PollTime + PollInterval >= elapsed + timer
  /\ outcome = "none" => elapsed >= deadline
  /\ connected => phase \in {"subscribing", "waiting", "disconnecting"} \/ outcome = "raised"
  /\ phase # "done" => outcome = "waiting"

ChannelInv == ChannelTypeOK /\ TimeInv /\ JobInv /\ TruthfulResult /\ DoneIsFound

\* Every wait ends.
WaitEnds == <>(phase = "done")
===============================================================================
