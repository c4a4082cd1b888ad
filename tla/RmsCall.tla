------------------------------- MODULE RmsCall -------------------------------
(***************************************************************************)
(* What RmsApiClient.async_request promises to its callers, without saying *)
(* how: every call puts at most MaxSends requests on the wire, RMS carries *)
(* a request out at most once for each time it was sent (perhaps after the *)
(* caller has gone), and the call returns exactly one outcome.  No outcome *)
(* says whether RMS carried the request out.                               *)
(***************************************************************************)
EXTENDS Integers

CONSTANTS
  Calls,      \* the calls of async_request made while Home Assistant runs
  NotFoundOk, \* the calls a 404 is no error for
  Outcomes,   \* what a call may return or raise
  MaxSends    \* requests one call may put on the wire

VARIABLES
  phase,      \* phase[c]: "idle", "pending" or "returned"
  sends,      \* sends[c]: requests put on the wire for call c
  effects,    \* effects[c]: times RMS carried the request of c out
  reply       \* reply[c]: the outcome of c, "none" until it returns

vars == <<phase, sends, effects, reply>>

Init ==
  /\ phase   = [c \in Calls |-> "idle"]
  /\ sends   = [c \in Calls |-> 0]
  /\ effects = [c \in Calls |-> 0]
  /\ reply   = [c \in Calls |-> "none"]

Invoke(c) ==
  /\ phase[c] = "idle"
  /\ phase' = [phase EXCEPT ![c] = "pending"]
  /\ sends' = [sends EXCEPT ![c] = 1]
  /\ UNCHANGED <<effects, reply>>

Resend(c) ==
  /\ phase[c] = "pending"
  /\ sends[c] < MaxSends
  /\ sends' = [sends EXCEPT ![c] = @ + 1]
  /\ UNCHANGED <<phase, effects, reply>>

Effect(c) ==
  /\ effects[c] < sends[c]
  /\ effects' = [effects EXCEPT ![c] = @ + 1]
  /\ UNCHANGED <<phase, sends, reply>>

Reply(c) ==
  \E r \in Outcomes :
    /\ phase[c] = "pending"
    /\ r = "notFound" => c \in NotFoundOk
    /\ phase' = [phase EXCEPT ![c] = "returned"]
    /\ reply' = [reply EXCEPT ![c] = r]
    /\ UNCHANGED <<sends, effects>>

Next == \E c \in Calls : Invoke(c) \/ Resend(c) \/ Effect(c) \/ Reply(c)

Spec == Init /\ [][Next]_vars
==============================================================================
