---------------------------- MODULE RequestReply ----------------------------
(***************************************************************************)
(* What a caller of client.request() is promised, with no broker, socket   *)
(* or table in sight: a call is settled once, it is answered only with a   *)
(* reply its recipient made to it, and its recipient works on it only if   *)
(* it was called.  Work may go on after the call failed: a transport error *)
(* "does not prove whether application work ran" (docs/local-messaging.md).*)
(***************************************************************************)
CONSTANT CallId

VARIABLES
  call,  \* call[r]: "idle", "waiting", "answered" or "failed", at the requester
  work   \* work[r]: "none", "arrived" or "replied", at the recipient

rrVars == <<call, work>>

RRInit ==
  /\ call = [r \in CallId |-> "idle"]
  /\ work = [r \in CallId |-> "none"]

\* A call starts to wait, or is refused on the spot.
Call(r) ==
  /\ call[r] = "idle"
  /\ \E s \in {"waiting", "failed"} : call' = [call EXCEPT ![r] = s]
  /\ UNCHANGED work

\* One lost connection fails every call that depends on it, and whoever takes a frame
\* off a connection may lose it by that very step.
Waiting == {r \in CallId : call[r] = "waiting"}
Failing(oc, lost) == [r \in CallId |-> IF r \in lost THEN "failed" ELSE oc[r]]

Arrive(r, lost) ==
  /\ call[r] # "idle"
  /\ work[r] = "none"
  /\ work' = [work EXCEPT ![r] = "arrived"]
  /\ call' = Failing(call, lost)

Respond(r) ==
  /\ work[r] = "arrived"
  /\ work' = [work EXCEPT ![r] = "replied"]
  /\ UNCHANGED call

Answer(r, lost) ==
  /\ call[r] = "waiting"
  /\ work[r] = "replied"
  /\ call' = Failing([call EXCEPT ![r] = "answered"], lost \ {r})
  /\ UNCHANGED work

Fail(lost) ==
  /\ call' = Failing(call, lost)
  /\ UNCHANGED work

RRNext ==
  \/ \E r \in CallId : Call(r) \/ Respond(r)
  \/ \E lost \in SUBSET Waiting :
       Fail(lost) \/ \E r \in CallId : Arrive(r, lost) \/ Answer(r, lost)

RRSpec == RRInit /\ [][RRNext]_rrVars
=============================================================================
