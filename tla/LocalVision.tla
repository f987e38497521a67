---------------------------- MODULE LocalVision ----------------------------
(***************************************************************************)
(* The self-hosted vision model of a worker (providers/local_vision.py): one *)
(* request at a time holds the slot, the others wait in line for at most     *)
(* QueueWait; run_attempt bounds the whole call by call_timeout.  The slot   *)
(* is an asyncio.Semaphore: a release hands it to the first in line, which   *)
(* may be cancelled or time out before it runs.                              *)
(***************************************************************************)
EXTENDS Integers, Sequences, FiniteSets

CONSTANTS
  Calls,          \* concurrent calls of one process
  QueueWait,     \* VISION_LOCAL_QUEUE_WAIT_S
  HttpTimeout,   \* VISION_LOCAL_TIMEOUT_S
  Margin,        \* the 30 s of call_timeout (a busy thread pool may scale for longer)
  MaxCalls       \* bound: calls begun

VARIABLES
  free,      \* the semaphore's counter
  line,      \* its waiters
  call,      \* per call: pc, ticks in this step, in all and before the line, outcome
  begun

vars == <<free, line, call, begun>>

Idle == [pc |-> "idle", step |-> 0, total |-> 0, scaled |-> 0, how |-> "none"]

Init == free = 1 /\ line = <<>> /\ call = [c \in Calls |-> Idle] /\ begun = 0

call_timeout_http == HttpTimeout + Margin
call_timeout == HttpTimeout + QueueWait + Margin

Goto(c, pc) == [call EXCEPT ![c] = [@ EXCEPT !.pc = pc, !.step = 0]]
Ended(c, how) == [call EXCEPT ![c] = [Idle EXCEPT !.pc = "ended", !.how = how, !.scaled = call[c].scaled]]

\* remove: the first entry of the call, if it is in line.
At(s, c) == CHOOSE i \in DOMAIN s: s[i] = c
Leave(s, c) ==
  IF \E i \in DOMAIN s: s[i] = c THEN SubSeq(s, 1, At(s, c) - 1) \o SubSeq(s, At(s, c) + 1, Len(s)) ELSE s

\* The counter goes up and the first in line, if any, is given the slot.
Wake(f, s, calls) ==
  IF f > 0 /\ s # <<>>
  THEN [free |-> f - 1, line |-> Tail(s), calls |-> [calls EXCEPT ![Head(s)].pc = "granted"]]
  ELSE [free |-> f, line |-> s, calls |-> calls]

Become(s) == free' = s.free /\ line' = s.line /\ call' = s.calls

-----------------------------------------------------------------------------
\* Without a configured server, or with no image, several, or one too large, the
\* call is handed on at once; else the image is scaled down in a thread.
Begin(c) ==
  /\ call[c].pc = "idle" /\ begun < MaxCalls /\ begun' = begun + 1
  /\ call' \in {Goto(c, "scale"), Ended(c, "refused")}
  /\ UNCHANGED <<free, line>>

acquire(c) ==
  /\ call[c].pc = "scale"
  /\ IF free > 0 /\ line = <<>>
     THEN free' = free - 1 /\ call' = Goto(c, "post") /\ UNCHANGED line
     ELSE call' = Goto(c, "wait") /\ line' = Append(line, c) /\ UNCHANGED free
  /\ UNCHANGED begun

\* The waiter that was given the slot runs.
Granted(c) ==
  /\ call[c].pc = "granted" /\ call' = Goto(c, "post")
  /\ UNCHANGED <<free, line, begun>>

\* A wait that ends without the slot: a grant it can no longer use goes to the next.
GiveUp(c, how) ==
  Wake(free + IF call[c].pc = "granted" THEN 1 ELSE 0, Leave(line, c), Ended(c, how))

\* wait_for: not free within QueueWait.
Busy(c) ==
  /\ call[c].pc \in {"wait", "granted"} /\ call[c].step >= QueueWait
  /\ Become(GiveUp(c, "busy")) /\ UNCHANGED begun

release(c, how) == Wake(free + 1, line, Ended(c, how))

\* The server answered, refused, or did not answer within HttpTimeout.
Post(c) ==
  /\ call[c].pc = "post"
  /\ \/ \E how \in {"answer", "empty", "refused", "unreachable"}: Become(release(c, how))
     \/ call[c].step >= HttpTimeout /\ Become(release(c, "timeout"))
  /\ UNCHANGED begun

\* Whatever the call is at: the attempt's own ceiling, or a cancelled job.
Stopped_noRelease(c, how) ==
  IF call[c].pc \in {"wait", "granted"} THEN GiveUp(c, how)
  ELSE [free |-> free, line |-> line, calls |-> Ended(c, how)]
Stopped(c, how) ==
  CASE call[c].pc \in {"wait", "granted"} -> GiveUp(c, how)
    [] call[c].pc = "post" -> release(c, how)
    [] OTHER -> [free |-> free, line |-> line, calls |-> Ended(c, how)]

InCall(c) == call[c].pc \in {"scale", "wait", "granted", "post"}

Cancel(c) == InCall(c) /\ Become(Stopped(c, "cancelled")) /\ UNCHANGED begun

Ceiling(c) ==
  /\ InCall(c) /\ call[c].total >= call_timeout
  /\ Become(Stopped(c, "cut")) /\ UNCHANGED begun

Return(c) == call[c].pc = "ended" /\ call' = [call EXCEPT ![c] = Idle] /\ UNCHANGED <<free, line, begun>>

Older(a) ==
  [a EXCEPT !.step = a.step + 1, !.total = a.total + 1,
            !.scaled = IF a.pc = "scale" THEN a.scaled + 1 ELSE a.scaled]

\* The timers are exact: nothing waits past its own.
Tick ==
  /\ \E c \in Calls: InCall(c)
  /\ \A c \in Calls:
       /\ call[c].pc \notin {"granted", "ended"}
       /\ call[c].pc = "scale" => call[c].step < Margin + 1
       /\ call[c].pc = "wait" => call[c].step < QueueWait
       /\ call[c].pc = "post" => call[c].step < HttpTimeout
       /\ call[c].total < call_timeout
  /\ call' = [c \in Calls |-> IF InCall(c) THEN Older(call[c]) ELSE call[c]]
  /\ UNCHANGED <<free, line, begun>>

Next ==
  \/ \E c \in Calls: Begin(c) \/ acquire(c) \/ Granted(c) \/ Busy(c) \/ Post(c) \/ Cancel(c) \/ Ceiling(c) \/ Return(c)
  \/ Tick

Spec == Init /\ [][Next]_vars
-----------------------------------------------------------------------------
\* One request is at the model at a time, and the slot is never lost: with nobody
\* holding it, it is free, whatever step each call was cancelled, cut or timed out
\* in, the moment between being handed the slot and running with it included.
OneSlot == free + Cardinality({c \in Calls: call[c].pc \in {"post", "granted"}}) = 1

\* The attempt's ceiling is above the call's own timeouts ("so the client times out
\* first with a labelled TimeoutError"): it cuts no call
\* whose image was scaled down within the margin, however long the line was.
ClientTimesOutFirst ==
  \A c \in Calls: call[c].how = "cut" => call[c].scaled >= Margin

\* The slot is kept and the labelled timeouts come first (providers/local_vision.py).
GuardsExact == OneSlot /\ ClientTimesOutFirst
=============================================================================
