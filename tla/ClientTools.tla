---------------------------- MODULE ClientTools ----------------------------
(***************************************************************************)
(* The handoff of one subscription run's tool calls to its client: the      *)
(* worker's turn (the Claude and the Codex loop) publishes a call on the    *)
(* job's row and polls for its result, the client posts one, and the run    *)
(* may meanwhile be cancelled, time out, lose its session lease, be parked  *)
(* for quota or lose its worker.  A result is [success, terminal]; its      *)
(* digest tells results apart, so here the result is its own digest.        *)
(***************************************************************************)
EXTENDS Integers, FiniteSets

CONSTANTS
  MAX_CALLS,
  ArgRetries,     \* AGENT_TOOL_ARG_RETRIES
  Reminders,      \* AGENT_TOOL_REQUIRED_REMINDERS
  MaxWaits,       \* bound: quota waits before deadline_s ends the run
  MaxId           \* bound: call ids a Codex model uses

Declared == {"search", "final"}
TerminalTools == {"final"}
Result == [success: BOOLEAN, terminal: BOOLEAN]
NoCall == [id |-> 0, state |-> "none"]

VARIABLES
  cli,        \* which loop drives the turn
  choice,     \* tool_choice of the request: "named" stands for {"function": "final"}
  job,        \* status, cancel flag and result_meta of the job, and how it ended
  turn,       \* the worker's locals
  asked,      \* history: call ids ever shown to the client
  accepted    \* history: what the client was told 202 accepted for

vars == <<cli, choice, job, turn, asked, accepted>>

Fresh(lease) ==
  [pc |-> "read", lease |-> lease, id |-> 0, seq |-> 0, seen |-> {}, calls |-> 0,
   rejected |-> 0, reminded |-> 0, stop |-> FALSE, confirmed |-> FALSE]

\* No worker holds the run: its locals are gone.
Off(pc) == [Fresh("none") EXCEPT !.pc = pc]

Init ==
  /\ cli \in {"claude", "codex"}
  /\ choice \in {"auto", "required", "named"}
  /\ job = [status |-> "pending", cancel |-> FALSE, call |-> NoCall, history |-> {},
            waits |-> 0, text |-> "none", why |-> "none"]
  /\ turn = Off("idle")
  /\ asked = {} /\ accepted = {}

Required == choice \in {"required", "named"}
Fenced == turn.lease = "stolen"
Answered == {h.id : h \in job.history}

(***************************************************************************)
(* Writes of the worker.  append_event refuses a stale holder and a closed  *)
(* run; a terminal event replaces result_meta and keeps the history.        *)
(***************************************************************************)
Closed(status, text, why) ==
  [job EXCEPT !.status = status, !.text = text, !.why = why, !.call = NoCall]

Finish(status, text, why) ==
  /\ IF Fenced \/ job.status # "running" THEN UNCHANGED job
     ELSE job' = Closed(status, text, why)
  /\ turn' = Off(IF Fenced THEN "gone" ELSE "end")

Fail(why) == Finish("error", "none", why)

\* A tool run was requeued by its quota wait: the row keeps result_meta.
park_for_quota ==
  IF Fenced \/ job.status # "running" THEN UNCHANGED job /\ turn' = Off("gone")
  ELSE IF job.waits = MaxWaits THEN Fail("quota")
  ELSE /\ job' = [job EXCEPT !.status = "pending", !.waits = @ + 1]
       /\ turn' = Off("idle")

\* Claimed: refused (access, deadline, adapter, preflight), cancelled, or started;
\* a resumed session is leased.
execute_run ==
  /\ turn.pc = "idle" /\ job.status = "pending"
  /\ \/ job' = Closed("error", "none", "refused") /\ turn' = Off("end")
     \/ job.cancel /\ job' = Closed("cancelled", "none", "cancelled") /\ turn' = Off("end")
     \/ /\ ~job.cancel
        /\ job' = [job EXCEPT !.status = "running"]
        /\ \E lease \in IF job.waits > 0 THEN {"held"} ELSE {"none", "held"}:
             turn' = Fresh(lease)
  /\ UNCHANGED <<cli, choice, asked, accepted>>

(***************************************************************************)
(* publish_call: why a call is refused, or "none".                          *)
(***************************************************************************)
validate_result(tool, good) ==
  IF tool \notin Declared THEN "UnknownToolCall"
  ELSE IF choice = "named" /\ tool # "final" THEN "UnexpectedToolCall"
  ELSE IF ~good THEN "InvalidToolArguments"
  ELSE "none"

Repeated_noHistory(id) == job.call # NoCall \/ Cardinality(job.history) >= MAX_CALLS
Repeated_noLimit(id) == job.call # NoCall \/ id \in Answered
Repeated(id) ==
  \/ job.call # NoCall
  \/ Cardinality(job.history) >= MAX_CALLS
  \/ id \in Answered

publish_call(tool, good, id) ==
  IF job.status # "running" THEN "not running"
  ELSE IF job.cancel THEN "cancelled"
  ELSE IF validate_result(tool, good) # "none" THEN validate_result(tool, good)
  ELSE IF Repeated(id) THEN "repeated"
  ELSE "none"

(***************************************************************************)
(* The turn: one line of the CLI is read at a time.                         *)
(***************************************************************************)
NextIds == IF cli = "claude" THEN {turn.seq + 1} ELSE 1..MaxId

\* A refused argument is told to the model: nothing is published or counted.
Rejected_counted(id) ==
  /\ turn' = [turn EXCEPT !.seq = id, !.seen = @ \cup {id}, !.rejected = @ + 1, !.calls = @ + 1]
  /\ UNCHANGED <<job, asked>>
Rejected(id) ==
  /\ turn' = [turn EXCEPT !.seq = id, !.seen = @ \cup {id}, !.rejected = @ + 1]
  /\ UNCHANGED <<job, asked>>

Published(tool, id) ==
  /\ job' = [job EXCEPT !.call = [id |-> id, tool |-> tool, state |-> "waiting", open |-> TRUE]]
  /\ asked' = asked \cup {id}
  /\ turn' = [turn EXCEPT !.pc = "wait", !.id = id, !.seq = id, !.seen = @ \cup {id},
                          !.calls = @ + 1]

ToolCall ==
  /\ turn.pc = "read"
  /\ \E id \in NextIds, tool \in Declared \cup {"other"}, good \in BOOLEAN:
       LET refusal == publish_call(tool, good, id) IN
       IF turn.stop THEN Fail("call after terminal") /\ UNCHANGED asked
       ELSE IF cli = "codex" /\ id \in turn.seen THEN Fail("duplicate") /\ UNCHANGED asked
       ELSE IF Fenced THEN turn' = Off("gone") /\ UNCHANGED <<job, asked>>
       ELSE IF refusal = "none" THEN Published(tool, id)
       ELSE IF refusal = "InvalidToolArguments" /\ turn.rejected < ArgRetries THEN Rejected(id)
       ELSE Fail(refusal) /\ UNCHANGED asked
  /\ UNCHANGED <<cli, choice, accepted>>

\* take_result, every second while the CLI lives: cancelled, ready, expired or not yet.
Due_ready == job.call.state = "ready"
Due == job.call.state = "ready" \/ ~job.call.open

Delivered ==
  /\ job' = [job EXCEPT !.call = NoCall,
                        !.history = @ \cup {[id |-> job.call.id, result |-> job.call.result]}]
  /\ turn' = [turn EXCEPT !.pc = "read", !.id = 0, !.stop = job.call.result.terminal]

take_result ==
  /\ turn.pc = "wait"
  /\ IF Fenced THEN turn' = Off("gone") /\ UNCHANGED job
     ELSE IF job.status # "running" THEN Fail("stopped")
     ELSE IF job.cancel THEN Finish("cancelled", "none", "cancelled")
     ELSE IF job.call.id # turn.id THEN Fail("changed")
     ELSE /\ Due
          /\ IF job.call.state = "ready" THEN Delivered ELSE Fail("expired")
  /\ UNCHANGED <<cli, choice, asked, accepted>>

\* The answer to our interrupt; a second one, or one that refuses it, ends the run.
Confirm ==
  /\ turn.pc = "read" /\ turn.stop
  /\ \/ ~turn.confirmed /\ turn' = [turn EXCEPT !.confirmed = TRUE] /\ UNCHANGED job
     \/ Fail("interrupt")
  /\ UNCHANGED <<cli, choice, asked, accepted>>

\* The turn ended while the run is to be stopped: only a confirmed stop is done.
Stopped_unconfirmed(how) == Finish("done", "empty", "none")
Stopped(how) ==
  IF cli = "claude" /\ how = "quota" THEN park_for_quota
  ELSE IF turn.confirmed /\ how \in {"completed", "interrupted"}
       THEN Finish("done", "empty", "none")
       ELSE Fail("unconfirmed")

Answer ==
  IF turn.calls > 0 \/ ~Required THEN Finish("done", "answer", "none")
  ELSE IF turn.reminded < Reminders
       THEN turn' = [turn EXCEPT !.reminded = @ + 1] /\ UNCHANGED job
       ELSE Fail("required tool was not called")

TurnEnds ==
  /\ turn.pc = "read"
  /\ \E how \in {"completed", "interrupted", "failed", "quota"}:
       /\ how = "quota" => cli = "claude"
       /\ IF turn.stop THEN Stopped(how)
          ELSE CASE how = "completed" -> Answer
                 [] how = "quota" -> park_for_quota
                 [] OTHER -> Fail("cli")
  /\ UNCHANGED <<cli, choice, asked, accepted>>

\* The CLI exits, TERMINAL_STOP_S passes, or the run's wall timeout.
Ends ==
  /\ turn.pc \in {"read", "wait"}
  /\ Fail("ended")
  /\ UNCHANGED <<cli, choice, asked, accepted>>

CancelSeen ==
  /\ turn.pc \in {"read", "wait"} /\ job.cancel
  /\ Finish("cancelled", "none", "cancelled")
  /\ UNCHANGED <<cli, choice, asked, accepted>>

(***************************************************************************)
(* Lease loss: the stream loop stops the CLI, then withdraws the call.      *)
(***************************************************************************)
LeaseLost ==
  /\ turn.lease \in {"held", "lost"}
  /\ \E l \in {"lost", "stolen"}: l # turn.lease /\ turn' = [turn EXCEPT !.lease = l]
  /\ UNCHANGED <<cli, choice, job, asked, accepted>>

Notice ==
  /\ turn.pc \in {"read", "wait"} /\ turn.lease \in {"lost", "stolen"}
  /\ turn' = Off("lost")
  /\ UNCHANGED <<cli, choice, job, asked, accepted>>

clear_pending_call_ready ==
  /\ turn.pc = "lost"
  /\ job' = IF job.status = "running" THEN [job EXCEPT !.call = NoCall] ELSE job
  /\ turn' = Off("withdrawn")
  /\ UNCHANGED <<cli, choice, asked, accepted>>
clear_pending_call_never ==
  /\ turn.pc = "lost"
  /\ turn' = Off("withdrawn")
  /\ UNCHANGED <<cli, choice, job, asked, accepted>>
clear_pending_call ==
  /\ turn.pc = "lost"
  /\ job' = IF job.status = "running" /\ job.call.state = "waiting"
            THEN [job EXCEPT !.call = NoCall] ELSE job
  /\ turn' = Off("withdrawn")
  /\ UNCHANGED <<cli, choice, asked, accepted>>

Crash ==
  /\ turn.pc \in {"read", "wait", "lost"}
  /\ turn' = Off("gone")
  /\ UNCHANGED <<cli, choice, job, asked, accepted>>

\* fail_stale_runs: long past its deadline, whoever still holds it.
Reap ==
  /\ job.status = "running"
  /\ job' = Closed("error", "none", "worker_lost")
  /\ UNCHANGED <<cli, choice, turn, asked, accepted>>

(***************************************************************************)
(* The client.                                                              *)
(***************************************************************************)
\* What submit_result answers: "new" and "again" are 202, "refused" is 409.
Reply(id, r) ==
  IF job.status # "running" \/ job.cancel THEN "refused"
  ELSE IF [id |-> id, result |-> r] \in job.history THEN "again"
  ELSE IF job.call.id # id THEN "refused"
  ELSE IF job.call.state = "ready" THEN (IF job.call.result = r THEN "again" ELSE "refused")
  ELSE IF \/ ~job.call.open
          \/ r.terminal /\ (~r.success \/ job.call.tool \notin TerminalTools) THEN "refused"
  ELSE "new"

submit_result ==
  /\ \E id \in asked, r \in Result:
       /\ Reply(id, r) = "new"
       /\ job' = [job EXCEPT !.call = [id |-> id, tool |-> @.tool, state |-> "ready",
                                       open |-> @.open, result |-> r]]
       /\ accepted' = accepted \cup {[id |-> id, result |-> r]}
  /\ UNCHANGED <<cli, choice, turn, asked>>

Expire ==
  /\ job.call # NoCall /\ job.call.open
  /\ job' = [job EXCEPT !.call.open = FALSE]
  /\ UNCHANGED <<cli, choice, turn, asked, accepted>>

\* A pending run ends at once, a running one is flagged.
cancel_run ==
  /\ job.status \in {"pending", "running"} /\ ~job.cancel
  /\ job' = IF job.status = "pending" THEN Closed("cancelled", "none", "cancelled")
            ELSE [job EXCEPT !.cancel = TRUE]
  /\ UNCHANGED <<cli, choice, turn, asked, accepted>>

Done == job.status \in {"done", "error", "cancelled"} /\ turn.pc # "wait"
Finished == Done /\ UNCHANGED vars

Next ==
  \/ execute_run \/ ToolCall \/ take_result \/ Confirm \/ TurnEnds \/ Ends \/ CancelSeen
  \/ LeaseLost \/ Notice \/ clear_pending_call \/ Crash \/ Reap
  \/ submit_result \/ Expire \/ cancel_run \/ Finished

\* The worker polls while it lives, and deadlines pass.
Fairness == WF_vars(take_result) /\ WF_vars(Expire)
Spec == Init /\ [][Next]_vars /\ Fairness

-----------------------------------------------------------------------------
TypeOK ==
  /\ job.status \in {"pending", "running", "done", "error", "cancelled"}
  /\ job.call.state \in {"none", "waiting", "ready"}
  /\ turn.pc \in {"idle", "read", "wait", "lost", "withdrawn", "gone", "end"}
  /\ turn.pc = "wait" /\ job.status = "running" => job.call.id = turn.id
  /\ turn.rejected \in 0..ArgRetries /\ turn.reminded \in 0..Reminders
  /\ Cardinality(job.history) <= MAX_CALLS

\* A result the client was told is accepted is not lost and not replaced while
\* the job runs: it is the pending call's result or in the history, no call
\* has two, and a repeated POST of it is answered as a repeat
\* (submit_result, take_result, clear_pending_call).
AcceptedKept ==
  job.status = "running" =>
    \A a \in accepted:
      /\ ~job.cancel => Reply(a.id, a.result) = "again"
      /\ \A b \in accepted: a.id = b.id => a = b

NewId ==
  turn.pc = "read" /\ turn'.pc = "wait" => turn'.id \notin asked

\* A client operation is never asked for twice: no call id is published again,
\* not even by the worker that resumes the run after a quota wait.
NeverAskedTwice == [][NewId]_vars

EndsOnTerminal ==
  job.status = "running" /\ job'.status = "done" =>
    IF turn.stop THEN turn.confirmed /\ job'.text = "empty" ELSE job'.text = "answer"

\* The run is done with the empty text of a terminal result only after the CLI
\* confirmed the interrupt, and with a text only if no terminal result was
\* taken in that turn (both run_tool_turn loops).
TerminalIsLast == [][EndsOnTerminal]_vars

\* A run whose request requires a tool is done only if the client answered a
\* call, however many calls were rejected and reminders sent.
RequiredToolAnswered == job.status = "done" /\ Required => job.history # {}

\* After the worker that lost its lease has withdrawn its call, no result is
\* accepted that nobody will read.
WithdrawnStaysWithdrawn == turn.pc = "withdrawn" => job.call.state # "waiting"

\* The dialogue with a client's tools loses no result and skips no required tool
\* (agent/client_tools.py): the parts above.
ToolsSound == TypeOK /\ AcceptedKept /\ RequiredToolAnswered /\ WithdrawnStaysWithdrawn

\* No client operation is asked for twice, and a turn ends on its terminal result.
ToolSteps == NeverAskedTwice /\ TerminalIsLast

\* A worker never waits for a client forever: the wait ends in a result, an
\* expiry, a cancel or the end of the run.
WaitEnds == turn.pc = "wait" ~> turn.pc # "wait"

\* A call is refused as a repeat only when the run used up its calls: a run
\* that waited for quota goes on where it stopped (docs/agent-runs.md,
\* "Quota exhaustion = wait").
QuotaWaitGoesOn == job.why = "repeated" => Cardinality(job.history) >= MAX_CALLS
=============================================================================
