------------------------------ MODULE JobReads ------------------------------
(***************************************************************************)
(* What a client is told about its jobs in more than one statement: the     *)
(* paged listing under a high watermark, the bulk cancel, and the event      *)
(* stream of an agent run.  Each answer is put together from reads of        *)
(* different moments while jobs are submitted, claimed, finished and purged. *)
(* The client performs one operation; its record is the variable client.     *)
(***************************************************************************)
EXTENDS Integers, Sequences, FiniteSets, FiniteSetsExt

CONSTANTS
  MaxId,       \* bound: ids the sequence may hand out
  Agent,       \* the ids whose capability is agent:*
  Labelled,    \* the ids that carry the label asked for
  Readable,    \* the agent ids the caller's policy lets it read
  AgentOpen,   \* the caller has the agent scope and is on the allowlist
  Limit,       \* page size
  MaxSeq       \* bound: events of one run

VARIABLES
  row,     \* deep_jobs: status, cancel_requested, and whether a claim is executing
  run,     \* agent_runs: outcome, cancel_requested, last_seq
  client

vars == <<row, run, client>>

Id == 1 .. MaxId
Terminal == {"done", "cancelled"}
NonTerminal == {"pending", "running"}
Committed == {i \in Id: row[i].status \in Terminal \cup NonTerminal}

\* _filters: the label and, when the caller may not read runs at all, no agent row.
Filtered == {i \in Committed: i \in Labelled /\ (AgentOpen \/ i \notin Agent)}

\* _agent_reader: the poll route's own check, row by row.
Shown(i) == i \notin Agent \/ i \in Readable

Idle == [op |-> "idle"]
Max0(S) == IF S = {} THEN 0 ELSE Max(S)

(***************************************************************************)
(* The jobs.  An id is taken from the sequence before its row is committed. *)
(***************************************************************************)
Set(i, status) == [row EXCEPT ![i].status = status]

Allocate(i) ==
  /\ row[i].status = "none"
  /\ \A k \in 1 .. (i - 1): row[k].status # "none"
  /\ row' = Set(i, "open")
  /\ UNCHANGED <<run, client>>

Commit(i) ==
  /\ row[i].status = "open"
  /\ row' = Set(i, "pending")
  /\ UNCHANGED <<run, client>>

Rollback(i) ==
  /\ row[i].status = "open"
  /\ row' = Set(i, "gone")
  /\ UNCHANGED <<run, client>>

Claim(i) ==
  /\ row[i].status = "pending"
  /\ row' = [row EXCEPT ![i].status = "running", ![i].task = TRUE]
  /\ UNCHANGED <<run, client>>

\* Another event of a running run, short of its terminal one.
Emit(i) ==
  /\ i \in Agent /\ row[i].status = "running"
  /\ run[i].last_seq < MaxSeq - 1
  /\ run' = [run EXCEPT ![i].last_seq = @ + 1]
  /\ UNCHANGED <<row, client>>

\* The terminal write; a run's terminal event goes with it.
End(i) ==
  /\ row[i].status = "running"
  /\ \E status \in Terminal:
       /\ status = "cancelled" => (row[i].flag \/ (i \in Agent /\ run[i].cancel))
       /\ row' = [row EXCEPT ![i].status = status, ![i].task = FALSE]
       /\ run' = IF i \in Agent
                 THEN [run EXCEPT ![i].outcome = status, ![i].last_seq = @ + 1] ELSE run
  /\ UNCHANGED client

\* A plain job whose cancel was asked for is ended, not retried.
Requeue(i) ==
  /\ row[i].status = "running" /\ (row[i].flag => i \in Agent)
  /\ row' = [row EXCEPT ![i].status = "pending", ![i].task = FALSE]
  /\ UNCHANGED <<run, client>>

Purge(i) ==
  /\ row[i].status \in Terminal
  /\ row' = Set(i, "gone")
  /\ UNCHANGED <<run, client>>

(***************************************************************************)
(* GET /v1/jobs.                                                            *)
(***************************************************************************)
ListBegin ==
  /\ client = Idle
  /\ client' = [op |-> "list", pc |-> "plain", hw |-> Max0(Committed), after |-> 0,
                quiet |-> TRUE, listed |-> <<>>, due |-> {i \in Filtered: Shown(i)}]
  /\ UNCHANGED <<row, run>>

Live_pendingOnly(S) == {i \in S: i <= client.hw /\ row[i].status = "pending"}

Live(S) == {i \in S: i <= client.hw /\ row[i].status \in NonTerminal}

\* _quiet: one probe of the plain rows, then the scan of the agent rows.
QuietPlain ==
  /\ client.op = "list" /\ client.pc = "plain"
  /\ client' = IF Live(Filtered \ Agent) # {}
               THEN [client EXCEPT !.quiet = FALSE, !.pc = "page"]
               ELSE [client EXCEPT !.pc = IF AgentOpen THEN "agent" ELSE "page"]
  /\ UNCHANGED <<row, run>>

QuietAgent ==
  /\ client.op = "list" /\ client.pc = "agent"
  /\ client' = [client EXCEPT !.quiet = (Live(Filtered \cap Readable) = {}), !.pc = "page"]
  /\ UNCHANGED <<row, run>>

Rest == {i \in Filtered: i > client.after /\ i <= client.hw}

\* The first n of S by id.
FirstIds(S, n) == {i \in S: Cardinality({k \in S: k < i}) < n}

NextAfter_extraRow == Max(FirstIds(Rest, Limit + 1))

\* The cursor holds the last row of the page, not the extra one read to see
\* whether there is more.
NextAfter == Max(FirstIds(Rest, Limit))

\* ORDER BY id: a page is known by its rows.
Page ==
  /\ client.op = "list" /\ client.pc = "page"
  /\ LET shown == {i \in FirstIds(Rest, Limit): Shown(i)}
         more == Cardinality(Rest) > Limit
     IN client' = [client EXCEPT
          !.listed = Append(@, shown),
          !.after = IF more THEN NextAfter ELSE @,
          !.pc = IF more THEN "page" ELSE "complete"]
  /\ UNCHANGED <<row, run>>

(***************************************************************************)
(* POST /v1/jobs/cancel.                                                    *)
(***************************************************************************)
BulkSelect ==
  /\ client = Idle
  /\ LET sel == {i \in Filtered: row[i].status \in NonTerminal}
     IN client' = [op |-> "bulk", pc |-> "next", wanted |-> sel, selected |-> sel,
                   saw |-> [i \in sel |-> row[i].status],
                   cancelled |-> {}, requested |-> {}, already |-> 0]
  /\ UNCHANGED <<row, run>>

Current == Min(client.wanted)

Answer(state) ==
  client' = [client EXCEPT !.pc = "next", !.wanted = @ \ {Current},
               !.cancelled = IF state = "cancelled" THEN @ \cup {Current} ELSE @,
               !.requested = IF state = "cancel_requested" THEN @ \cup {Current} ELSE @,
               !.already = IF state = "already_terminal" THEN @ + 1 ELSE @]

Cancelling == client.op = "bulk" /\ client.pc = "next" /\ client.wanted # {}

_cancel_plain_unlocked ==
  /\ Cancelling /\ Current \notin Agent
  /\ \/ /\ client.saw[Current] = "pending"
        /\ row' = Set(Current, "cancelled")
        /\ Answer("cancelled")
     \/ /\ client.saw[Current] = "running"
        /\ row' = [row EXCEPT ![Current].flag = TRUE]
        /\ Answer("cancel_requested")
  /\ UNCHANGED run

\* Under FOR UPDATE: the status is the one at this moment.
_cancel_plain ==
  /\ Cancelling /\ Current \notin Agent
  /\ \/ /\ row[Current].status = "pending"
        /\ row' = Set(Current, "cancelled")
        /\ Answer("cancelled")
     \/ /\ row[Current].status = "running"
        /\ row' = [row EXCEPT ![Current].flag = TRUE]
        /\ Answer("cancel_requested")
     \/ /\ row[Current].status \notin NonTerminal
        /\ Answer("already_terminal")
        /\ UNCHANGED row
  /\ UNCHANGED run

\* _cancel_agent: a read, then cancel_run under its own lock, then the mirror.
AgentRead ==
  /\ Cancelling /\ Current \in Agent
  /\ \/ /\ run[Current].outcome # "none" \/ row[Current].status = "gone"
        /\ Answer("already_terminal")
     \/ /\ run[Current].outcome = "none" /\ row[Current].status # "gone"
        /\ client' = [client EXCEPT !.pc = "agent"]
  /\ UNCHANGED <<row, run>>

cancel_run ==
  /\ client.op = "bulk" /\ client.pc = "agent"
  /\ \/ /\ run[Current].outcome = "none" /\ row[Current].status = "pending"
        /\ row' = Set(Current, "cancelled")
        /\ run' = [run EXCEPT ![Current].outcome = "cancelled", ![Current].last_seq = @ + 1]
        /\ Answer("cancelled")
     \/ /\ run[Current].outcome = "none" /\ row[Current].status = "running"
        /\ run' = [run EXCEPT ![Current].cancel = TRUE]
        /\ client' = [client EXCEPT !.pc = "mirror"]
        /\ UNCHANGED row
     \/ /\ run[Current].outcome # "none"      \* RunConflict: it ended meanwhile
        /\ Answer(IF run[Current].outcome = "cancelled" THEN "cancelled" ELSE "already_terminal")
        /\ UNCHANGED <<row, run>>

Mirror ==
  /\ client.op = "bulk" /\ client.pc = "mirror"
  /\ row' = [row EXCEPT ![Current].flag = TRUE]
  /\ Answer("cancel_requested")
  /\ UNCHANGED run

(***************************************************************************)
(* GET /v1/agent/runs/{id}/events, polled until `finished`.                 *)
(***************************************************************************)
PollBegin(i) ==
  /\ client = Idle
  /\ i \in Agent \cap Committed
  /\ client' = [op |-> "poll", pc |-> "run", id |-> i, after |-> 0, got |-> <<>>,
                outcome |-> "none", last_seq |-> 0, finished |-> FALSE]
  /\ UNCHANGED <<row, run>>

\* _owned_run: the run as it is now.
PollRun ==
  /\ client.op = "poll" /\ client.pc = "run" /\ ~client.finished
  /\ client' = [client EXCEPT !.pc = "events", !.outcome = run[client.id].outcome,
                              !.last_seq = run[client.id].last_seq]
  /\ UNCHANGED <<row, run>>

Finished_byOutcome(last) == client.outcome # "none"

Finished(last) == client.outcome # "none" /\ last >= client.last_seq

\* list_events in a session of its own, after the run was read.
PollEvents ==
  /\ client.op = "poll" /\ client.pc = "events"
  /\ LET last == Min({client.after + Limit, run[client.id].last_seq})
     IN client' = [client EXCEPT
          !.pc = "run",
          !.got = @ \o [k \in 1 .. (last - client.after) |-> client.after + k],
          !.after = last,
          !.finished = Finished(last),
          !.outcome = IF Finished(last) THEN @ ELSE "none",
          !.last_seq = IF Finished(last) THEN @ ELSE 0]
  /\ UNCHANGED <<row, run>>

-----------------------------------------------------------------------------
Init ==
  /\ row = [i \in Id |-> [status |-> "none", flag |-> FALSE, task |-> FALSE]]
  /\ run = [i \in Agent |-> [outcome |-> "none", cancel |-> FALSE, last_seq |-> 0]]
  /\ client = Idle

Jobs ==
  \E i \in Id: \/ Allocate(i) \/ Commit(i) \/ Rollback(i) \/ Claim(i) \/ Emit(i)
               \/ End(i) \/ Requeue(i) \/ Purge(i)

Next ==
  \/ Jobs
  \/ ListBegin \/ QuietPlain \/ QuietAgent \/ Page
  \/ BulkSelect \/ _cancel_plain \/ AgentRead \/ cancel_run \/ Mirror
  \/ (\E i \in Id: PollBegin(i)) \/ PollRun \/ PollEvents

Spec == Init /\ [][Next]_vars
-----------------------------------------------------------------------------
\* The listing of a walk: in order of id, every job at most once, and when the
\* pages are complete every job that was there when the walk began and has not
\* been purged since.
WalkExact ==
  client.op = "list" =>
    /\ \A m, n \in 1 .. Len(client.listed): m < n =>
         \A i \in client.listed[m], k \in client.listed[n]: i < k
    /\ client.pc = "complete" =>
         \A i \in client.due:
           row[i].status = "gone" \/ \E n \in 1 .. Len(client.listed): i \in client.listed[n]

\* no_nonterminal_in_filter is a promise for good: of the jobs that were there
\* when it was given none is ever pending or running again, whatever page the
\* walk is on.
QuietIsFinal ==
  (client.op = "list" /\ client.pc \in {"page", "complete"} /\ client.quiet) =>
    \A i \in client.due: row[i].status \notin NonTerminal

\* A bulk cancel tells the truth about each job it selected: cancelled is final
\* and nothing executes any more, cancel_requested is seen by whoever runs the job, and none is left out.
CancelAnswersTrue ==
  client.op = "bulk" =>
    /\ \A i \in client.cancelled: row[i].status \in {"cancelled", "gone"} /\ ~row[i].task
    /\ \A i \in client.requested: row[i].status \in NonTerminal =>
         row[i].flag \/ (i \in Agent /\ run[i].cancel)
    /\ client.already + Cardinality(client.cancelled \cup client.requested \cup client.wanted)
         = Cardinality(client.selected)
    /\ \A i \in client.selected \ (client.wanted \cup client.cancelled \cup client.requested):
         row[i].status \notin NonTerminal

\* A client that is told `finished` has had every event of the run, the terminal
\* one included, once and in order.
EventsWhole ==
  (client.op = "poll" /\ client.finished) =>
    /\ client.got = [k \in 1 .. run[client.id].last_seq |-> k]
    /\ run[client.id].outcome # "none"
=============================================================================
