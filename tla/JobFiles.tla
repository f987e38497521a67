------------------------------ MODULE JobFiles ------------------------------
(***************************************************************************)
(* The bytes of the files an agent run returned (agent/job_files.py): kept   *)
(* inline in the job's result or in deep_job_files, served by polls that     *)
(* read the row and the bytes in two sessions, blanked once they expire,     *)
(* cleared by scripts/clear_expired_files.py and dropped with the job by     *)
(* retention.  Every job returns one file.  Time is in half seconds, so that *)
(* a timestamp has a fraction or has none.                                   *)
(***************************************************************************)
EXTENDS Integers

CONSTANTS
  Job,
  TTL,         \* AGENT_FILES_TTL_S
  Retention,   \* JOB_RETENTION_DAYS
  Slow,        \* how long the read of the bytes may take: TTL + Slow <= Retention
  MaxTime      \* bound

VARIABLES
  now,
  inTable,   \* AGENT_FILES_IN_TABLE, which a deployment may change
  meta,      \* per job: its entry of result_meta.files, or a state word
  blob,      \* per job: the data of its deep_job_files row
  made,      \* per job: what the run returned
  poll,      \* one poll of a finished job
  tool       \* one run of the clearing script

vars == <<now, inTable, meta, blob, made, poll, tool>>

Nothing == "none"
Never == -1
Open == [state |-> "open", content |-> Nothing, ref |-> FALSE, expires |-> Never, expired |-> FALSE, at |-> 0]
Gone == [Open EXCEPT !.state = "purged"]
NoPoll == [pc |-> "idle", job |-> 0, file |-> Open, now |-> 0, content |-> Nothing, expired |-> FALSE]
NoTool == [pc |-> "idle", cutoff |-> 0, execute |-> FALSE, todo |-> {}, job |-> 0]

Init ==
  /\ now = 0 /\ inTable \in BOOLEAN
  /\ meta = [j \in Job |-> Open]
  /\ blob = [j \in Job |-> Nothing]
  /\ made = [j \in Job |-> Open]
  /\ poll = NoPoll /\ tool = NoTool

-----------------------------------------------------------------------------
(* Comparing ISO timestamps as strings: after the seconds comes "+00:00" or  *)
(* ".ffffff+00:00", and "+" sorts before "."                                 *)

Seconds(t) == t \div 2
Mark(t) == IF t % 2 = 0 THEN 0 ELSE 1
IsoLess(a, b) == Seconds(a) < Seconds(b) \/ (Seconds(a) = Seconds(b) /\ Mark(a) < Mark(b))

_expired(f, t) == f.expires # Never /\ IsoLess(f.expires, t)

\* What a base64 text is after decoding and encoding: only a canonical one
\* comes back as it was.
Reencoded(c) == IF c = "odd" THEN "other" ELSE c

_decode_exact_lax(c) == Reencoded(c)
_decode_exact(c) == IF Reencoded(c) = c THEN c ELSE Nothing

\* The entry and the row of one file; text and odd base64 stay inline.
Binary(c) == c \in {"png", "odd"}

store_files(f) ==
  LET data == IF inTable /\ Binary(f.content) THEN _decode_exact(f.content) ELSE Nothing
  IN IF data = Nothing THEN [entry |-> f, data |-> Nothing]
     ELSE [entry |-> [f EXCEPT !.content = Nothing, !.ref = TRUE], data |-> data]

\* run.completed: the result and its bytes in one transaction.
Complete(j) ==
  /\ meta[j].state = "open"
  /\ \E c \in {"png", "odd", "text"}:
       LET f == [Open EXCEPT !.state = "done", !.content = c, !.expires = now + TTL, !.at = now]
           stored == store_files(f)
       IN /\ meta' = [meta EXCEPT ![j] = stored.entry]
          /\ blob' = [blob EXCEPT ![j] = stored.data]
          /\ made' = [made EXCEPT ![j] = f]
  /\ UNCHANGED <<now, inTable, poll, tool>>

Deploy == inTable' = ~inTable /\ UNCHANGED <<now, meta, blob, made, poll, tool>>

Tick ==
  /\ now < MaxTime /\ (poll.pc = "blobs" => now - poll.now < Slow)
  /\ now' = now + 1
  /\ UNCHANGED <<inTable, meta, blob, made, poll, tool>>

\* Retention: the row, and by the foreign key its bytes.
Purge(j) ==
  /\ meta[j].state = "done" /\ now - meta[j].at > Retention
  /\ meta' = [meta EXCEPT ![j] = Gone]
  /\ blob' = [blob EXCEPT ![j] = Nothing]
  /\ UNCHANGED <<now, inTable, made, poll, tool>>

-----------------------------------------------------------------------------
(* A poll: the row; then live_files, which takes the time and reads bytes    *)

PollRow(j) ==
  /\ poll.pc = "idle" /\ meta[j].state = "done"
  /\ poll' = [NoPoll EXCEPT !.pc = "row", !.job = j, !.file = meta[j]]
  /\ UNCHANGED <<now, inTable, meta, blob, made, tool>>

live_files ==
  /\ poll.pc = "row"
  /\ poll' = [poll EXCEPT !.pc = "blobs", !.now = now]
  /\ UNCHANGED <<now, inTable, meta, blob, made, tool>>

Served_stored(f, t, data) == [content |-> IF f.ref THEN data ELSE f.content, expired |-> f.expired]
Served(f, t, data) ==
  IF _expired(f, t) THEN [content |-> Nothing, expired |-> TRUE]
  ELSE [content |-> IF f.ref THEN data ELSE f.content, expired |-> f.expired]

PollBlobs ==
  /\ poll.pc = "blobs"
  /\ LET a == Served(poll.file, poll.now, blob[poll.job])
     IN poll' = [poll EXCEPT !.pc = "answered", !.content = a.content, !.expired = a.expired]
  /\ UNCHANGED <<now, inTable, meta, blob, made, tool>>

PollEnd == poll.pc = "answered" /\ poll' = NoPoll /\ UNCHANGED <<now, inTable, meta, blob, made, tool>>

-----------------------------------------------------------------------------
(* clear_expired_files: dry run or execute, one job per batch                *)

Whole(t) == t % 2 = 0

\* The cutoff is in whole seconds and not in the future.
resolve(cutoff) == Whole(cutoff) /\ cutoff <= now

ToolStart ==
  /\ tool.pc = "idle"
  /\ \E cutoff \in 0..MaxTime, execute \in BOOLEAN:
       /\ resolve(cutoff)
       /\ tool' = [pc |-> "batch", cutoff |-> cutoff, execute |-> execute, job |-> 0,
                   todo |-> {j \in Job: meta[j].state = "done"}]
  /\ UNCHANGED <<now, inTable, meta, blob, made, poll>>

Clearable(f) ==
  f.state = "done" /\ f.content # Nothing /\ f.expires # Never /\ IsoLess(f.expires, tool.cutoff)

\* A batch is surveyed; a dry run writes nothing, nothing clearable ends it.
Survey(j) ==
  /\ tool.pc = "batch" /\ j \in tool.todo
  /\ tool' = IF tool.execute /\ Clearable(meta[j])
             THEN [tool EXCEPT !.pc = "clear", !.job = j, !.todo = @ \ {j}]
             ELSE [tool EXCEPT !.todo = @ \ {j}]
  /\ UNCHANGED <<now, inTable, meta, blob, made, poll>>

\* The rows that could be locked are rewritten; a locked one, and a batch that
\* fails, waits for the next run of the script.
Clear ==
  /\ tool.pc = "clear"
  /\ \/ meta' = IF Clearable(meta[tool.job])
                THEN [meta EXCEPT ![tool.job] = [@ EXCEPT !.content = Nothing, !.expired = TRUE]]
                ELSE meta
     \/ UNCHANGED meta
  /\ tool' = [tool EXCEPT !.pc = "batch", !.job = 0]
  /\ UNCHANGED <<now, inTable, blob, made, poll>>

ToolEnd ==
  /\ tool.pc = "batch" /\ tool.todo = {} /\ tool' = NoTool
  /\ UNCHANGED <<now, inTable, meta, blob, made, poll>>

Next ==
  \/ \E j \in Job: Complete(j) \/ Purge(j) \/ PollRow(j) \/ Survey(j)
  \/ Deploy \/ Tick \/ live_files \/ PollBlobs \/ PollEnd
  \/ ToolStart \/ Clear \/ ToolEnd

Spec == Init /\ [][Next]_vars
-----------------------------------------------------------------------------
\* A poll is answered as if the bytes had always been inline: the very text the
\* run returned until it expires, nothing and the mark afterwards, wherever the
\* bytes were stored and whatever was cleared or purged while it read.
ServedAsInline ==
  poll.pc = "answered" =>
    LET f == made[poll.job]
    IN IF f.expires < poll.now
       THEN poll.content = Nothing /\ poll.expired
       ELSE poll.content = f.content /\ ~poll.expired
=============================================================================
