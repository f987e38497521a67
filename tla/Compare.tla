------------------------------ MODULE Compare ------------------------------
(***************************************************************************)
(* The model-comparison page: one question fanned out to several models as  *)
(* jobs of one project (services/compare.py, routes/compare.py).  A caller  *)
(* has one unfinished question at a time, per browser and per address; the   *)
(* answers are pulled into the result rows by a background tracker and by    *)
(* every poll of the page, which may run at once, while fan_out still        *)
(* submits.  Processes restart; rows and jobs survive.                       *)
(***************************************************************************)
EXTENDS Integers, FiniteSets

CONSTANTS
  Caller,       \* submits of the page; a caller's question has the caller's name
  Followed,     \* the questions whose jobs and rows are followed past the insert
  Browser, Ip, NoIp,
  Model,
  MaxFaults     \* bound: restarts, trackers that die, cancels that fail

VARIABLES
  ask,     \* per caller: where create_request is, and whose question it is
  lock,    \* the advisory locks: who holds each, or None
  age,     \* per question: "young", "old" (past ACTIVE_TIMEOUT_S), "over" (10 s later)
  row,     \* per question and model: the result row's status and job_id
  job,     \* per question and model: the broker's job
  sent,    \* per question and model: where fan_out's own write is
  sync,    \* per question and runner: a sync_request in progress
  track,   \* per question: the background task
  faults

vars == <<ask, lock, age, row, job, sent, sync, track, faults>>

None == "none"
Runner == {"tracker", "poll"}
TERMINAL == {"done", "truncated", "error", "refused", "timeout"}
NoRow == [status |-> "absent", job |-> FALSE]
NoSync == [pc |-> "idle", todo |-> {}, old |-> FALSE, model |-> None, value |-> None]

Init ==
  /\ ask \in [Caller -> [pc: {"browser"}, browser: Browser, ip: Ip \cup {NoIp}]]
  /\ lock = [k \in Browser \cup Ip |-> None]
  /\ age = [c \in Caller |-> "young"]
  /\ row = [c \in Caller |-> [m \in Model |-> NoRow]]
  /\ job = [c \in Caller |-> [m \in Model |-> "absent"]]
  /\ sent = [c \in Caller |-> [m \in Model |-> "no"]]
  /\ sync = [c \in Caller |-> [r \in Runner |-> NoSync]]
  /\ track = [c \in Caller |-> "none"]
  /\ faults = 0

Fault == faults < MaxFaults /\ faults' = faults + 1
Goto(c, pc) == ask' = [ask EXCEPT ![c].pc = pc]

-----------------------------------------------------------------------------
(* create_request: two locks, the check, the insert, one transaction        *)

LockBrowser(c) ==
  /\ ask[c].pc = "browser" /\ lock[ask[c].browser] = None
  /\ lock' = [lock EXCEPT ![ask[c].browser] = c]
  /\ Goto(c, IF ask[c].ip = NoIp THEN "check" ELSE "ip")
  /\ UNCHANGED <<age, row, job, sent, sync, track, faults>>

LockIp_skipped(c) ==
  /\ ask[c].pc = "ip"
  /\ Goto(c, "check")
  /\ UNCHANGED <<lock, age, row, job, sent, sync, track, faults>>
LockIp(c) ==
  /\ ask[c].pc = "ip" /\ lock[ask[c].ip] = None
  /\ lock' = [lock EXCEPT ![ask[c].ip] = c]
  /\ Goto(c, "check")
  /\ UNCHANGED <<age, row, job, sent, sync, track, faults>>

Active(c) == age[c] = "young" /\ \E m \in Model: row[c][m].status = "pending"

Mine(c, d) ==
  \/ ask[d].browser = ask[c].browser
  \/ ask[c].ip # NoIp /\ ask[d].ip = ask[c].ip

active_request_id(c) == {d \in Caller: Mine(c, d) /\ Active(d)}

Unlocked(c) == [k \in DOMAIN lock |-> IF lock[k] = c THEN None ELSE lock[k]]

Check(c) ==
  /\ ask[c].pc = "check"
  /\ IF active_request_id(c) # {}
     THEN Goto(c, "busy") /\ lock' = Unlocked(c)
     ELSE Goto(c, "insert") /\ UNCHANGED lock
  /\ UNCHANGED <<age, row, job, sent, sync, track, faults>>

\* The rows are committed, the locks freed and the tracker is spawned.
Insert(c) ==
  /\ ask[c].pc = "insert"
  /\ Goto(c, "asked") /\ lock' = Unlocked(c)
  /\ row' = [row EXCEPT ![c] = [m \in Model |-> [status |-> "pending", job |-> FALSE]]]
  /\ track' = [track EXCEPT ![c] = IF c \in Followed THEN "fan" ELSE "none"]
  /\ UNCHANGED <<age, job, sent, sync, faults>>

-----------------------------------------------------------------------------
(* fan_out: one submit per model, and its write                             *)

submit_model(c, m) ==
  /\ track[c] = "fan" /\ sent[c][m] = "no"
  /\ \/ /\ job' = [job EXCEPT ![c][m] = "live"]
        /\ sent' = [sent EXCEPT ![c][m] = "job"]
     \/ /\ UNCHANGED job
        /\ sent' = [sent EXCEPT ![c][m] = "refused"]
  /\ UNCHANGED <<ask, lock, age, row, sync, track, faults>>

\* The job's id, or the refusal.  This update looks at no status.
SubmitWrite(c, m) ==
  /\ track[c] = "fan" /\ sent[c][m] \in {"job", "refused"}
  /\ row' = [row EXCEPT ![c][m] =
               IF sent[c][m] = "job" THEN [@ EXCEPT !.job = TRUE]
               ELSE [@ EXCEPT !.status = "refused"]]
  /\ sent' = [sent EXCEPT ![c][m] = "written"]
  /\ UNCHANGED <<ask, lock, age, job, sync, track, faults>>

FanOutDone(c) ==
  /\ track[c] = "fan" /\ \A m \in Model: sent[c][m] = "written"
  /\ track' = [track EXCEPT ![c] = "loop"]
  /\ UNCHANGED <<ask, lock, age, row, job, sent, sync, faults>>

-----------------------------------------------------------------------------
(* sync_request, by the tracker and by a poll of the page                   *)

SetSync(c, r, s) == sync' = [sync EXCEPT ![c][r] = s]

SyncRead(c, r) ==
  /\ c \in Followed /\ sync[c][r].pc = "idle" /\ ask[c].pc = "asked"
  /\ r = "tracker" => track[c] = "loop" /\ age[c] # "over"
  /\ LET todo == {m \in Model: row[c][m].status = "pending"}
     IN /\ todo # {}
        /\ SetSync(c, r, [NoSync EXCEPT !.pc = "next", !.old = (age[c] # "young"),
                            !.todo = {<<m, row[c][m].job>>: m \in todo}])
  /\ UNCHANGED <<ask, lock, age, row, job, sent, track, faults>>

Value(c, m, known, old) ==
  IF known /\ job[c][m] = "done" THEN "done"
  ELSE IF known /\ job[c][m] = "cut" THEN "truncated"
  ELSE IF known /\ job[c][m] \in {"failed", "cancelled"} THEN "error"
  ELSE IF old THEN "timeout" ELSE None

\* One row: its job is looked at; a late one is cancelled before the row is closed.
SyncPoll(c, r) ==
  /\ sync[c][r].pc = "next"
  /\ \E x \in sync[c][r].todo:
       LET v == Value(c, x[1], x[2], sync[c][r].old)
       IN SetSync(c, r, [sync[c][r] EXCEPT !.todo = @ \ {x}, !.model = x[1], !.value = v,
                           !.pc = IF v = None THEN "next"
                                  ELSE IF v = "timeout" /\ x[2] THEN "cancel" ELSE "write"])
  /\ UNCHANGED <<ask, lock, age, row, job, sent, track, faults>>

cancel_model_job(c, r) ==
  /\ sync[c][r].pc = "cancel"
  /\ SetSync(c, r, [sync[c][r] EXCEPT !.pc = "write"])
  /\ \/ /\ job' = [job EXCEPT ![c][sync[c][r].model] = IF @ = "live" THEN "cancelled" ELSE @]
        /\ UNCHANGED faults
     \/ UNCHANGED job /\ Fault
  /\ UNCHANGED <<ask, lock, age, row, sent, track>>

Written_always(status, value) == value
Written(status, value) == IF status = "pending" THEN value ELSE status

\* UPDATE ... WHERE status = 'pending'.
SyncWrite(c, r) ==
  /\ sync[c][r].pc = "write"
  /\ row' = [row EXCEPT ![c][sync[c][r].model].status = Written(@, sync[c][r].value)]
  /\ SetSync(c, r, [sync[c][r] EXCEPT !.pc = "next", !.model = None, !.value = None])
  /\ UNCHANGED <<ask, lock, age, job, sent, track, faults>>

SyncDone(c, r) ==
  /\ sync[c][r].pc = "next" /\ sync[c][r].todo = {}
  /\ SetSync(c, r, NoSync)
  /\ UNCHANGED <<ask, lock, age, row, job, sent, track, faults>>

\* The loop of track ends: nothing is pending, or its deadline has passed.
TrackEnds_early(c) ==
  /\ track[c] = "loop" /\ sync[c]["tracker"].pc = "idle"
  /\ age[c] # "young" \/ \A m \in Model: row[c][m].status # "pending"
  /\ track' = [track EXCEPT ![c] = "ended"]
  /\ UNCHANGED <<ask, lock, age, row, job, sent, sync, faults>>
TrackEnds(c) ==
  /\ track[c] = "loop" /\ sync[c]["tracker"].pc = "idle"
  /\ age[c] = "over" \/ \A m \in Model: row[c][m].status # "pending"
  /\ track' = [track EXCEPT ![c] = "ended"]
  /\ UNCHANGED <<ask, lock, age, row, job, sent, sync, faults>>

-----------------------------------------------------------------------------
(* The rest                                                                 *)

JobEnds(c, m) ==
  /\ job[c][m] = "live"
  /\ \E v \in {"done", "cut", "failed"}: job' = [job EXCEPT ![c][m] = v]
  /\ UNCHANGED <<ask, lock, age, row, sent, sync, track, faults>>

\* ACTIVE_TIMEOUT_S passes; the ten seconds after it hold a whole turn of the
\* tracker's loop, which sleeps for two.
Tick(c) ==
  /\ ask[c].pc = "asked"
  /\ \/ age[c] = "young" /\ age' = [age EXCEPT ![c] = "old"]
     \/ /\ age[c] = "old" /\ c \in Followed
        /\ ~(track[c] = "loop" /\ sync[c]["tracker"].pc # "idle")
        /\ track[c] = "loop" => \A m \in Model: row[c][m].status # "pending"
        /\ track[c] # "fan"
        /\ age' = [age EXCEPT ![c] = "over"]
  /\ UNCHANGED <<ask, lock, row, job, sent, sync, track, faults>>

\* The process restarts: transactions are rolled back, tasks are gone.
Restart ==
  /\ Fault
  /\ ask' = [c \in Caller |-> IF ask[c].pc \in {"asked", "busy"} THEN ask[c]
                              ELSE [ask[c] EXCEPT !.pc = "failed"]]
  /\ lock' = [k \in DOMAIN lock |-> None]
  /\ sync' = [c \in Caller |-> [r \in Runner |-> NoSync]]
  /\ track' = [c \in Caller |-> IF track[c] \in {"fan", "loop"} THEN "lost" ELSE track[c]]
  /\ UNCHANGED <<age, row, job, sent>>

\* A statement of the tracker fails: the task logs and ends.
TrackerDies(c) ==
  /\ Fault
  /\ track[c] \in {"fan", "loop"}
  /\ track' = [track EXCEPT ![c] = "lost"]
  /\ SetSync(c, "tracker", NoSync)
  /\ UNCHANGED <<ask, lock, age, row, job, sent>>

SyncStep(c, r) ==
  SyncRead(c, r) \/ SyncPoll(c, r) \/ cancel_model_job(c, r) \/ SyncWrite(c, r) \/ SyncDone(c, r)

FanOut(c) == (\E m \in Model: submit_model(c, m) \/ SubmitWrite(c, m)) \/ FanOutDone(c)

Next ==
  \/ \E c \in Caller: \/ LockBrowser(c) \/ LockIp(c) \/ Check(c) \/ Insert(c)
                      \/ FanOut(c) \/ TrackEnds(c) \/ Tick(c) \/ TrackerDies(c)
                      \/ \E r \in Runner: SyncStep(c, r)
                      \/ \E m \in Model: JobEnds(c, m)
  \/ Restart

\* The event loop runs every task, and time passes.
Fairness ==
  \A c \in Caller:
    WF_vars(FanOut(c)) /\ WF_vars(SyncStep(c, "tracker")) /\ WF_vars(TrackEnds(c))
      /\ WF_vars(Tick(c))

Spec == Init /\ [][Next]_vars /\ Fairness
-----------------------------------------------------------------------------
\* A browser, and an address, never has two unfinished questions, however many
\* workers check and insert at once (the locks of create_request).
OneActivePerCaller ==
  \A c, d \in Caller: c # d /\ Active(c) /\ Active(d) =>
    ask[c].browser # ask[d].browser /\ (ask[c].ip = NoIp \/ ask[c].ip # ask[d].ip)

KeepsAnswer ==
  \A c \in Caller, m \in Model: row[c][m].status \in {"done", "truncated"} => row'[c][m].status = row[c][m].status

\* An answer that was saved stays: no late timeout, no second sync and no
\* late write of fan_out replaces it.
AnswerKept == [][KeepsAnswer]_vars

\* A question with a living tracker is closed for every model, without anyone
\* looking at the page and whatever the jobs do.
TrackedRowCloses ==
  \A c \in Caller: track[c] = "fan" ~>
    (track[c] = "lost" \/ \A m \in Model: row[c][m].status \in TERMINAL)
=============================================================================
