----------------------------- MODULE CodexGate -----------------------------
(***************************************************************************)
(* The start-up gate of Codex runs.  The login file's token is refreshed by *)
(* a CLI that starts when last_refresh is older than the CLI's own interval;*)
(* two refreshes at once lose the login.  A run whose start-up may refresh  *)
(* holds one lease until its first model event; a recent proof that the     *)
(* login works lets runs skip it.  Time is in units of the settings.        *)
(***************************************************************************)
EXTENDS Integers

CONSTANTS
  Run,
  DueAfter,     \* codex_refresh_due_after_s
  ProofWindow,  \* codex_refresh_proof_s
  ProofMaxAge,  \* codex_refresh_proof_max_age_s
  Interval,     \* external: the age at which the CLI refreshes the token
  StartUp,      \* external: longest start-up of a CLI, up to its first model event
  BusyMax,      \* session_busy_max
  MaxTime       \* bound: length of a behaviour

\* The settings leave a start-up's length before the age at which the CLI
\* refreshes; 0 stands for "no run" in holder.
ASSUME GateAssumption ==
  /\ DueAfter \in Nat /\ ProofWindow \in Nat /\ ProofMaxAge \in Nat
  /\ Interval \in Nat /\ StartUp \in Nat /\ BusyMax \in Nat /\ MaxTime \in Nat
  /\ ProofMaxAge + StartUp <= Interval /\ DueAfter + StartUp <= Interval
  /\ 0 \notin Run

None == -1

VARIABLES
  now,
  written,  \* when the token was last refreshed
  last,     \* last_refresh as the broker reads it from the file; None if it cannot
  proof,    \* RefreshProof: the proven timestamp and when it was proven
  holder,   \* the run that holds the "__codex_auth__" lease, 0 for none
  run       \* per slot of the worker: where its run is, what it decided on, since when

vars == <<now, written, last, proof, holder, run>>

Queued == [pc |-> "queued", before |-> None, since |-> 0, busy |-> 0]

Init ==
  /\ now = 0 /\ written = 0 /\ last \in {0, None}
  /\ proof = [last |-> None, at |-> 0]
  /\ holder = 0
  /\ run = [r \in Run |-> Queued]

\* A missing or unreadable timestamp counts as due.
refresh_due == last = None \/ now - last >= DueAfter

covers_anyAge ==
  /\ ProofWindow > 0 /\ last # None /\ last = proof.last
  /\ now - proof.at <= ProofWindow
covers ==
  /\ ProofWindow > 0 /\ last # None /\ last = proof.last
  /\ now - last < ProofMaxAge
  /\ now - proof.at <= ProofWindow

\* Proof only when the timestamp was readable and did not change meanwhile.
record(before) ==
  IF before = None \/ last # before THEN proof ELSE [last |-> before, at |-> now]

Set(r, v) == run' = [run EXCEPT ![r] = v]
\* _codex_auth_gate reads the file once: start at once, or wait for the lease.
Decide(r) ==
  /\ run[r].pc = "queued"
  /\ Set(r, [run[r] EXCEPT !.pc = IF refresh_due /\ ~covers THEN "wait" ELSE "start",
                           !.before = last, !.since = now])
  /\ UNCHANGED <<now, written, last, proof, holder>>

Acquire(r) ==
  /\ run[r].pc = "wait" /\ holder = 0
  /\ holder' = r
  /\ Set(r, [run[r] EXCEPT !.pc = "start", !.since = now])
  /\ UNCHANGED <<now, written, last, proof>>

\* Cancelled while it waited, or codex_auth_wait_s passed: requeued, then failed.
GiveUp_never(r) == FALSE /\ UNCHANGED vars
GiveUp(r) ==
  /\ run[r].pc = "wait" /\ holder # 0
  /\ \/ Set(r, Queued)
     \/ Set(r, IF run[r].busy < BusyMax THEN [Queued EXCEPT !.busy = run[r].busy + 1]
               ELSE Queued)
  /\ UNCHANGED <<now, written, last, proof, holder>>

\* External: the starting CLI finds its token too old and refreshes it.
Refresh(r) ==
  /\ run[r].pc = "start" /\ now - written >= Interval
  /\ Set(r, [run[r] EXCEPT !.pc = "refresh"])
  /\ UNCHANGED <<now, written, last, proof, holder>>

Rotated(r) ==
  /\ run[r].pc = "refresh"
  /\ written' = now /\ last' = IF last = None THEN None ELSE now
  /\ Set(r, [run[r] EXCEPT !.pc = "start"])
  /\ UNCHANGED <<now, proof, holder>>

\* The first event of a completed model call: a gated run records its proof
\* and opens the gate.
FirstEvent_keepsGate(r) ==
  /\ run[r].pc = "start" /\ now - written < Interval
  /\ proof' = IF holder = r THEN record(run[r].before) ELSE proof
  /\ Set(r, [Queued EXCEPT !.pc = "going"])
  /\ UNCHANGED <<now, written, last, holder>>
FirstEvent(r) ==
  /\ run[r].pc = "start"
  /\ now - written < Interval
  /\ proof' = IF holder = r THEN record(run[r].before) ELSE proof
  /\ holder' = IF holder = r THEN 0 ELSE holder
  /\ Set(r, [Queued EXCEPT !.pc = "going"])
  /\ UNCHANGED <<now, written, last>>

\* The run ends, or its gate's lease is lost: the CLI is stopped before the
\* gate opens, and the slot takes another run.
Finish(r) ==
  /\ run[r].pc \in {"start", "refresh", "going"}
  /\ holder' = IF holder = r THEN 0 ELSE holder
  /\ Set(r, Queued)
  /\ UNCHANGED <<now, written, last, proof>>

\* The operator logs in again, or the file cannot be read for a while.
FileChanges ==
  /\ \A r \in Run: run[r].pc # "refresh"
  /\ \/ last' = (IF last = None THEN written ELSE None) /\ UNCHANGED written
     \/ written # now /\ written' = now /\ last' = now
  /\ UNCHANGED <<now, proof, holder, run>>

Tick ==
  /\ now < MaxTime
  /\ \A r \in Run: run[r].pc \in {"start", "refresh"} => now - run[r].since < StartUp
  /\ now' = now + 1
  /\ UNCHANGED <<written, last, proof, holder, run>>

Next ==
  \/ \E r \in Run: \/ Decide(r) \/ Acquire(r) \/ GiveUp(r) \/ Refresh(r) \/ Rotated(r)
                   \/ FirstEvent(r) \/ Finish(r)
  \/ FileChanges \/ Tick

\* A waiting run polls the lease, and a started CLI ends.
Fairness == \A r \in Run: WF_vars(Acquire(r) \/ GiveUp(r)) /\ WF_vars(Finish(r))
Spec == Init /\ [][Next]_vars /\ Fairness

-----------------------------------------------------------------------------
TypeOK ==
  /\ holder \in Run \cup {0}
  /\ holder # 0 => run[holder].pc \in {"start", "refresh"}
  /\ \A r \in Run: run[r].busy \in 0..BusyMax

\* The shared token is refreshed for its age only by the run that holds the
\* lease, so never by two at once, although runs that a proof lets through
\* hold none and the file may change or become unreadable at any time
\* (codex_refresh_proof's claim about max_age_s).
RefreshUnderLease == \A r \in Run: run[r].pc = "refresh" => holder = r

\* A run never waits for the gate forever: it starts, is requeued, or ends.
GateWaitEnds == \A r \in Run: run[r].pc = "wait" ~> run[r].pc # "wait"
=============================================================================
