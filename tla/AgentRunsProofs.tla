--------------------------- MODULE AgentRunsProofs ---------------------------
(* Proofs about AgentRuns, AgentAccess, RunFiles, ServedModel and          *)
(* AccountPick, for every set of runs, slots, actors, accounts, policies,  *)
(* files and models.                                                       *)
EXTENDS MCAgentWork, SequenceTheorems, FiniteSetTheorems, Sums, TLAPS

(* The fields of a replaced record.                                        *)
LEMMA ExecFields ==
  ASSUME NEW x \in ExecState, NEW p \in Phase, NEW q \in Outcome, NEW n \in Nat
  PROVE  /\ [x EXCEPT !.phase = p] \in ExecState
         /\ [x EXCEPT !.phase = p].phase = p
         /\ [x EXCEPT !.phase = p].run = x.run
         /\ [x EXCEPT !.phase = p].tx = x.tx
         /\ [x EXCEPT !.phase = p].seq = x.seq
         /\ [x EXCEPT !.phase = p].out = x.out
         /\ [x EXCEPT !.phase = p, !.out = q] \in ExecState
         /\ [x EXCEPT !.phase = p, !.out = q].phase = p
         /\ [x EXCEPT !.phase = p, !.out = q].run = x.run
         /\ [x EXCEPT !.phase = p, !.out = q].tx = x.tx
         /\ [x EXCEPT !.phase = p, !.out = q].seq = x.seq
         /\ [x EXCEPT !.phase = p, !.out = q].out = q
  BY DEF ExecState

(* The empty execution and the empty request.                              *)
LEMMA NoExecFields ==
  /\ NoExec \in ExecState /\ NoExec.phase = "idle" /\ NoExec.tx = FALSE
  /\ NoOp \in OpState /\ NoOp.phase = "idle" /\ NoOp.tx = FALSE
  BY DEF NoExec, NoOp, ExecState, OpState, Phase

(* The initial state.                                                      *)
LEMMA InitInv == Init => RunInv
  <1> SUFFICES ASSUME Init PROVE RunInv
    OBVIOUS
  <1> USE RunAssumption DEF Init
  <1>1. TypeOK
    BY NoExecFields DEF TypeOK
  <1>2. LogSound
    BY DEF LogSound, Open, Closed
  <1>3. \A s \in Slot : ex[s].phase = "idle" /\ ex[s].tx = FALSE
    BY NoExecFields
  <1>4. \A o \in Client \cup Sweeper : op[o].phase = "idle" /\ op[o].tx = FALSE
    BY NoExecFields
  <1>5. ExecsSound
    BY <1>3 DEF ExecsSound, ExecShape, Snapshot
  <1>6. OpsSound
    BY <1>4 DEF OpsSound, OpShape, Snapshot
  <1>7. OneOwner
    BY <1>3 DEF OneOwner, Active, PreStart, Driving
  <1>8. StartsPaid
    BY <1>3 DEF StartsPaid, NeverRerun, PreStart
  <1>9. LateSeen
    BY <1>3 DEF LateSeen, OneLateStart, PreStart
  <1> QED
    BY <1>1, <1>2, <1>5, <1>6, <1>7, <1>8, <1>9 DEF RunInv

(* A step that only moves one execution on.                                *)
LEMMA ExecMoves ==
  ASSUME RunInv, NEW s \in Slot, NEW y \in ExecState,
         ex' = [ex EXCEPT ![s] = y],
         UNCHANGED <<job, run, events, op, starts, late>>, deaths' \in 0 .. MaxDeaths,
         ExecShape(y), Snapshot(y),
         y.phase = "park" => run[y.run].waits < MaxWaits,
         y.phase \in Active => ex[s].phase \in Active /\ y.run = ex[s].run,
         y.phase \in {"claimed"} \cup PreStart => ex[s].phase \in {"claimed"} \cup PreStart,
         y.phase \in PreStart => ex[s].phase \in PreStart \/ late[y.run] = 0
  PROVE  RunInv'
  <1> USE DEF RunInv
  <1>0. ex \in [Slot -> ExecState]
    BY DEF TypeOK
  <1>1. ex'[s] = y /\ \A t \in Slot : t # s => ex'[t] = ex[t]
    BY <1>0
  <1>2. TypeOK'
    BY <1>0 DEF TypeOK
  <1>3. LogSound'
    BY DEF LogSound, Open
  <1>4. ExecsSound'
    BY <1>1 DEF ExecsSound, ExecShape, Snapshot, Open
  <1>5. OpsSound'
    BY DEF OpsSound, OpShape, Snapshot, Open
  <1>7. OneOwner'
    <2>1. \A t \in Slot : ex'[t].phase \in Active => ex[t].phase \in Active /\ ex'[t].run = ex[t].run
      BY <1>1
    <2> QED
      BY <2>1 DEF OneOwner
  <1>8. StartsPaid'
    <2>1. \A t \in Slot : ex'[t].phase \in {"claimed"} \cup PreStart =>
            ex[t].phase \in {"claimed"} \cup PreStart /\ ex'[t].run = ex[t].run
      BY <1>1 DEF Active
    <2> QED
      BY <2>1 DEF StartsPaid, NeverRerun
  <1>9. LateSeen'
    <2>1. \A t \in Slot : ex'[t].phase \in PreStart => late[ex'[t].run] = 0
      <3> SUFFICES ASSUME NEW t \in Slot, ex'[t].phase \in PreStart PROVE late[ex'[t].run] = 0
        OBVIOUS
      <3>1. CASE t # s
        BY <3>1, <1>1 DEF LateSeen
      <3>2. CASE t = s
        BY <3>2, <1>1 DEF LateSeen, Active
      <3> QED BY <3>1, <3>2
    <2> QED
      BY <2>1 DEF LateSeen, OneLateStart, Open
  <1> QED
    BY <1>2, <1>3, <1>4, <1>5, <1>7, <1>8, <1>9

(* An execution ends, and nothing else changes.                            *)
LEMMA EndMoves ==
  ASSUME RunInv, NEW s \in Slot, Ends(s),
         UNCHANGED <<job, run, events, op, starts, late>>, deaths' \in 0 .. MaxDeaths
  PROVE  RunInv'
  <1>1. NoExec.phase \notin Active /\ NoExec.phase # "park" /\ NoExec.phase # "finish"
    BY NoExecFields DEF Active, PreStart, Driving
  <1>2. ExecShape(NoExec) /\ Snapshot(NoExec)
    BY NoExecFields DEF ExecShape, Snapshot
  <1>3. ex' = [ex EXCEPT ![s] = NoExec]
    BY DEF Ends, Go
  <1> QED
    BY <1>1, <1>2, <1>3, ExecMoves, NoExecFields DEF Active

(* An execution outside a write turns to its last write.                   *)
LEMMA FinishMoves ==
  ASSUME RunInv, NEW s \in Slot, NEW q \in Outcome, Finish(s, q),
         ex[s].phase \notin Writes \cup {"idle"},
         UNCHANGED <<job, run, events, op, starts, late>>, deaths' \in 0 .. MaxDeaths
  PROVE  RunInv'
  <1> DEFINE y == [ex[s] EXCEPT !.phase = "finish", !.out = q]
  <1>1. ex[s] \in ExecState /\ ex[s].run \in Run /\ ~ex[s].tx
    BY DEF RunInv, TypeOK, ExecsSound, ExecShape, ExecState
  <1>2. /\ y \in ExecState /\ y.phase = "finish" /\ y.run = ex[s].run /\ y.tx = ex[s].tx
        /\ y.out = q
    BY <1>1, ExecFields DEF Phase, ExecState
  <1>3. ex' = [ex EXCEPT ![s] = y]
    BY DEF Finish, Go
  <1> HIDE DEF y
  <1>4. ExecShape(y) /\ Snapshot(y)
    BY <1>1, <1>2 DEF ExecShape, Snapshot
  <1>5. y.phase \notin Active /\ y.phase # "park"
    BY <1>2 DEF Active, PreStart, Driving
  <1> QED
    BY <1>2, <1>3, <1>4, <1>5, ExecMoves DEF Active

(* An execution outside a write moves on within its active phases.         *)
LEMMA ToMoves ==
  ASSUME RunInv, NEW s \in Slot, NEW p \in Active, To(s, p),
         ex[s].phase \in Active, ex[s].phase \notin Writes,
         p = "park" => run[ex[s].run].waits < MaxWaits,
         p \in {"claimed"} \cup PreStart => ex[s].phase \in {"claimed"} \cup PreStart,
         p \in PreStart => ex[s].phase \in PreStart \/ late[ex[s].run] = 0,
         UNCHANGED <<job, run, events, op, starts, late>>, deaths' \in 0 .. MaxDeaths
  PROVE  RunInv'
  <1> DEFINE y == [ex[s] EXCEPT !.phase = p]
  <1>0. p \in Phase /\ p # "finish" /\ ex[s].phase # "idle"
    BY DEF Active, PreStart, Driving, Phase
  <1>1. ex[s] \in ExecState /\ ex[s].run \in Run /\ ~ex[s].tx
    BY <1>0 DEF RunInv, TypeOK, ExecsSound, ExecShape, ExecState
  <1>2. y \in ExecState /\ y.phase = p /\ y.run = ex[s].run /\ y.tx = ex[s].tx
    BY <1>0, <1>1, ExecFields DEF ExecState
  <1>3. ex' = [ex EXCEPT ![s] = y]
    BY DEF To, Go
  <1> HIDE DEF y
  <1>4. ExecShape(y) /\ Snapshot(y)
    BY <1>0, <1>1, <1>2 DEF ExecShape, Snapshot
  <1> QED
    BY <1>2, <1>3, <1>4, ExecMoves

(* A step that leaves the death count alone keeps its bound.               *)
LEMMA DeathsBounded == RunInv /\ UNCHANGED deaths => deaths' \in 0 .. MaxDeaths
  BY DEF RunInv, TypeOK

(* execute_run's first reads keep the invariant.                           *)
LEMMA BeginInv == ASSUME RunInv, NEW s \in Slot, Begin(s) PROVE RunInv'
  <1> DEFINE r == ex[s].run
  <1>0. /\ ex[s].phase = "claimed" /\ ex[s].phase \in Active
        /\ ex[s].phase \notin Writes \cup {"idle"}
    BY DEF Begin, Active, Writes
  <1>1. UNCHANGED <<job, run, events, op, starts, late>> /\ deaths' \in 0 .. MaxDeaths
    BY DeathsBounded DEF Begin, Still, hist
  <1>2. CASE Ends(s)
    BY <1>1, <1>2, EndMoves
  <1>3. CASE \E out \in {"failed", "timed_out", "cancelled"} : Finish(s, out)
    BY <1>0, <1>1, <1>3, FinishMoves DEF Outcome
  <1>4. CASE Open(r) /\ ~run[r].cancel /\ To(s, IF run[r].resume THEN "lease" ELSE "gate")
    <2>1. r \in Run
      BY <1>0 DEF RunInv, ExecsSound, ExecShape
    <2>2. late[r] = 0
      BY <1>4, <2>1 DEF RunInv, LateSeen, TypeOK
    <2> DEFINE p == IF run[r].resume THEN "lease" ELSE "gate"
    <2>3. p \in PreStart /\ p \in Active /\ p # "park"
      BY DEF PreStart, Active
    <2>4. To(s, p)
      BY <1>4
    <2> HIDE DEF p
    <2> QED
      BY <1>0, <1>1, <2>2, <2>3, <2>4, ToMoves
  <1> QED
    BY <1>2, <1>3, <1>4 DEF Begin

(* The login gate, passed, cancelled or busy.                              *)
LEMMA PassGateInv == ASSUME RunInv, NEW s \in Slot, PassGate(s) PROVE RunInv'
  <1>0. /\ ex[s].phase = "gate" /\ ex[s].phase \in Active /\ ex[s].phase \in PreStart
        /\ ex[s].phase \notin Writes \cup {"idle"}
        /\ "start" \in Active /\ "busy" \in Active
    BY DEF PassGate, Active, PreStart, Writes
  <1>1. UNCHANGED <<job, run, events, op, starts, late>> /\ deaths' \in 0 .. MaxDeaths
    BY DeathsBounded DEF PassGate, Still, hist
  <1>2. CASE To(s, "start")
    BY <1>0, <1>1, <1>2, ToMoves
  <1>3. CASE To(s, "busy")
    BY <1>0, <1>1, <1>3, ToMoves
  <1>4. CASE Finish(s, "cancelled")
    BY <1>0, <1>1, <1>4, FinishMoves DEF Outcome
  <1> QED
    BY <1>2, <1>3, <1>4 DEF PassGate

(* An item of the CLI, its end, its limit or a timeout.                    *)
LEMMA StreamInv == ASSUME RunInv, NEW s \in Slot, Stream(s) PROVE RunInv'
  <1>0. /\ ex[s].phase = "stream" /\ ex[s].phase \in Active
        /\ ex[s].phase \notin Writes \cup {"idle"}
        /\ \A p \in {"event", "quota"} : p \in Active /\ p \notin {"claimed"} \cup PreStart
    BY DEF Stream, Active, Driving, PreStart, Writes
  <1>1. UNCHANGED <<job, run, events, op, starts, late>> /\ deaths' \in 0 .. MaxDeaths
    BY DeathsBounded DEF Stream, Still, hist
  <1>2. CASE \E p \in {"event", "quota"} : To(s, p)
    BY <1>0, <1>1, <1>2, ToMoves
  <1>3. CASE \E out \in Outcome : Finish(s, out)
    BY <1>0, <1>1, <1>3, FinishMoves
  <1> QED
    BY <1>2, <1>3 DEF Stream, Outcome

(* _wait_for_quota parks only while another wait fits.                     *)
LEMMA QuotaInv == ASSUME RunInv, NEW s \in Slot, Quota(s) PROVE RunInv'
  <1>0. /\ ex[s].phase = "quota" /\ ex[s].phase \in Active
        /\ ex[s].phase \notin Writes \cup {"idle"}
        /\ "park" \in Active /\ "park" \notin {"claimed"} \cup PreStart
    BY DEF Quota, Active, Driving, PreStart, Writes
  <1>1. UNCHANGED <<job, run, events, op, starts, late>> /\ deaths' \in 0 .. MaxDeaths
    BY DeathsBounded DEF Quota, Still, hist
  <1>2. CASE run[ex[s].run].waits < MaxWaits /\ To(s, "park")
    BY <1>0, <1>1, <1>2, ToMoves
  <1>3. CASE Finish(s, "failed")
    BY <1>0, <1>1, <1>3, FinishMoves DEF Outcome
  <1> QED
    BY <1>2, <1>3 DEF Quota

(* A lost login gate ends the run.                                         *)
LEMMA GateLostInv == ASSUME RunInv, NEW s \in Slot, GateLost(s) PROVE RunInv'
  <1>0. ex[s].phase \notin Writes \cup {"idle"}
    BY DEF GateLost, Writes
  <1>1. UNCHANGED <<job, run, events, op, starts, late>> /\ deaths' \in 0 .. MaxDeaths
    BY DeathsBounded DEF GateLost, Still, hist
  <1> QED
    BY <1>0, <1>1, FinishMoves DEF GateLost, Outcome

(* A task that dies leaves its rows as they are.                           *)
LEMMA DiesInv == ASSUME RunInv, NEW s \in Slot, Dies(s) PROVE RunInv'
  <1>1. deaths' \in 0 .. MaxDeaths
    BY RunAssumption DEF Dies, RunInv, TypeOK
  <1> QED
    BY <1>1, EndMoves DEF Dies, hist

(* A writer that lost its number ends without a trace.                     *)
LEMMA CollidesInv == ASSUME RunInv, NEW s \in Slot, WriteCollides(s) PROVE RunInv'
  BY DeathsBounded, EndMoves DEF WriteCollides, hist

(* The read of a write takes a sound snapshot.                             *)
LEMMA BeginWriteInv == ASSUME RunInv, NEW s \in Slot, BeginWrite(s) PROVE RunInv'
  <1> DEFINE x == ex[s]
             r == x.run
             y == [x EXCEPT !.tx = TRUE, !.seq = run[r].last_seq]
  <1>0. x.phase \in Writes /\ x.phase # "idle"
    BY DEF BeginWrite, Writes
  <1>1. UNCHANGED <<job, run, events, op, starts, late>> /\ deaths' \in 0 .. MaxDeaths
    BY DeathsBounded DEF BeginWrite, hist
  <1>2. CASE Ends(s)
    BY <1>1, <1>2, EndMoves
  <1>3. CASE Open(r) /\ Go(s, y)
    <2>1. x \in ExecState /\ r \in Run /\ run[r].last_seq \in Nat /\ ExecShape(x)
      BY <1>0 DEF RunInv, TypeOK, ExecsSound, ExecShape
    <2>2. /\ y \in ExecState /\ y.phase = x.phase /\ y.run = r /\ y.out = x.out
          /\ y.seq = run[r].last_seq
      BY <2>1 DEF ExecState
    <2>3. ex' = [ex EXCEPT ![s] = y]
      BY <1>3 DEF Go
    <2> HIDE DEF y
    <2>4. ExecShape(y) /\ Snapshot(y)
      BY <1>0, <1>3, <2>1, <2>2 DEF ExecShape, Snapshot
    <2>5. y.phase = "park" => run[y.run].waits < MaxWaits
      BY <2>2 DEF RunInv, ExecsSound
    <2> QED
      BY <1>1, <2>2, <2>3, <2>4, <2>5, ExecMoves
  <1> QED
    BY <1>2, <1>3 DEF BeginWrite

(* A run is put back by the execution that owns it, before its CLI.        *)
LEMMA PutBackInv ==
  ASSUME RunInv, NEW s \in Slot, ex[s].phase \in {"lease", "busy"}, PutBack(s),
         UNCHANGED <<run, events, op, starts, late, deaths>>
  PROVE  RunInv'
  <1> DEFINE r == ex[s].run
             y == ex'[s]
  <1> USE DEF RunInv
  <1>0. /\ ex[s].phase \in PreStart /\ ex[s].phase \in Active
        /\ ex[s].phase \notin Writes /\ ex[s].phase # "idle"
    BY DEF PreStart, Active, Writes
  <1>1. /\ ex \in [Slot -> ExecState] /\ ex[s] \in ExecState /\ r \in Run /\ ~ex[s].tx
        /\ job[r].retries \in Nat
    BY <1>0 DEF TypeOK, ExecsSound, ExecShape, ExecState
  <1>2. /\ y \in ExecState /\ y.phase \in {"finish", "idle"} /\ y.tx = FALSE
        /\ y.phase = "finish" => y.run = r /\ y.out = "failed"
        /\ ex' = [ex EXCEPT ![s] = y]
    <2>1. CASE Ends(s)
      BY <1>1, <2>1, NoExecFields DEF Ends, Go
    <2>2. CASE Finish(s, "failed")
      <3> DEFINE z == [ex[s] EXCEPT !.phase = "finish", !.out = "failed"]
      <3>1. /\ z \in ExecState /\ z.phase = "finish" /\ z.run = r /\ z.tx = ex[s].tx
            /\ z.out = "failed"
        BY <1>1, ExecFields DEF Phase, ExecState, Outcome
      <3>2. ex' = [ex EXCEPT ![s] = z]
        BY <2>2 DEF Finish, Go
      <3> HIDE DEF z
      <3>3. ex'[s] = z
        BY <1>1, <3>2
      <3>4. ex[s].tx = FALSE
        BY <1>1 DEF ExecState
      <3> QED
        BY <3>1, <3>2, <3>3, <3>4
    <2> QED
      BY <2>1, <2>2 DEF PutBack
  <1>3. \A t \in Slot : t # s => ex'[t] = ex[t]
    BY <1>1, <1>2
  <1>4. y.phase \notin Active /\ y.phase # "park"
    BY <1>2 DEF Active, PreStart, Driving
  <1>5. /\ job' = [job EXCEPT ![r] = [status |-> "pending", retries |-> @.retries + 1]]
        /\ \A q \in Run : q # r => job'[q] = job[q]
        /\ job'[r].status = "pending"
    BY <1>1 DEF PutBack, Requeue, TypeOK
  <1> HIDE DEF y
  <1>6. TypeOK'
    <2>1. job' \in [Run -> [status : {"none", "pending", "running"} \cup Closed, retries : Nat]]
      BY <1>1, <1>5 DEF TypeOK
    <2>2. ex' \in [Slot -> ExecState]
      BY <1>1, <1>2
    <2> QED
      BY <2>1, <2>2 DEF TypeOK
  <1>7. LogSound'
    BY <1>5 DEF LogSound, Open, Closed
  <1>8. ExecsSound'
    <2>1. ExecShape(y) /\ y.tx = FALSE
      BY <1>1, <1>2 DEF ExecShape, Outcome
    <2> QED
      BY <2>1, <1>2, <1>3, <1>4 DEF ExecsSound, ExecShape, Snapshot, Open, y
  <1>9. OpsSound'
    BY DEF OpsSound, OpShape, Snapshot, Open
  <1>10. \A t \in Slot : ex'[t].phase \in Active =>
           t # s /\ ex'[t] = ex[t] /\ ex[t].run \in Run /\ ex[t].run # r
    <2> SUFFICES ASSUME NEW t \in Slot, ex'[t].phase \in Active
                 PROVE t # s /\ ex'[t] = ex[t] /\ ex[t].run \in Run /\ ex[t].run # r
      OBVIOUS
    <2>1. t # s
      BY <1>4 DEF y
    <2>2. ex'[t] = ex[t]
      BY <2>1, <1>3
    <2>3. ex[t].run \in Run
      BY <2>2 DEF ExecsSound, ExecShape, Active, PreStart, Driving
    <2> QED
      BY <2>1, <2>2, <2>3, <1>0 DEF OneOwner
  <1>11. OneOwner'
    BY <1>5, <1>10 DEF OneOwner
  <1>12. StartsPaid'
    <2>1. starts[r] <= run[r].waits
      BY <1>0 DEF StartsPaid
    <2>2. \A t \in Slot : ex'[t].phase \in {"claimed"} \cup PreStart => ex'[t] = ex[t]
      BY <1>10 DEF Active
    <2> QED
      BY <2>1, <2>2, <1>5 DEF StartsPaid, NeverRerun
  <1>13. LateSeen'
    <2>1. \A t \in Slot : ex'[t].phase \in PreStart => ex'[t] = ex[t]
      BY <1>10 DEF Active
    <2> QED
      BY <2>1 DEF LateSeen, OneLateStart, Open
  <1> QED
    BY <1>6, <1>7, <1>8, <1>9, <1>11, <1>12, <1>13

(* A run is put back from the login gate.                                  *)
LEMMA GateBusyInv == ASSUME RunInv, NEW s \in Slot, GateBusy(s) PROVE RunInv'
  BY PutBackInv DEF GateBusy, Still, hist

(* The session's lease is granted, or the run is put back.                 *)
LEMMA TakeLeaseInv == ASSUME RunInv, NEW s \in Slot, TakeLease(s) PROVE RunInv'
  <1>1. CASE PutBack(s)
    BY <1>1, PutBackInv DEF TakeLease, Still, hist
  <1> DEFINE y == [ex[s] EXCEPT !.phase = "gate", !.leased = TRUE]
  <1>2. CASE Go(s, y) /\ UNCHANGED job
    <2>0. /\ ex[s].phase = "lease" /\ ex[s].phase \in PreStart /\ ex[s].phase \in Active
          /\ ex[s].phase \notin Writes
      BY DEF TakeLease, PreStart, Active, Writes
    <2>1. ex[s] \in ExecState /\ ex[s].run \in Run /\ ~ex[s].tx
      BY <2>0 DEF RunInv, TypeOK, ExecsSound, ExecShape, ExecState
    <2>2. y \in ExecState /\ y.phase = "gate" /\ y.run = ex[s].run /\ y.tx = ex[s].tx
      BY <2>1 DEF ExecState, Phase, PreStart
    <2>3. ex' = [ex EXCEPT ![s] = y]
      BY <1>2 DEF Go
    <2> HIDE DEF y
    <2>4. ExecShape(y) /\ Snapshot(y)
      BY <2>1, <2>2 DEF ExecShape, Snapshot
    <2>5. UNCHANGED <<job, run, events, op, starts, late>> /\ deaths' \in 0 .. MaxDeaths
      BY <1>2, DeathsBounded DEF TakeLease, Still, hist
    <2> QED
      BY <2>0, <2>2, <2>3, <2>4, <2>5, ExecMoves
  <1> QED
    BY <1>1, <1>2 DEF TakeLease

(* The checks between run.started and billing.attested.                    *)
LEMMA PrepareInv == ASSUME RunInv, NEW s \in Slot, Prepare(s) PROVE RunInv'
  <1>0. /\ ex[s].phase = "prep" /\ ex[s].phase \in Active /\ ex[s].phase \in PreStart
        /\ ex[s].phase \notin Writes \cup {"idle"}
        /\ "attest" \in Active /\ "attest" \in PreStart
    BY DEF Prepare, Active, PreStart, Writes
  <1>1. UNCHANGED <<job, run, events, op, starts, late>> /\ deaths' \in 0 .. MaxDeaths
    BY DeathsBounded DEF Prepare, Still, hist
  <1>2. CASE To(s, "attest")
    BY <1>0, <1>1, <1>2, ToMoves
  <1>3. CASE Finish(s, "failed")
    BY <1>0, <1>1, <1>3, FinishMoves DEF Outcome
  <1> QED
    BY <1>2, <1>3 DEF Prepare

(* The start of a CLI: the only step that counts one.                      *)
LEMMA StartCliInv == ASSUME RunInv, NEW s \in Slot, StartCli(s) PROVE RunInv'
  <1> DEFINE r == ex[s].run
  <1>0. /\ ex[s].phase = "ready" /\ ex[s].phase \in PreStart /\ ex[s].phase \in Active
        /\ ex[s].phase \notin Writes \cup {"idle"}
        /\ "stream" \in Phase /\ "stream" \in Active /\ "stream" \notin {"claimed"} \cup PreStart
    BY DEF StartCli, PreStart, Active, Driving, Writes, Phase
  <1>1. UNCHANGED <<job, run, events, op, deaths>>
    BY DEF StartCli, Still
  <1>2. CASE Finish(s, "failed") /\ UNCHANGED hist
    BY <1>0, <1>1, <1>2, FinishMoves, DeathsBounded DEF Outcome, hist
  <1> DEFINE y == [ex[s] EXCEPT !.phase = "stream"]
             n == IF run[r].cancel \/ ~Open(r) THEN late[r] + 1 ELSE late[r]
  <1>3. CASE /\ To(s, "stream")
             /\ starts' = [starts EXCEPT ![r] = @ + 1]
             /\ late' = [late EXCEPT ![r] = IF run[r].cancel \/ ~Open(r) THEN @ + 1 ELSE @]
    <2> USE DEF RunInv
    <2>1. ex \in [Slot -> ExecState] /\ ex[s] \in ExecState /\ r \in Run /\ ~ex[s].tx
      BY <1>0 DEF TypeOK, ExecsSound, ExecShape, ExecState
    <2>2. y \in ExecState /\ y.phase = "stream" /\ y.run = r /\ y.tx = ex[s].tx
      BY <1>0, <2>1, ExecFields DEF ExecState
    <2>3. ex' = [ex EXCEPT ![s] = y]
      BY <1>3 DEF To, Go
    <2>4. starts[r] \in Nat /\ late[r] = 0 /\ starts[r] <= run[r].waits /\ run[r].waits \in Nat
      BY <1>0, <2>1, RunAssumption DEF TypeOK, StartsPaid, LateSeen
    <2>5. n \in {0, 1} /\ (n > 0 => run[r].cancel \/ ~Open(r))
      BY <2>4
    <2>6. /\ starts' = [starts EXCEPT ![r] = starts[r] + 1] /\ late' = [late EXCEPT ![r] = n]
      BY <1>3
    <2> HIDE DEF y, n
    <2>7. ex'[s] = y /\ \A t \in Slot : t # s => ex'[t] = ex[t]
      BY <2>1, <2>3
    <2>8. /\ starts'[r] = starts[r] + 1 /\ late'[r] = n
          /\ \A q \in Run : q # r => starts'[q] = starts[q] /\ late'[q] = late[q]
      BY <2>1, <2>6 DEF TypeOK
    <2>9. \A t \in Slot : ex'[t].phase \in {"claimed"} \cup PreStart =>
            ex'[t] = ex[t] /\ ex[t].run \in Run /\ ex[t].run # r
      <3> SUFFICES ASSUME NEW t \in Slot, ex'[t].phase \in {"claimed"} \cup PreStart
                   PROVE ex'[t] = ex[t] /\ ex[t].run \in Run /\ ex[t].run # r
        OBVIOUS
      <3>1. t # s /\ ex'[t] = ex[t]
        BY <1>0, <2>2, <2>7
      <3>2. ex[t].run \in Run
        BY <3>1 DEF ExecsSound, ExecShape, PreStart
      <3> QED
        BY <3>1, <3>2, <1>0 DEF OneOwner, Active
    <2>10. TypeOK'
      <3>1. starts' \in [Run -> Nat] /\ late' \in [Run -> Nat]
        <4>1. starts[r] + 1 \in Nat /\ n \in Nat
          BY <2>4, <2>5
        <4>2. starts \in [Run -> Nat] /\ late \in [Run -> Nat]
          BY DEF TypeOK
        <4> QED
          BY <2>6, <4>1, <4>2
      <3>2. ex' \in [Slot -> ExecState]
        BY <2>1, <2>2, <2>3
      <3> QED
        BY <1>1, <3>1, <3>2 DEF TypeOK
    <2>11. LogSound' /\ OpsSound'
      BY <1>1 DEF LogSound, OpsSound, OpShape, Snapshot, Open
    <2>12. ExecsSound'
      <3>1. ExecShape(y) /\ ~y.tx /\ y.phase # "park"
        BY <2>1, <2>2 DEF ExecShape
      <3> QED
        BY <1>1, <2>7, <3>1 DEF ExecsSound, ExecShape, Snapshot, Open
    <2>13. OneOwner'
      <3>1. \A t \in Slot : ex'[t].phase \in Active => ex[t].phase \in Active /\ ex'[t].run = ex[t].run
        BY <1>0, <2>2, <2>7
      <3> QED
        BY <1>1, <3>1 DEF OneOwner
    <2>14. StartsPaid'
      <3>1. job[r].status \notin {"none", "pending"}
        BY <1>0 DEF OneOwner
      <3> QED
        BY <1>1, <2>4, <2>8, <2>9, <3>1 DEF StartsPaid, NeverRerun
    <2>15. LateSeen'
      BY <1>1, <2>5, <2>8, <2>9 DEF LateSeen, OneLateStart, Open
    <2> QED
      BY <2>10, <2>11, <2>12, <2>13, <2>14, <2>15
  <1> QED
    BY <1>2, <1>3 DEF StartCli

(* A step of a client or a sweeper that writes nothing but a flag.         *)
LEMMA OpMoves ==
  ASSUME RunInv, NEW o \in Client \cup Sweeper, NEW y \in OpState,
         op' = [op EXCEPT ![o] = y],
         UNCHANGED <<job, run, events, ex, deaths, starts, late>>,
         OpShape(y), Snapshot(y)
  PROVE  RunInv'
  <1> USE DEF RunInv
  <1>1. op'[o] = y /\ \A i \in Client \cup Sweeper : i # o => op'[i] = op[i]
    BY DEF TypeOK
  <1>2. TypeOK'
    BY DEF TypeOK
  <1>3. LogSound' /\ ExecsSound'
    BY DEF LogSound, ExecsSound, ExecShape, Snapshot, Open
  <1>4. OpsSound'
    BY <1>1 DEF OpsSound, OpShape, Snapshot, Open
  <1>5. OneOwner' /\ StartsPaid' /\ LateSeen'
    BY DEF OneOwner, StartsPaid, NeverRerun, LateSeen, OneLateStart, Open
  <1> QED
    BY <1>2, <1>3, <1>4, <1>5

(* A request aimed at a run.                                               *)
LEMMA AimMoves ==
  ASSUME RunInv, NEW o \in Client \cup Sweeper, NEW r \in Run,
         NEW p \in {"flag", "close", "unclaimed"}, NEW q \in {"cancelled", "failed", "none"},
         p = "close" => q # "none", Aim(o, r, p, q),
         UNCHANGED <<job, run, events, ex, deaths, starts, late>>
  PROVE  RunInv'
  <1> DEFINE y == [NoOp EXCEPT !.phase = p, !.run = r, !.out = q]
  <1>1. y \in OpState /\ y.phase = p /\ y.run = r /\ y.out = q /\ y.tx = FALSE
    BY DEF NoOp, OpState, Outcome
  <1>2. op' = [op EXCEPT ![o] = y]
    BY DEF Aim, SetOp
  <1> HIDE DEF y
  <1>3. OpShape(y) /\ Snapshot(y)
    BY <1>1 DEF OpShape, Snapshot
  <1> QED
    BY <1>1, <1>2, <1>3, OpMoves

(* A request that ends without a write.                                    *)
LEMMA NoOpMoves ==
  ASSUME RunInv, NEW o \in Client \cup Sweeper, SetOp(o, NoOp),
         UNCHANGED <<job, run, events, ex, deaths, starts, late>>
  PROVE  RunInv'
  <1>1. OpShape(NoOp) /\ Snapshot(NoOp)
    BY NoExecFields DEF OpShape, Snapshot
  <1> QED
    BY <1>1, NoExecFields, OpMoves DEF SetOp

(* cancel_run's read.                                                      *)
LEMMA CancelInv == ASSUME RunInv, NEW c \in Client, NEW r \in Run, Cancel(c, r) PROVE RunInv'
  BY AimMoves DEF Cancel, hist

(* The reads of the sweeps.                                                *)
LEMMA ListInv ==
  ASSUME RunInv, NEW o \in Sweeper, NEW r \in Run, ListStale(o, r) \/ ListUnclaimed(o, r)
  PROVE RunInv'
  BY AimMoves DEF ListStale, ListUnclaimed, hist

(* A cancel or a sweep that lost its number.                               *)
LEMMA CloseCollidesInv ==
  ASSUME RunInv, NEW o \in Client \cup Sweeper, CloseCollides(o) PROVE RunInv'
  BY NoOpMoves DEF CloseCollides, hist

(* The read of a cancel's or a sweep's append_event.                       *)
LEMMA BeginCloseInv ==
  ASSUME RunInv, NEW o \in Client \cup Sweeper, BeginClose(o) PROVE RunInv'
  <1> DEFINE x == op[o]
             r == x.run
             y == [x EXCEPT !.tx = TRUE, !.seq = run[r].last_seq]
  <1>1. UNCHANGED <<job, run, events, ex, deaths, starts, late>>
    BY DEF BeginClose, hist
  <1>2. CASE ~Open(r)
    BY <1>1, <1>2, NoOpMoves DEF BeginClose
  <1>3. CASE Open(r)
    <2>1. x \in OpState /\ r \in Run /\ run[r].last_seq \in Nat /\ OpShape(x) /\ x.phase = "close"
      BY DEF RunInv, TypeOK, OpsSound, OpShape, BeginClose
    <2>2. /\ y \in OpState /\ y.phase = x.phase /\ y.run = r /\ y.out = x.out
          /\ y.seq = run[r].last_seq
      BY <2>1 DEF OpState
    <2>3. op' = [op EXCEPT ![o] = y]
      BY <1>3 DEF BeginClose, SetOp
    <2> HIDE DEF y
    <2>4. OpShape(y) /\ Snapshot(y)
      BY <1>3, <2>1, <2>2 DEF OpShape, Snapshot
    <2> QED
      BY <1>1, <2>2, <2>3, <2>4, OpMoves
  <1> QED
    BY <1>2, <1>3

(* The flag of a running run.                                              *)
LEMMA SetFlagInv ==
  ASSUME RunInv, NEW c \in Client \cup Sweeper, SetFlag(c) PROVE RunInv'
  <1> DEFINE r == op[c].run
             y == [run[r] EXCEPT !.cancel = TRUE]
  <1> USE DEF RunInv
  <1>1. /\ r \in Run /\ run' = [run EXCEPT ![r] = y] /\ UNCHANGED <<job, events, ex, deaths, starts, late>>
        /\ op' = [op EXCEPT ![c] = NoOp]
    BY DEF SetFlag, SetOp, OpsSound, OpShape, TypeOK, hist
  <1>2. /\ y.last_seq = run[r].last_seq /\ y.outcome = run[r].outcome /\ y.waits = run[r].waits
        /\ y.cancel = TRUE
        /\ y \in [outcome : Outcome \cup {"none"}, last_seq : Nat, cancel : BOOLEAN,
                  waits : 0 .. MaxWaits, resume : BOOLEAN]
    <2>1. run[r] \in [outcome : Outcome \cup {"none"}, last_seq : Nat, cancel : BOOLEAN,
                      waits : 0 .. MaxWaits, resume : BOOLEAN]
      BY <1>1 DEF TypeOK
    <2> QED BY ONLY <2>1
  <1> HIDE DEF y
  <1>3. run'[r] = y /\ \A q \in Run : q # r => run'[q] = run[q]
    BY <1>1 DEF TypeOK
  <1>4. \A q \in Run : /\ run'[q].last_seq = run[q].last_seq /\ run'[q].outcome = run[q].outcome
                       /\ run'[q].waits = run[q].waits /\ (run[q].cancel => run'[q].cancel)
    BY <1>2, <1>3
  <1>5. \A i \in Client \cup Sweeper : op'[i] = op[i] \/ op'[i] = NoOp
    BY <1>1 DEF TypeOK
  <1>6. TypeOK'
    BY <1>1, <1>2, NoExecFields DEF TypeOK
  <1>7. LogSound'
    BY <1>1, <1>4 DEF LogSound, Open
  <1>8. ExecsSound'
    BY <1>1, <1>4 DEF ExecsSound, ExecShape, Snapshot, Open, Writes
  <1>9. OpsSound'
    <2> SUFFICES ASSUME NEW i \in Client \cup Sweeper
                 PROVE (OpShape(op[i]) /\ Snapshot(op[i]))'
      BY DEF OpsSound
    <2>1. CASE op'[i] = NoOp
      BY <2>1, NoExecFields DEF OpShape, Snapshot
    <2>2. CASE op'[i] = op[i]
      BY <2>2, <1>4 DEF OpsSound, OpShape, Snapshot, Open
    <2> QED
      BY <1>5, <2>1, <2>2
  <1>10. OneOwner' /\ StartsPaid' /\ LateSeen'
    <2>1. \A t \in Slot : ex[t].phase \in Active => ex[t].run \in Run
      BY DEF ExecsSound, ExecShape, Active, PreStart, Driving
    <2> QED
      BY <1>1, <1>4, <2>1 DEF OneOwner, StartsPaid, NeverRerun, LateSeen, OneLateStart, Open, Active
  <1> QED
    BY <1>6, <1>7, <1>8, <1>9, <1>10

(* A new queue row, or a claim that no task followed.                      *)
LEMMA RowMoves ==
  ASSUME RunInv, NEW r \in Run,
         job' = [job EXCEPT ![r].status = job'[r].status],
         \/ job[r].status = "none" /\ job'[r].status = "pending"
         \/ job[r].status = "pending" /\ job'[r].status = "running",
         UNCHANGED <<run, events, ex, op, deaths, starts, late>>
  PROVE  RunInv'
  <1> USE DEF RunInv
  <1>1. \A q \in Run : q # r => job'[q] = job[q]
    BY DEF TypeOK
  <1>2. job' \in [Run -> [status : {"none", "pending", "running"} \cup Closed, retries : Nat]]
    BY SMTT(30) DEF TypeOK
  <1>3. TypeOK'
    BY <1>2 DEF TypeOK
  <1>4. LogSound'
    BY <1>1 DEF LogSound, Open, Closed
  <1>5. ExecsSound' /\ OpsSound'
    BY DEF ExecsSound, ExecShape, OpsSound, OpShape, Snapshot, Open
  <1>6. OneOwner'
    <2>1. \A t \in Slot : ex[t].phase \in Active => ex[t].run # r /\ ex[t].run \in Run
      BY DEF OneOwner, ExecsSound, ExecShape, Active, PreStart, Driving
    <2> QED
      BY <1>1, <2>1 DEF OneOwner
  <1>7. StartsPaid' /\ LateSeen'
    BY <1>1 DEF StartsPaid, NeverRerun, LateSeen, OneLateStart, Open
  <1> QED
    BY <1>3, <1>4, <1>5, <1>6, <1>7

(* create_run's insert.                                                    *)
LEMMA CreateInv == ASSUME RunInv, NEW r \in Run, Create(r) PROVE RunInv'
  <1>1. job'[r].status = "pending" /\ job' = [job EXCEPT ![r].status = job'[r].status]
    BY DEF Create, RunInv, TypeOK
  <1> QED
    BY <1>1, RowMoves DEF Create, hist

(* A claim whose tick failed.                                              *)
LEMMA ClaimLostInv == ASSUME RunInv, NEW r \in Run, ClaimLost(r) PROVE RunInv'
  <1>1. job'[r].status = "running" /\ job' = [job EXCEPT ![r].status = job'[r].status]
    BY DEF ClaimLost, ClaimRow, RunInv, TypeOK
  <1> QED
    BY <1>1, RowMoves DEF ClaimLost, ClaimRow, hist

(* A claim that became a task.                                             *)
LEMMA ClaimInv == ASSUME RunInv, NEW s \in Slot, NEW r \in Run, Claim(s, r) PROVE RunInv'
  <1> DEFINE y == [NoExec EXCEPT !.phase = "claimed", !.run = r]
  <1> USE DEF RunInv
  <1>1. /\ y \in ExecState /\ y.phase = "claimed" /\ y.run = r /\ y.tx = FALSE
        /\ "claimed" \in Active /\ "claimed" \notin PreStart
    BY DEF NoExec, ExecState, Phase, Active, PreStart
  <1>2. ex' = [ex EXCEPT ![s] = y] /\ job' = [job EXCEPT ![r].status = "running"]
    BY DEF Claim, Go, ClaimRow
  <1>3. job[r].status = "pending" /\ UNCHANGED <<run, events, op, deaths, starts, late>>
    BY DEF Claim, ClaimRow, hist
  <1> HIDE DEF y
  <1>4. ex'[s] = y /\ \A t \in Slot : t # s => ex'[t] = ex[t]
    BY <1>2 DEF TypeOK
  <1>5. job'[r].status = "running" /\ \A q \in Run : q # r => job'[q] = job[q]
    BY <1>2 DEF TypeOK
  <1>6. TypeOK'
    <2>1. job' \in [Run -> [status : {"none", "pending", "running"} \cup Closed, retries : Nat]]
      BY <1>2 DEF TypeOK
    <2>2. ex' \in [Slot -> ExecState]
      BY <1>1, <1>2 DEF TypeOK
    <2> QED
      BY <1>3, <2>1, <2>2 DEF TypeOK
  <1>7. LogSound' /\ OpsSound'
    BY <1>3, <1>5 DEF LogSound, Open, Closed, OpsSound, OpShape, Snapshot
  <1>8. ExecsSound'
    BY <1>1, <1>3, <1>4 DEF ExecsSound, ExecShape, Snapshot, Open
  <1>9. \A t \in Slot : ex[t].phase \in Active => ex[t].run # r /\ ex[t].run \in Run
    BY <1>3 DEF OneOwner, ExecsSound, ExecShape, Active, PreStart, Driving
  <1>10. OneOwner'
    BY <1>1, <1>4, <1>5, <1>9 DEF OneOwner
  <1>11. StartsPaid'
    BY <1>1, <1>3, <1>4, <1>5, <1>9 DEF StartsPaid, NeverRerun, Active
  <1>12. LateSeen'
    BY <1>1, <1>3, <1>4 DEF LateSeen, OneLateStart, Open
  <1> QED
    BY <1>6, <1>7, <1>8, <1>10, <1>11, <1>12

(* The primary key orders the writers: a number that is still free is the  *)
(* next one, and the run its transaction read is still open.               *)
LEMMA FreeIsNext ==
  ASSUME RunInv, NEW r \in Run, NEW m \in Nat, SeqFree(r, m + 1),
         m <= run[r].last_seq, m = run[r].last_seq => Open(r)
  PROVE  m = run[r].last_seq /\ Open(r)
  <1>1. run[r].last_seq \in Nat
    BY DEF RunInv, TypeOK
  <1>2. m + 1 \notin 1 .. run[r].last_seq
    BY <1>1 DEF RunInv, LogSound, SeqFree
  <1> QED
    BY <1>1, <1>2

RunRow == [outcome : Outcome \cup {"none"}, last_seq : Nat, cancel : BOOLEAN,
           waits : 0 .. MaxWaits, resume : BOOLEAN]
JobRow == [status : {"none", "pending", "running"} \cup Closed, retries : Nat]

(* A committed write to the log of an open run.                            *)
LEMMA LogKept ==
  ASSUME RunInv, NEW r \in Run, NEW k \in Kind, NEW y \in RunRow, Open(r),
         events' = [events EXCEPT ![r] = @ \cup {<<run[r].last_seq + 1, k>>}],
         run' = [run EXCEPT ![r] = y], y.last_seq = run[r].last_seq + 1,
         (k = "terminal") <=> (y.outcome # "none"),
         \A q \in Run : q # r => job'[q] = job[q],
         job'[r].status \in Closed => y.outcome # "none" /\ job'[r].status = StatusOf(y.outcome)
  PROVE  LogSound' /\ run' \in [Run -> RunRow] /\ events' \in [Run -> SUBSET ((Nat \ {0}) \X Kind)]
  <1> USE DEF RunInv
  <1> DEFINE n == run[r].last_seq + 1
  <1>1. run \in [Run -> RunRow] /\ events \in [Run -> SUBSET ((Nat \ {0}) \X Kind)]
    BY DEF TypeOK, RunRow
  <1>2. run[r].last_seq \in Nat /\ n \in Nat \ {0} /\ run[r].outcome = "none"
    BY <1>1 DEF RunRow, Open
  <1>3. run'[r] = y /\ \A q \in Run : q # r => run'[q] = run[q]
    BY <1>1
  <1>4. events'[r] = events[r] \cup {<<n, k>>} /\ \A q \in Run : q # r => events'[q] = events[q]
    BY <1>1
  <1>5. run' \in [Run -> RunRow]
    BY <1>1
  <1>6. events' \in [Run -> SUBSET ((Nat \ {0}) \X Kind)]
    BY <1>1, <1>2
  <1>7. /\ y.last_seq = n
        /\ \A e \in events[r] : e \in (Nat \ {0}) \X Kind
    BY <1>1
  <1>8. \A e \in events[r] : e[1] \in Nat /\ e[1] < n /\ e[2] # "terminal"
    <2> SUFFICES ASSUME NEW e \in events[r] PROVE e[1] \in Nat /\ e[1] < n /\ e[2] # "terminal"
      OBVIOUS
    <2>1. e[1] \in Nat /\ e[1] <= run[r].last_seq
      BY <1>7 DEF LogSound
    <2>2. e[2] # "terminal"
      BY DEF LogSound
    <2> QED
      BY <2>1, <2>2, <1>2
  <1>9. <<n, k>>[1] = n /\ <<n, k>>[2] = k
    OBVIOUS
  <1>10. \A j \in 1 .. n : \E e \in events'[r] : e[1] = j
    <2> SUFFICES ASSUME NEW j \in 1 .. n PROVE \E e \in events'[r] : e[1] = j
      OBVIOUS
    <2>1. CASE j = n
      BY <2>1, <1>4, <1>9
    <2>2. CASE j # n
      <3>1. j \in 1 .. run[r].last_seq
        BY <2>2, <1>2
      <3> QED
        BY <3>1, <1>4 DEF LogSound
    <2> QED
      BY <2>1, <2>2
  <1>12. \A e \in events'[r] : e[1] <= n
    BY <1>2, <1>4, <1>8, <1>9
  <1>13. \A d, e \in events'[r] : d[1] = e[1] => d = e
    <2> SUFFICES ASSUME NEW d \in events'[r], NEW e \in events'[r], d[1] = e[1] PROVE d = e
      OBVIOUS
    <2>1. CASE d \in events[r] /\ e \in events[r]
      BY <2>1 DEF LogSound
    <2>2. CASE d = <<n, k>> \/ e = <<n, k>>
      BY <2>2, <1>2, <1>4, <1>8, <1>9
    <2> QED
      BY <2>1, <2>2, <1>4
  <1>14. \A e \in events'[r] : e[2] = "terminal" <=> e[1] = n /\ y.outcome # "none"
    BY <1>2, <1>4, <1>8, <1>9
  <1> HIDE DEF n
  <1>15. LogSound'
    <2> SUFFICES ASSUME NEW q \in Run
                 PROVE /\ \A e \in events'[q] : e[1] <= run'[q].last_seq
                       /\ \A j \in 1 .. run'[q].last_seq : \E e \in events'[q] : e[1] = j
                       /\ \A d, e \in events'[q] : d[1] = e[1] => d = e
                       /\ \A e \in events'[q] :
                            e[2] = "terminal" <=> e[1] = run'[q].last_seq /\ run'[q].outcome # "none"
                       /\ job'[q].status \in Closed =>
                            /\ run'[q].outcome # "none"
                            /\ job'[q].status = StatusOf(run'[q].outcome)
      BY DEF LogSound, Open
    <2>1. CASE q = r
      BY <2>1, <1>3, <1>7, <1>10, <1>12, <1>13, <1>14
    <2>2. CASE q # r
      BY <2>2, <1>3, <1>4 DEF LogSound, Open
    <2> QED
      BY <2>1, <2>2
  <1> QED
    BY <1>5, <1>6, <1>15

(* The rest of such a step: what may become of the queue row, ...          *)
RowAfter(r, y) ==
  /\ job' \in [Run -> JobRow]
  /\ \A q \in Run : q # r => job'[q] = job[q]
  /\ job'[r].status \in Closed => y.outcome # "none" /\ job'[r].status = StatusOf(y.outcome)
  /\ \/ job'[r].status \in Closed
     \/ job'[r] = job[r]
     \/ starts[r] <= y.waits /\ \A t \in Slot : ex'[t].phase \in Active => ex[t].run # r

(* ... of the executions: the writer moves on or ends, no other moves, ... *)
ExecsAfter(r, y) ==
  /\ ex' \in [Slot -> ExecState]
  /\ \A t \in Slot :
       \/ ex'[t] = ex[t]
       \/ ex'[t] = NoExec
       \/ /\ ~ex'[t].tx /\ ex'[t].run = ex[t].run
          /\ \/ ex[t].phase = "start" /\ ex'[t].phase = "prep"
             \/ ex[t].phase = "attest" /\ ex'[t].phase = "ready"
             \/ ex[t].phase = "event" /\ ex'[t].phase = "stream"
  /\ \A t \in Slot : ex'[t].phase = "park" => y.waits = run[r].waits \/ ex[t].run # r

(* ... and of the requests.                                                *)
OpsAfter ==
  /\ op' \in [Client \cup Sweeper -> OpState]
  /\ \A o \in Client \cup Sweeper : op'[o] = op[o] \/ op'[o] = NoOp

LogStep(r, k, y) ==
  /\ events' = [events EXCEPT ![r] = @ \cup {<<run[r].last_seq + 1, k>>}]
  /\ run' = [run EXCEPT ![r] = y]
  /\ y.last_seq = run[r].last_seq + 1
  /\ (k = "terminal") <=> (y.outcome # "none")
  /\ y.cancel = run[r].cancel
  /\ y.waits >= run[r].waits

(* A committed write, together with all it leaves, keeps the invariant.    *)
LEMMA WriteMoves ==
  ASSUME RunInv, NEW r \in Run, NEW k \in Kind, NEW y \in RunRow, Open(r),
         LogStep(r, k, y), RowAfter(r, y), ExecsAfter(r, y), OpsAfter,
         UNCHANGED <<deaths, starts, late>>
  PROVE  RunInv'
  <1> USE DEF RunInv, RowAfter, ExecsAfter, OpsAfter, LogStep
  <1>1. LogSound' /\ run' \in [Run -> RunRow] /\ events' \in [Run -> SUBSET ((Nat \ {0}) \X Kind)]
    BY LogKept
  <1>2. TypeOK'
    BY <1>1 DEF TypeOK, RunRow, JobRow
  <1>3. run'[r] = y /\ \A q \in Run : q # r => run'[q] = run[q]
    BY DEF TypeOK
  <1>4. \A q \in Run : /\ run[q].last_seq \in Nat /\ run[q].waits \in Int /\ run'[q].waits \in Int
                       /\ starts[q] \in Int /\ run'[q].last_seq \in Nat
    BY <1>1, RunAssumption DEF TypeOK, RunRow
  <1>5. /\ \A m \in Nat : m <= run[r].last_seq => m <= y.last_seq /\ m # y.last_seq
        /\ \A q \in Run : run[q].waits <= run'[q].waits
        /\ \A q \in Run : (run[q].cancel \/ ~Open(q)) => (run[q].cancel \/ ~Open(q))'
    BY <1>3, <1>4 DEF Open
  <1>6. \A t \in Slot : ex[t].phase # "idle" => ex[t].run \in Run
    BY DEF ExecsSound, ExecShape
  <1>7. NoExec.phase \notin Active /\ NoExec.phase # "park" /\ NoExec.phase # "finish" /\ ~NoExec.tx
    BY NoExecFields DEF Active, PreStart, Driving
  <1>8. \A t \in Slot : ex'[t].phase \in Active =>
          ex[t].phase \in Active /\ ex'[t].run = ex[t].run /\ ex[t].run \in Run
    BY <1>6, <1>7 DEF Active, PreStart, Driving
  <1>9. \A t \in Slot : ex'[t].phase \in {"claimed"} \cup PreStart =>
          ex[t].phase \in {"claimed"} \cup PreStart /\ (ex'[t].phase \in PreStart => ex[t].phase \in PreStart)
    BY <1>7 DEF Active, PreStart
  <1>10. ExecsSound'
    <2> SUFFICES ASSUME NEW t \in Slot
                 PROVE (/\ ExecShape(ex[t]) /\ Snapshot(ex[t])
                        /\ ex[t].phase = "park" => run[ex[t].run].waits < MaxWaits)'
      BY DEF ExecsSound
    <2>1. CASE ex'[t] = NoExec
      BY <2>1, <1>7, NoExecFields DEF ExecShape, Snapshot
    <2>2. CASE ex'[t] = ex[t]
      <3>0. ex[t] \in ExecState /\ ExecShape(ex[t]) /\ Snapshot(ex[t])
        BY DEF TypeOK, ExecsSound
      <3>1. ExecShape(ex[t])'
        BY <2>2, <3>0 DEF ExecShape
      <3>2. ex[t].tx => ex[t].run \in Run /\ ex[t].seq \in Nat
        BY <3>0, <1>6 DEF ExecShape, Writes, ExecState
      <3>3. Snapshot(ex[t])'
        BY <2>2, <3>0, <3>2, <1>3, <1>5 DEF Snapshot, Open
      <3>4. ex[t].phase = "park" => run'[ex[t].run].waits < MaxWaits
        BY <2>2, <1>3, <1>6 DEF ExecsSound
      <3> QED
        BY <2>2, <3>1, <3>3, <3>4
    <2>3. CASE /\ ~ex'[t].tx /\ ex'[t].run = ex[t].run
               /\ \/ ex[t].phase = "start" /\ ex'[t].phase = "prep"
                  \/ ex[t].phase = "attest" /\ ex'[t].phase = "ready"
                  \/ ex[t].phase = "event" /\ ex'[t].phase = "stream"
      BY <2>3, <1>6 DEF ExecShape, Snapshot
    <2> QED
      BY <2>1, <2>2, <2>3
  <1>11. OpsSound'
    <2> SUFFICES ASSUME NEW i \in Client \cup Sweeper
                 PROVE (OpShape(op[i]) /\ Snapshot(op[i]))'
      BY DEF OpsSound
    <2>1. CASE op'[i] = NoOp
      BY <2>1, NoExecFields DEF OpShape, Snapshot
    <2>2. CASE op'[i] = op[i]
      <3>0. op[i] \in OpState /\ OpShape(op[i]) /\ Snapshot(op[i])
        BY DEF TypeOK, OpsSound
      <3>1. op[i].tx => op[i].run \in Run /\ op[i].seq \in Nat
        BY <3>0 DEF OpShape, OpState
      <3> QED
        BY <2>2, <3>0, <3>1, <1>3, <1>5 DEF OpShape, Snapshot, Open
    <2> QED
      BY <2>1, <2>2
  <1>12. job'[r].status \in {"none", "pending"} =>
           \/ job'[r] = job[r]
           \/ starts[r] <= y.waits /\ \A t \in Slot : ex'[t].phase \in Active => ex[t].run # r
    BY DEF Closed
  <1>13. OneOwner'
    BY <1>8, <1>12 DEF OneOwner
  <1>14. StartsPaid'
    <2>1. \A q \in Run : starts[q] <= run[q].waits + 1 => starts[q] <= run'[q].waits + 1
      BY <1>4, <1>5
    <2>2. \A q \in Run : starts[q] <= run[q].waits => starts[q] <= run'[q].waits
      BY <1>4, <1>5
    <2>3. \A q \in Run : job'[q].status \in {"none", "pending"} => starts[q] <= run'[q].waits
      BY <2>2, <1>3, <1>12 DEF StartsPaid
    <2>4. \A t \in Slot : ex'[t].phase \in {"claimed"} \cup PreStart =>
            starts[ex'[t].run] <= run'[ex'[t].run].waits
      BY <2>2, <1>8, <1>9 DEF StartsPaid, Active
    <2> QED
      BY <2>1, <2>3, <2>4 DEF StartsPaid, NeverRerun
  <1>15. LateSeen'
    BY <1>5, <1>8, <1>9 DEF LateSeen, OneLateStart, Active
  <1> QED
    BY <1>1, <1>2, <1>10, <1>11, <1>13, <1>14, <1>15

(* What a step may never do to a closed run.                               *)
ClosedKept ==
  \A q \in Run : ~Open(q) => run'[q].outcome = run[q].outcome /\ events'[q] = events[q]

(* A write to an open run touches no closed one.                           *)
LEMMA LogKeepsClosed ==
  ASSUME RunInv, NEW r \in Run, Open(r), NEW y, NEW E,
         events' = [events EXCEPT ![r] = E], run' = [run EXCEPT ![r] = y]
  PROVE  ClosedKept
  BY DEF RunInv, TypeOK, ClosedKept

(* The count of quota waits is a number.                                   *)
LEMMA WaitsOrder == ASSUME RunInv, NEW r \in Run PROVE run[r].waits >= run[r].waits
  <1>1. run[r].waits \in 0 .. MaxWaits
    BY DEF RunInv, TypeOK
  <1> QED
    BY <1>1, RunAssumption

(* A writer at its commit: its number is the next one.                     *)
LEMMA ExecCommits ==
  ASSUME RunInv, NEW s \in Slot, ex[s].tx, SeqFree(ex[s].run, ex[s].seq + 1)
  PROVE  /\ ex[s].run \in Run /\ Open(ex[s].run) /\ ex[s].seq = run[ex[s].run].last_seq
         /\ ex[s].seq \in Nat
  <1>1. ex[s].run \in Run /\ ex[s].seq \in Nat /\ Snapshot(ex[s])
    BY DEF RunInv, TypeOK, ExecsSound, ExecShape, ExecState, Writes
  <1> QED
    BY <1>1, FreeIsNext DEF Snapshot

(* An event's commit.                                                      *)
LEMMA WriteEventInv ==
  ASSUME RunInv, NEW s \in Slot, NEW r, r = ex[s].run, WriteEvent(s)
  PROVE  RunInv' /\ ClosedKept
  <1> DEFINE x == ex[s]
             y == [run[r] EXCEPT !.last_seq = x.seq + 1]
  <1>0. x.tx /\ x.phase \in {"start", "attest", "event"} /\ SeqFree(x.run, x.seq + 1)
    BY DEF WriteEvent
  <1>1. r \in Run /\ Open(r) /\ x.seq = run[r].last_seq /\ x.seq \in Nat
    BY <1>0, ExecCommits
  <1>2. /\ events' = [events EXCEPT ![r] = @ \cup {<<run[r].last_seq + 1, "event">>}]
        /\ run' = [run EXCEPT ![r] = y]
    BY <1>1 DEF WriteEvent, Log
  <1>3. /\ y \in RunRow /\ y.last_seq = run[r].last_seq + 1 /\ y.outcome = "none"
        /\ y.cancel = run[r].cancel /\ y.waits = run[r].waits
    <2>1. run[r] \in RunRow /\ run[r].last_seq + 1 \in Nat /\ run[r].outcome = "none"
      BY <1>1 DEF RunInv, TypeOK, RunRow, Open
    <2> QED
      BY <1>1, <2>1 DEF RunRow
  <1>4. UNCHANGED <<job, op, deaths, starts, late>>
    BY DEF WriteEvent, hist
  <1>5. job \in [Run -> JobRow] /\ op \in [Client \cup Sweeper -> OpState]
        /\ (job[r].status \notin Closed) /\ ex \in [Slot -> ExecState]
    BY <1>1 DEF RunInv, TypeOK, JobRow, LogSound
  <1>6. PICK z \in After(x) : ex' = [ex EXCEPT ![s] = z]
    BY DEF WriteEvent, Go
  <1>7. /\ z \in ExecState
        /\ \/ z = NoExec
           \/ /\ ~z.tx /\ z.run = r
              /\ \/ x.phase = "start" /\ z.phase = "prep"
                 \/ x.phase = "attest" /\ z.phase = "ready"
                 \/ x.phase = "event" /\ z.phase = "stream"
    <2>1. CASE z = NoExec
      BY <2>1, NoExecFields
    <2>2. CASE x.phase = "start" /\ z = [x EXCEPT !.phase = "prep", !.tx = FALSE, !.seq = 0]
      BY <2>2, <1>5 DEF ExecState, Phase, PreStart
    <2>3. CASE x.phase = "event" /\ z = [x EXCEPT !.phase = "stream", !.tx = FALSE, !.seq = 0]
      BY <2>3, <1>5 DEF ExecState, Phase, Driving
    <2>4. CASE x.phase = "attest" /\ z = [x EXCEPT !.phase = "ready", !.tx = FALSE, !.seq = 0]
      BY <2>4, <1>5 DEF ExecState, Phase, PreStart
    <2> QED
      BY <1>0, <2>1, <2>2, <2>3, <2>4 DEF After
  <1>8. ex' \in [Slot -> ExecState] /\ ex'[s] = z /\ \A t \in Slot : t # s => ex'[t] = ex[t]
    BY <1>5, <1>6, <1>7
  <1> HIDE DEF y
  <1>9. ClosedKept
    BY <1>1, <1>2, LogKeepsClosed
  <1>10. ExecsAfter(r, y)
    BY <1>3, <1>7, <1>8 DEF ExecsAfter
  <1>11. RowAfter(r, y) /\ OpsAfter
    BY <1>4, <1>5 DEF RowAfter, OpsAfter
  <1>12. "event" \in Kind /\ LogStep(r, "event", y)
    BY <1>1, <1>2, <1>3, WaitsOrder DEF Kind, LogStep
  <1>13. RunInv'
    BY <1>1, <1>3, <1>4, <1>10, <1>11, <1>12, WriteMoves
  <1> QED
    BY <1>9, <1>13

(* park_for_quota's commit.                                                *)
LEMMA ParkInv ==
  ASSUME RunInv, NEW s \in Slot, NEW r, r = ex[s].run, Park(s)
  PROVE  RunInv' /\ ClosedKept
  <1> DEFINE x == ex[s]
  <1>0. x.tx /\ x.phase = "park" /\ SeqFree(x.run, x.seq + 1)
    BY DEF Park
  <1>1. r \in Run /\ Open(r) /\ x.seq = run[r].last_seq /\ x.seq \in Nat
    BY <1>0, ExecCommits
  <1>2. PICK v \in {run[r].resume, TRUE} :
          Log(r, x.seq + 1, "waiting", [run[r] EXCEPT !.waits = @ + 1, !.resume = v])
    BY DEF Park
  <1> DEFINE y == [run[r] EXCEPT !.waits = run[r].waits + 1, !.resume = v,
                                 !.last_seq = run[r].last_seq + 1]
  <1>3. run[r] \in RunRow /\ run[r].waits < MaxWaits /\ run[r].outcome = "none"
    BY <1>0, <1>1 DEF RunInv, TypeOK, RunRow, ExecsSound, Open
  <1>4. run[r].waits \in 0 .. MaxWaits /\ run[r].last_seq \in Nat /\ v \in BOOLEAN
    BY <1>3 DEF RunRow
  <1>5. run[r].waits + 1 \in 0 .. MaxWaits /\ run[r].last_seq + 1 \in Nat
    BY <1>3, <1>4, RunAssumption
  <1>6. /\ y \in RunRow /\ y.last_seq = run[r].last_seq + 1 /\ y.outcome = "none"
        /\ y.cancel = run[r].cancel /\ y.waits = run[r].waits + 1
    BY <1>3, <1>4, <1>5 DEF RunRow
  <1>7. /\ events' = [events EXCEPT ![r] = @ \cup {<<run[r].last_seq + 1, "waiting">>}]
        /\ run' = [run EXCEPT ![r] = y]
    <2>1. [[run[r] EXCEPT !.waits = @ + 1, !.resume = v] EXCEPT !.last_seq = x.seq + 1] = y
      BY <1>1, <1>3, <1>4 DEF RunRow
    <2> QED
      BY <1>1, <1>2, <2>1 DEF Log
  <1> HIDE DEF y
  <1>8. UNCHANGED <<op, deaths, starts, late>> /\ ex' = [ex EXCEPT ![s] = NoExec]
        /\ job' = [job EXCEPT ![r].status = "pending"]
    BY DEF Park, hist, Ends, Go
  <1>9. job \in [Run -> JobRow] /\ op \in [Client \cup Sweeper -> OpState] /\ ex \in [Slot -> ExecState]
    BY DEF RunInv, TypeOK, JobRow
  <1>10. /\ job' \in [Run -> JobRow] /\ job'[r].status = "pending"
         /\ \A q \in Run : q # r => job'[q] = job[q]
    BY <1>1, <1>8, <1>9 DEF JobRow
  <1>11. ex' \in [Slot -> ExecState] /\ ex'[s] = NoExec /\ \A t \in Slot : t # s => ex'[t] = ex[t]
    BY <1>8, <1>9, NoExecFields
  <1>12. \A t \in Slot : ex'[t].phase \in Active => ex[t].run # r
    <2>1. "park" \in Active /\ "idle" \notin Active
      BY DEF Active, PreStart, Driving
    <2> QED
      BY <1>0, <1>11, <2>1, NoExecFields DEF RunInv, OneOwner
  <1>13. "park" \in Active
    BY DEF Active, Driving
  <1>14. starts[r] <= y.waits /\ y.waits >= run[r].waits
    BY <1>1, <1>4, <1>6, RunAssumption DEF RunInv, TypeOK, StartsPaid, NeverRerun
  <1>15. ClosedKept
    BY <1>1, <1>7, LogKeepsClosed
  <1>16. RowAfter(r, y)
    BY <1>10, <1>12, <1>14 DEF RowAfter, Closed
  <1>17. ExecsAfter(r, y) /\ OpsAfter
    BY <1>8, <1>9, <1>11, <1>12, <1>13 DEF ExecsAfter, OpsAfter
  <1>18. "waiting" \in Kind /\ LogStep(r, "waiting", y)
    BY <1>6, <1>7, <1>14 DEF Kind, LogStep
  <1>19. RunInv'
    BY <1>1, <1>6, <1>8, <1>16, <1>17, <1>18, WriteMoves
  <1> QED
    BY <1>15, <1>19

(* A terminal event closes an open run.                                    *)
LEMMA CloseMoves ==
  ASSUME RunInv, NEW r \in Run, Open(r), NEW q \in Outcome, Close(r, run[r].last_seq + 1, q),
         ex' \in [Slot -> ExecState], \A t \in Slot : ex'[t] = ex[t] \/ ex'[t] = NoExec,
         op' \in [Client \cup Sweeper -> OpState],
         \A o \in Client \cup Sweeper : op'[o] = op[o] \/ op'[o] = NoOp,
         UNCHANGED <<deaths, starts, late>>
  PROVE  RunInv' /\ ClosedKept
  <1> DEFINE y == [run[r] EXCEPT !.outcome = q, !.last_seq = run[r].last_seq + 1]
  <1>1. run[r] \in RunRow /\ job \in [Run -> JobRow] /\ run[r].last_seq + 1 \in Nat
    BY DEF RunInv, TypeOK, RunRow, JobRow
  <1>2. /\ y \in RunRow /\ y.last_seq = run[r].last_seq + 1 /\ y.outcome = q
        /\ y.cancel = run[r].cancel /\ y.waits = run[r].waits
    BY <1>1 DEF RunRow
  <1>3. /\ events' = [events EXCEPT ![r] = @ \cup {<<run[r].last_seq + 1, "terminal">>}]
        /\ run' = [run EXCEPT ![r] = y]
    <2>1. [[run[r] EXCEPT !.outcome = q] EXCEPT !.last_seq = run[r].last_seq + 1] = y
      BY <1>1 DEF RunRow
    <2> QED
      BY <2>1 DEF Close, Log
  <1>4. StatusOf(q) \in Closed /\ q # "none"
    BY DEF StatusOf, Closed, Outcome
  <1>5. /\ job' \in [Run -> JobRow] /\ job'[r].status = StatusOf(q)
        /\ \A p \in Run : p # r => job'[p] = job[p]
    BY <1>1, <1>4 DEF Close, JobRow
  <1> HIDE DEF y
  <1>6. ClosedKept
    BY <1>3, LogKeepsClosed
  <1>7. "terminal" \in Kind /\ LogStep(r, "terminal", y)
    BY <1>2, <1>3, <1>4, WaitsOrder DEF Kind, LogStep
  <1>8. RowAfter(r, y) /\ ExecsAfter(r, y) /\ OpsAfter
    BY <1>2, <1>4, <1>5 DEF RowAfter, ExecsAfter, OpsAfter
  <1>9. RunInv'
    BY <1>2, <1>7, <1>8, WriteMoves
  <1> QED
    BY <1>6, <1>9

(* _finish's commit.                                                       *)
LEMMA WriteTerminalInv ==
  ASSUME RunInv, NEW s \in Slot, WriteTerminal(s) PROVE RunInv' /\ ClosedKept
  <1>0. ex[s].tx /\ ex[s].phase = "finish" /\ SeqFree(ex[s].run, ex[s].seq + 1)
    BY DEF WriteTerminal
  <1>1. /\ ex[s].run \in Run /\ Open(ex[s].run) /\ ex[s].seq = run[ex[s].run].last_seq
        /\ ex[s].out \in Outcome
    BY <1>0, ExecCommits DEF RunInv, ExecsSound, ExecShape
  <1>2. /\ UNCHANGED <<op, deaths, starts, late>> /\ ex' = [ex EXCEPT ![s] = NoExec]
        /\ Close(ex[s].run, run[ex[s].run].last_seq + 1, ex[s].out)
    BY <1>1 DEF WriteTerminal, hist, Ends, Go
  <1>3. ex' \in [Slot -> ExecState] /\ op' \in [Client \cup Sweeper -> OpState]
        /\ \A t \in Slot : ex'[t] = ex[t] \/ ex'[t] = NoExec
    BY <1>2, NoExecFields DEF RunInv, TypeOK
  <1> QED
    BY <1>1, <1>2, <1>3, CloseMoves

(* The commit of a cancel or a sweep.                                      *)
LEMMA CommitCloseInv ==
  ASSUME RunInv, NEW o \in Client \cup Sweeper, CommitClose(o) PROVE RunInv' /\ ClosedKept
  <1>0. op[o].tx /\ SeqFree(op[o].run, op[o].seq + 1)
    BY DEF CommitClose
  <1>1. /\ op[o].run \in Run /\ op[o].out \in Outcome /\ op[o].seq \in Nat /\ Snapshot(op[o])
    BY <1>0 DEF RunInv, TypeOK, OpsSound, OpShape, OpState, Outcome
  <1>2. Open(op[o].run) /\ op[o].seq = run[op[o].run].last_seq
    BY <1>0, <1>1, FreeIsNext DEF Snapshot
  <1>3. /\ UNCHANGED <<ex, deaths, starts, late>> /\ op' = [op EXCEPT ![o] = NoOp]
        /\ Close(op[o].run, run[op[o].run].last_seq + 1, op[o].out)
    BY <1>2 DEF CommitClose, hist, SetOp
  <1>4. ex' \in [Slot -> ExecState] /\ op' \in [Client \cup Sweeper -> OpState]
        /\ \A i \in Client \cup Sweeper : op'[i] = op[i] \/ op'[i] = NoOp
    BY <1>3, NoExecFields DEF RunInv, TypeOK
  <1> QED
    BY <1>1, <1>2, <1>3, <1>4, CloseMoves

(* The locked write of fail_unclaimed_runs.                                *)
LEMMA CloseUnclaimedInv ==
  ASSUME RunInv, NEW o \in Client \cup Sweeper, CloseUnclaimed(o) PROVE RunInv' /\ ClosedKept
  <1> DEFINE r == op[o].run
  <1>1. r \in Run
    BY DEF CloseUnclaimed, RunInv, OpsSound, OpShape
  <1>2. UNCHANGED <<ex, deaths, starts, late>> /\ SetOp(o, NoOp)
    BY DEF CloseUnclaimed, hist
  <1>3. CASE Open(r) /\ Close(r, run[r].last_seq + 1, "failed")
    <2>1. ex' \in [Slot -> ExecState] /\ op' \in [Client \cup Sweeper -> OpState]
          /\ \A i \in Client \cup Sweeper : op'[i] = op[i] \/ op'[i] = NoOp
      BY <1>2, NoExecFields DEF RunInv, TypeOK, SetOp
    <2>2. "failed" \in Outcome
      BY DEF Outcome
    <2> QED
      BY <1>1, <1>2, <1>3, <2>1, <2>2, CloseMoves
  <1>4. CASE UNCHANGED <<job, run, events>>
    BY <1>2, <1>4, NoOpMoves DEF ClosedKept
  <1> QED
    BY <1>3, <1>4 DEF CloseUnclaimed

(* Every step keeps the invariant and leaves closed runs alone.            *)
LEMMA StepInv == ASSUME RunInv, [Next]_vars PROVE RunInv' /\ ClosedKept
  <1>1. ASSUME NEW r \in Run, Create(r) \/ ClaimLost(r) PROVE RunInv' /\ ClosedKept
    BY <1>1, CreateInv, ClaimLostInv DEF Create, ClaimLost, ClosedKept
  <1>2. ASSUME NEW s \in Slot, NEW r \in Run, Claim(s, r) PROVE RunInv' /\ ClosedKept
    BY <1>2, ClaimInv DEF Claim, ClosedKept
  <1>3. ASSUME NEW s \in Slot, Work(s) PROVE RunInv' /\ ClosedKept
    <2>1. CASE Begin(s)
      BY <2>1, BeginInv DEF Begin, Still, ClosedKept
    <2>2. CASE TakeLease(s)
      BY <2>2, TakeLeaseInv DEF TakeLease, Still, ClosedKept
    <2>3. CASE PassGate(s)
      BY <2>3, PassGateInv DEF PassGate, Still, ClosedKept
    <2>4. CASE GateBusy(s)
      BY <2>4, GateBusyInv DEF GateBusy, Still, ClosedKept
    <2>5. CASE Prepare(s)
      BY <2>5, PrepareInv DEF Prepare, Still, ClosedKept
    <2>13. CASE StartCli(s)
      BY <2>13, StartCliInv DEF StartCli, Still, ClosedKept
    <2>6. CASE Stream(s)
      BY <2>6, StreamInv DEF Stream, Still, ClosedKept
    <2>7. CASE Quota(s)
      BY <2>7, QuotaInv DEF Quota, Still, ClosedKept
    <2>8. CASE BeginWrite(s)
      BY <2>8, BeginWriteInv DEF BeginWrite, ClosedKept
    <2>9. CASE WriteEvent(s)
      BY <2>9, WriteEventInv
    <2>10. CASE Park(s)
      BY <2>10, ParkInv
    <2>11. CASE WriteTerminal(s)
      BY <2>11, WriteTerminalInv
    <2>12. CASE WriteCollides(s)
      BY <2>12, CollidesInv DEF WriteCollides, ClosedKept
    <2> QED
      BY <1>3, <2>1, <2>2, <2>3, <2>4, <2>5, <2>6, <2>7, <2>8, <2>9, <2>10, <2>11, <2>12,
         <2>13 DEF Work
  <1>4. ASSUME NEW s \in Slot, GateLost(s) PROVE RunInv' /\ ClosedKept
    BY <1>4, GateLostInv DEF GateLost, Still, ClosedKept
  <1>5. ASSUME NEW s \in Slot, LoseLease(s) \/ TaskDies(s) PROVE RunInv' /\ ClosedKept
    BY <1>5, DiesInv DEF LoseLease, TaskDies, Dies, ClosedKept
  <1>6. ASSUME NEW c \in Client, NEW r \in Run, Cancel(c, r) PROVE RunInv' /\ ClosedKept
    BY <1>6, CancelInv DEF Cancel, ClosedKept
  <1>7. ASSUME NEW o \in Sweeper, Sweep(o) PROVE RunInv' /\ ClosedKept
    BY <1>7, ListInv DEF Sweep, ListStale, ListUnclaimed, ClosedKept
  <1>8. ASSUME NEW o \in Client \cup Sweeper, Operate(o) PROVE RunInv' /\ ClosedKept
    <2>1. CASE SetFlag(o)
      <3>1. op[o].run \in Run /\ run' = [run EXCEPT ![op[o].run].cancel = TRUE] /\ events' = events
        BY <2>1 DEF SetFlag, RunInv, OpsSound, OpShape
      <3>2. ClosedKept
        BY <3>1 DEF RunInv, TypeOK, ClosedKept
      <3> QED
        BY <2>1, <3>2, SetFlagInv
    <2>2. CASE BeginClose(o)
      BY <2>2, BeginCloseInv DEF BeginClose, ClosedKept
    <2>3. CASE CommitClose(o)
      BY <2>3, CommitCloseInv
    <2>4. CASE CloseCollides(o)
      BY <2>4, CloseCollidesInv DEF CloseCollides, ClosedKept
    <2>5. CASE CloseUnclaimed(o)
      BY <2>5, CloseUnclaimedInv
    <2> QED
      BY <1>8, <2>1, <2>2, <2>3, <2>4, <2>5 DEF Operate
  <1>9. CASE UNCHANGED vars
    <2>1. RunInv'
      BY <1>9 DEF vars, RunInv, TypeOK, LogSound, ExecsSound, ExecShape, OpsSound, OpShape,
                  Snapshot, OneOwner, StartsPaid, NeverRerun, LateSeen, OneLateStart, Open
    <2> QED
      BY <1>9, <2>1 DEF vars, ClosedKept
  <1> QED
    BY <1>1, <1>2, <1>3, <1>4, <1>5, <1>6, <1>7, <1>8, <1>9 DEF Next

(* Every reachable state satisfies the inductive invariant, for any number *)
(* of runs, slots, clients and sweepers and any bounds.                    *)
THEOREM RunInvariance == Spec => []RunInv
  <1>1. RunInv /\ [Next]_vars => RunInv'
    BY StepInv
  <1> QED
    BY InitInv, <1>1, PTL DEF Spec

(* Types, for every instance.                                              *)
THEOREM RunTypes == Spec => []TypeOK
  <1>1. RunInv => TypeOK
    BY DEF RunInv
  <1> QED
    BY RunInvariance, <1>1, PTL

(* append_event's log is gapless and ends with the only terminal event,    *)
(* however many unlocked writers race for the next number.                 *)
THEOREM LogsSound == Spec => []LogSound
  <1>1. RunInv => LogSound
    BY DEF RunInv
  <1> QED
    BY RunInvariance, <1>1, PTL

(* claim_for_lane, requeue_run and park_for_quota: no run is ever driven   *)
(* by two executions.                                                      *)
THEOREM OneDriver == Spec => []SoleDriver
  <1>1. RunInv => SoleDriver
    BY DEF RunInv, OneOwner, SoleDriver, Active
  <1> QED
    BY RunInvariance, <1>1, PTL

(* fail_stale_agent_runs and requeue_run never let a run's CLI start again *)
(* but after a quota wait.                                                 *)
THEOREM NotRerun == Spec => []NeverRerun
  <1>1. RunInv => NeverRerun
    BY DEF RunInv, StartsPaid
  <1> QED
    BY RunInvariance, <1>1, PTL

(* cancel_run: at most one CLI is started after the run was cancelled or   *)
(* closed.                                                                 *)
THEOREM LateBounded == Spec => []OneLateStart
  <1>1. RunInv => OneLateStart
    BY DEF RunInv, LateSeen
  <1> QED
    BY RunInvariance, <1>1, PTL

(* append_event: the first terminal event wins against every later writer. *)
THEOREM FirstTerminalWins == Spec => NothingAfterClose
  <1>1. RunInv /\ [Next]_vars =>
          [\A r \in Run : ~Open(r) =>
             run'[r].outcome = run[r].outcome /\ events'[r] = events[r]]_vars
    BY StepInv DEF ClosedKept
  <1> QED
    BY RunInvariance, <1>1, PTL DEF Spec, NothingAfterClose
-----------------------------------------------------------------------------
(* The lane's reserve.                                                     *)

Batch == {s \in Slot : ex[s].run \in Run \ Interactive}
IdleEmpty == \A s \in Slot : ex[s].phase = "idle" => ex[s].run = NoRun
LaneInv == IdleEmpty /\ ReserveKept

(* No slot turns to another run.                                           *)
Shrinks ==
  \A s \in Slot : /\ ex'[s].run \in {ex[s].run, NoRun}
                  /\ ex'[s].phase = "idle" => ex'[s].run = NoRun

(* Slots and the busy ones can be counted.                                 *)
LEMMA SlotsCounted ==
  ASSUME NEW S \in SUBSET Slot
  PROVE  /\ IsFiniteSet(S) /\ Cardinality(S) \in Nat /\ Cardinality(Slot) \in Nat
         /\ \A T \in SUBSET S : IsFiniteSet(T) /\ Cardinality(T) \in Nat
                                /\ Cardinality(T) <= Cardinality(S)
         /\ Cardinality(Slot \ S) = Cardinality(Slot) - Cardinality(S)
  <1>1. IsFiniteSet(Slot) /\ IsFiniteSet(S)
    BY RunAssumption, FS_Subset
  <1>2. Cardinality(S) \in Nat /\ Cardinality(Slot) \in Nat
    BY <1>1, FS_CardinalityType
  <1>3. ASSUME NEW T \in SUBSET S
        PROVE  IsFiniteSet(T) /\ Cardinality(T) \in Nat /\ Cardinality(T) <= Cardinality(S)
    <2>1. IsFiniteSet(T) /\ Cardinality(T) <= Cardinality(S)
      BY <1>1, FS_Subset
    <2> QED
      BY <2>1, FS_CardinalityType
  <1>4. Slot \cap S = S
    OBVIOUS
  <1>5. Cardinality(Slot \ S) = Cardinality(Slot) - Cardinality(Slot \cap S)
    BY <1>1, FS_Difference
  <1> QED
    BY <1>1, <1>2, <1>3, <1>4, <1>5

(* A step that gives no slot a run keeps the reserve.                      *)
LEMMA ShrinkLane ==
  ASSUME LaneInv, Shrinks
  PROVE  LaneInv'
  <1>1. IdleEmpty'
    BY DEF Shrinks, IdleEmpty
  <1>2. Batch' \in SUBSET Batch /\ Batch \in SUBSET Slot
    BY RunAssumption DEF Shrinks, Batch
  <1>3. /\ Cardinality(Batch) \in Nat /\ Cardinality(Batch') \in Nat
        /\ Cardinality(Batch') <= Cardinality(Batch) /\ Cardinality(Slot) \in Nat
    BY <1>2, SlotsCounted
  <1>4. Cardinality(Batch) <= Cardinality(Slot) - Reserve
    BY DEF LaneInv, ReserveKept, Batch
  <1>5. Cardinality(Batch') <= Cardinality(Slot) - Reserve
    BY <1>3, <1>4, RunAssumption
  <1> QED
    BY <1>1, <1>5 DEF LaneInv, ReserveKept, Batch

(* A claim takes an idle slot, for a batch run only with more than Reserve *)
(* of them left.                                                           *)
LEMMA ClaimLane ==
  ASSUME RunInv, LaneInv, NEW s \in Slot, NEW r \in Run, Claim(s, r)
  PROVE  LaneInv'
  <1>1. /\ s \in Idle /\ Admits(r) /\ DOMAIN ex = Slot
        /\ ex' = [ex EXCEPT ![s] = [NoExec EXCEPT !.phase = "claimed", !.run = r]]
    BY DEF Claim, Go, RunInv, TypeOK
  <1>2. [NoExec EXCEPT !.phase = "claimed", !.run = r].phase = "claimed"
        /\ [NoExec EXCEPT !.phase = "claimed", !.run = r].run = r
    BY DEF NoExec
  <1>3. ex'[s].phase = "claimed" /\ ex'[s].run = r /\ \A t \in Slot \ {s} : ex'[t] = ex[t]
    BY <1>1, <1>2
  <1>4. IdleEmpty'
    BY <1>3 DEF LaneInv, IdleEmpty
  <1>5. Batch \in SUBSET (Slot \ Idle) /\ Idle \in SUBSET Slot
    BY RunAssumption DEF LaneInv, IdleEmpty, Batch, Idle
  <1>6. Cardinality(Batch) <= Cardinality(Slot) - Cardinality(Idle)
    BY <1>5, SlotsCounted
  <1>7. /\ Cardinality(Batch) \in Nat /\ Cardinality(Slot) \in Nat /\ Cardinality(Idle) \in Nat
        /\ IsFiniteSet(Batch)
    BY <1>5, SlotsCounted
  <1>8. s \notin Batch
    BY <1>1, <1>5
  <1>9. CASE r \in Interactive
    <2>1. Batch' = Batch
      BY <1>3, <1>8, <1>9 DEF Batch
    <2> QED
      BY <1>4, <2>1 DEF LaneInv, ReserveKept, Batch
  <1>10. CASE r \notin Interactive
    <2>1. Batch' = Batch \cup {s}
      BY <1>3, <1>8, <1>10 DEF Batch
    <2>2. Cardinality(Batch') = Cardinality(Batch) + 1
      BY <1>7, <1>8, <2>1, FS_AddElement
    <2>3. Cardinality(Idle) > Reserve
      BY <1>1, <1>10 DEF Admits
    <2>4. Cardinality(Batch') <= Cardinality(Slot) - Reserve
      BY <1>6, <1>7, <2>2, <2>3, RunAssumption
    <2> QED
      BY <1>4, <2>4 DEF LaneInv, ReserveKept, Batch
  <1> QED
    BY <1>9, <1>10

(* The ways a task's own step leaves its slot.                             *)
LEMMA SlotShrinks ==
  ASSUME RunInv, IdleEmpty, NEW s \in Slot, NEW x,
         ex' = [ex EXCEPT ![s] = x], x.run \in {ex[s].run, NoRun},
         x.phase = "idle" => x.run = NoRun
  PROVE  Shrinks
  BY DEF RunInv, TypeOK, IdleEmpty, Shrinks

(* Every step of a task is one of them.                                    *)
LEMMA TaskShrinks ==
  ASSUME RunInv, IdleEmpty, NEW s \in Slot,
         \/ Ends(s)
         \/ \E p \in Phase \ {"idle"} : To(s, p)
         \/ \E q \in Outcome : Finish(s, q)
         \/ Go(s, [ex[s] EXCEPT !.phase = "gate", !.leased = TRUE])
         \/ ex[s].phase # "idle" /\ Go(s, [ex[s] EXCEPT !.tx = TRUE, !.seq = run[ex[s].run].last_seq])
         \/ \E y \in After(ex[s]) : Go(s, y)
  PROVE  Shrinks
  <1>0. ex[s] \in ExecState
    BY DEF RunInv, TypeOK
  <1>a. NoExec.run = NoRun
    BY DEF NoExec
  <1>1. CASE Ends(s)
    BY <1>1, <1>a, SlotShrinks DEF Ends, Go
  <1>2. ASSUME NEW p \in Phase \ {"idle"}, To(s, p) PROVE Shrinks
    <2>1. [ex[s] EXCEPT !.phase = p].run = ex[s].run /\ [ex[s] EXCEPT !.phase = p].phase = p
      BY <1>0 DEF ExecState
    <2> QED
      BY <1>2, <2>1, SlotShrinks DEF To, Go
  <1>3. ASSUME NEW q \in Outcome, Finish(s, q) PROVE Shrinks
    <2> DEFINE x == [ex[s] EXCEPT !.phase = "finish", !.out = q]
    <2>1. x.run = ex[s].run /\ x.phase = "finish"
      BY <1>0 DEF ExecState
    <2>2. ex' = [ex EXCEPT ![s] = x]
      BY <1>3 DEF Finish, Go
    <2> HIDE DEF x
    <2> QED
      BY <2>1, <2>2, SlotShrinks
  <1>4. CASE Go(s, [ex[s] EXCEPT !.phase = "gate", !.leased = TRUE])
    <2> DEFINE x == [ex[s] EXCEPT !.phase = "gate", !.leased = TRUE]
    <2>1. x.run = ex[s].run /\ x.phase = "gate"
      BY <1>0 DEF ExecState
    <2>2. ex' = [ex EXCEPT ![s] = x]
      BY <1>4 DEF Go
    <2> HIDE DEF x
    <2> QED
      BY <2>1, <2>2, SlotShrinks
  <1>5. CASE ex[s].phase # "idle"
             /\ Go(s, [ex[s] EXCEPT !.tx = TRUE, !.seq = run[ex[s].run].last_seq])
    <2> DEFINE x == [ex[s] EXCEPT !.tx = TRUE, !.seq = run[ex[s].run].last_seq]
    <2>1. x.run = ex[s].run /\ x.phase = ex[s].phase
      BY <1>0 DEF ExecState
    <2>2. ex' = [ex EXCEPT ![s] = x]
      BY <1>5 DEF Go
    <2> HIDE DEF x
    <2> QED
      BY <1>5, <2>1, <2>2, SlotShrinks
  <1>6. ASSUME NEW y \in After(ex[s]), Go(s, y) PROVE Shrinks
    <2>1. y = NoExec \/ \E p \in {"prep", "ready", "stream"} :
                          y = [ex[s] EXCEPT !.phase = p, !.tx = FALSE, !.seq = 0]
      BY <1>6 DEF After
    <2>2. y.run \in {ex[s].run, NoRun} /\ (y.phase = "idle" => y.run = NoRun)
      BY <1>0, <1>a, <2>1 DEF ExecState
    <2> QED
      BY <1>6, <2>2, SlotShrinks DEF Go
  <1> QED
    BY <1>1, <1>2, <1>3, <1>4, <1>5, <1>6

(* Only a claim gives a slot a run.                                        *)
LEMMA LaneStep ==
  ASSUME RunInv, LaneInv, [Next]_vars
  PROVE  LaneInv'
  <1> USE DEF LaneInv
  <1>1. ASSUME ex' = ex PROVE LaneInv'
    BY <1>1, ShrinkLane DEF Shrinks, IdleEmpty
  <1>2. ASSUME NEW s \in Slot, Work(s) PROVE Shrinks
    <2> {"lease", "gate", "busy", "start", "prep", "attest", "ready", "stream", "event",
         "quota", "park"} \subseteq Phase \ {"idle"}
      BY DEF Phase, PreStart, Driving
    <2> {"completed", "failed", "cancelled", "timed_out"} \subseteq Outcome
      BY DEF Outcome
    <2>1. CASE Begin(s)
      BY <2>1, TaskShrinks DEF Begin
    <2>2. CASE TakeLease(s) \/ GateBusy(s)
      BY <2>2, TaskShrinks DEF TakeLease, GateBusy, PutBack
    <2>3. CASE PassGate(s)
      BY <2>3, TaskShrinks DEF PassGate
    <2>4. CASE Prepare(s) \/ StartCli(s)
      BY <2>4, TaskShrinks DEF Prepare, StartCli
    <2>5. CASE Stream(s) \/ Quota(s)
      BY <2>5, TaskShrinks DEF Stream, Quota
    <2>6. CASE BeginWrite(s)
      BY <2>6, TaskShrinks DEF BeginWrite, Writes
    <2>7. CASE WriteEvent(s)
      BY <2>7, TaskShrinks DEF WriteEvent
    <2>8. CASE Park(s) \/ WriteTerminal(s) \/ WriteCollides(s)
      BY <2>8, TaskShrinks DEF Park, WriteTerminal, WriteCollides
    <2> QED
      BY <1>2, <2>1, <2>2, <2>3, <2>4, <2>5, <2>6, <2>7, <2>8 DEF Work
  <1>3. ASSUME NEW s \in Slot, GateLost(s) \/ LoseLease(s) \/ TaskDies(s) PROVE Shrinks
    <2>1. "failed" \in Outcome
      BY DEF Outcome
    <2> QED
      BY <1>3, <2>1, TaskShrinks DEF GateLost, LoseLease, TaskDies, Dies
  <1>4. ASSUME NEW r \in Run, Create(r) \/ ClaimLost(r) PROVE LaneInv'
    BY <1>1, <1>4 DEF Create, ClaimLost
  <1>5. ASSUME NEW c \in Client, NEW r \in Run, Cancel(c, r) PROVE LaneInv'
    BY <1>1, <1>5 DEF Cancel
  <1>6. ASSUME NEW o \in Sweeper, Sweep(o) PROVE LaneInv'
    BY <1>1, <1>6 DEF Sweep, ListStale, ListUnclaimed
  <1>7. ASSUME NEW o \in Client \cup Sweeper, Operate(o) PROVE LaneInv'
    BY <1>1, <1>7 DEF Operate, SetFlag, BeginClose, CommitClose, CloseCollides, CloseUnclaimed
  <1>8. CASE UNCHANGED vars
    BY <1>1, <1>8 DEF vars
  <1> QED
    BY <1>2, <1>3, <1>4, <1>5, <1>6, <1>7, <1>8, ClaimLane, ShrinkLane DEF Next

(* claim_for_lane: however many batch runs wait, and whichever tasks die,  *)
(* the reserved slots are left to interactive runs.                        *)
THEOREM LaneReserved == Spec => []ReserveKept
  <1>1. Init => LaneInv
    <2> SUFFICES ASSUME Init PROVE LaneInv
      OBVIOUS
    <2>1. \A s \in Slot : ex[s].run = NoRun
      BY DEF Init, NoExec
    <2>2. Batch = {}
      BY <2>1, RunAssumption DEF Batch
    <2>3. Cardinality(Batch) = 0 /\ Cardinality(Slot) \in Nat
      BY <2>2, FS_EmptySet, SlotsCounted
    <2>4. Cardinality(Batch) <= Cardinality(Slot) - Reserve
      BY <2>3, RunAssumption
    <2> QED
      BY <2>1, <2>4 DEF LaneInv, IdleEmpty, ReserveKept, Batch
  <1>2. RunInv /\ LaneInv /\ [Next]_vars => LaneInv'
    BY LaneStep
  <1>3. LaneInv => ReserveKept
    BY DEF LaneInv
  <1> QED
    BY RunInvariance, <1>1, <1>2, <1>3, PTL DEF Spec

-----------------------------------------------------------------------------
(* Who may run agents                                                      *)

(* A row that can be stored: of the three kinds the page sends, or the     *)
(* untouched one.                                                          *)
StoredRow ==
  {a \in [enabled : BOOLEAN, models : SUBSET {Access!Marker, Access!MODEL},
          accounts : SUBSET (AccessAccount \cup {NoAccounts})] :
     /\ a.models \in {{}, {Access!MODEL}, {Access!Marker}}
     /\ a.models = {Access!Marker} => a.accounts # {}
     /\ a.models # {Access!Marker} => NoAccounts \notin a.accounts
     /\ a.models = {} => a.accounts = {}}

(* The environment lists the owner, or nobody.                             *)
Deployed ==
  \/ env = [allowed |-> TRUE, models |-> {Access!MODEL}, accounts |-> {Owner}]
  \/ env = [allowed |-> FALSE, models |-> {}, accounts |-> {}]

AccessTyped ==
  /\ Deployed
  /\ table \in Seq(StoredRow) /\ table # <<>>
  /\ snap \in [Access!Proc -> Nat] /\ born \in [Access!Proc -> Nat \ {0}]
  /\ refresh \in [Access!Proc -> [Access!Caller -> Nat]]
  /\ form \in [Access!Browser ->
       [pc : {"idle", "write", "refresh"}, value : Access!Form \cup {Access!Untouched}]]
  /\ accessRun \in [pc : {"none", "pick", "created", "confirm", "started", "refused"},
                    account : AccessAccount \cup {Owner}, from : Nat, blind : BOOLEAN]

(* A process decides on a version stored since it came up.                 *)
SnapsAreYoung ==
  \A p \in Access!Proc :
    /\ born[p] <= Len(table)
    /\ snap[p] # 0 => snap[p] \in born[p] .. Len(table)
    /\ \A c \in Access!Caller : refresh[p][c] # 0 => refresh[p][c] \in born[p] .. Len(table)

(* A form that is about to be written has the row locked since the check.  *)
LockCovers ==
  \A b \in Access!Browser : form[b].pc = "write" =>
    /\ holder = b /\ form[b].value \in Access!Form
    /\ Access!account_only(table[Len(table)]) => Access!account_only(form[b].value)

(* The pick was made on a version that allowed it; the executor's own      *)
(* reading is of a version stored since it began to confirm.               *)
ReadsFollow ==
  /\ accessRun.from <= Len(table) /\ (accessRun.pc \in {"confirm", "refused"} => accessRun.from # 0)
  /\ accessRun.pc = "pick" => \E v \in born["api"] .. Len(table) : Access!RowAllows(table[v])
  /\ refresh["worker"]["own"] # 0 =>
       accessRun.pc = "confirm" /\ refresh["worker"]["own"] >= accessRun.from

(* A refusal rests on a version stored since the run was picked up.        *)
AccessInv == AccessTyped /\ SnapsAreYoung /\ LockCovers /\ ReadsFollow /\ Access!RefusedForReason

AccessStep == AccessInv' /\ Access!JustifiedStep /\ Access!KeepsMarker

AskedRun ==
  [pc : {"none", "pick", "created", "confirm", "started", "refused"},
   account : AccessAccount \cup {Owner}, from : Nat, blind : BOOLEAN]
SaveRow ==
  [pc : {"idle", "write", "refresh"}, value : Access!Form \cup {Access!Untouched}]

(* The checks of the code say what the row and the environment say.        *)
LEMMA ChecksAreTrue ==
  ASSUME AccessTyped, NEW v \in 1 .. Len(table), NEW acc \in AccessAccount \cup {Owner}
  PROVE  /\ Access!project_allowed(v) <=> Access!RowAllows(table[v])
         /\ Access!policy_violation(v, acc) <=> ~ Access!RowLists(table[v], acc)
  <1> DEFINE a == table[v]
  <1>1. v # 0 /\ a \in StoredRow
    <2>1. table \in Seq(StoredRow)
      BY DEF AccessTyped
    <2> QED
      BY <2>1
  <1>2. Access!access_for(v) = a
    BY <1>1 DEF Access!access_for
  <1> HIDE DEF a
  <1>3. /\ a.models \in {{}, {Access!MODEL}, {Access!Marker}} /\ a.enabled \in BOOLEAN
        /\ a.models = {Access!Marker} => a.accounts # {}
        /\ a.models # {Access!Marker} => NoAccounts \notin a.accounts
        /\ a.models = {} => a.accounts = {}
    BY <1>1 DEF StoredRow
  <1>4. Access!Marker # Access!MODEL
    BY DEF Access!Marker, Access!MODEL
  <1>5. Access!project_allowed(v) <=> Access!RowAllows(a)
    <2>1. CASE a.models = {Access!Marker}
      BY <1>1, <1>2, <2>1 DEF Access!project_allowed, Access!snapshot_loaded,
        Access!account_only, Access!RowAllows
    <2>2. CASE a.models # {Access!Marker}
      <3>1. Access!Marker \notin a.models
        BY <1>3, <1>4, <2>2
      <3> QED
        BY <1>1, <1>2, <2>2, <3>1 DEF Access!project_allowed, Access!snapshot_loaded,
          Access!account_only, Access!RowAllows
    <2> QED
      BY <2>1, <2>2
  <1>6. Access!policy_for(v) = Access!policy_of(a)
    BY <1>1, <1>2 DEF Access!policy_for, Access!snapshot_loaded
  <1>7. /\ acc # NoAccounts
        /\ \/ env.models = {Access!MODEL} /\ env.accounts = {Owner}
           \/ env.models = {} /\ env.accounts = {}
    BY AccessAssumption DEF AccessLabels, AccessTyped, Deployed
  <1>8. Access!policy_violation(v, acc) <=> ~ Access!RowLists(a, acc)
    <2>1. CASE a.models = {Access!Marker}
      <3>1. Access!policy_of(a) = [models |-> {Access!MODEL}, accounts |-> a.accounts \ {NoAccounts}]
        BY <2>1 DEF Access!policy_of, Access!account_only
      <3> QED
        BY <1>3, <1>6, <1>7, <2>1, <3>1 DEF Access!policy_violation, Access!RowLists
    <2>2. CASE a.models = {Access!MODEL} /\ a.accounts # {}
      <3>1. Access!policy_of(a) = [models |-> a.models, accounts |-> a.accounts]
        BY <1>4, <2>2 DEF Access!policy_of, Access!account_only, Access!has_policy
      <3> QED
        BY <1>6, <2>2, <3>1 DEF Access!policy_violation, Access!RowLists
    <2>3. CASE a.models # {Access!Marker} /\ a.accounts = {}
      <3>1. Access!policy_of(a) = IF env.models # {} /\ env.accounts # {}
                                  THEN [models |-> env.models, accounts |-> env.accounts]
                                  ELSE [models |-> {}, accounts |-> {}]
        BY <2>3 DEF Access!policy_of, Access!account_only, Access!has_policy, Access!NoPolicy
      <3> QED
        BY <1>6, <1>7, <2>3, <3>1 DEF Access!policy_violation, Access!RowLists
    <2> QED
      BY <1>3, <2>1, <2>2, <2>3
  <1> QED
    BY <1>5, <1>8 DEF a

(* A process that has loaded nothing decides for nobody.                   *)
LEMMA BlindIsNobody ==
  ASSUME NEW acc
  PROVE  ~ Access!project_allowed(0) /\ Access!policy_violation(0, acc)
  BY DEF Access!project_allowed, Access!snapshot_loaded, Access!policy_violation,
    Access!policy_for, Access!NoPolicy

(* What a row allows depends on the environment alone.                     *)
LEMMA RowsUnread ==
  ASSUME env' = env
  PROVE  \A a, acc : /\ Access!RowAllows(a)' <=> Access!RowAllows(a)
                     /\ Access!RowPermits(a, acc)' <=> Access!RowPermits(a, acc)
  BY DEF Access!RowAllows, Access!RowLists, Access!RowPermits

(* The decision of the executor on a version.                              *)
LEMMA DecisionTrue ==
  ASSUME AccessInv, NEW v \in Nat, v # 0 => v \in born["worker"] .. Len(table)
  PROVE  LET d == Access!Decided(v, accessRun) IN
         /\ d \in AskedRun /\ d.account = accessRun.account /\ d.from = accessRun.from
         /\ d.blind = accessRun.blind
         /\ d.pc \in {"refused", "started"}
         /\ d.pc = "started" => v # 0 /\ Access!RowPermits(table[v], accessRun.account)
         /\ d.pc = "refused" /\ v # 0 => ~ Access!RowPermits(table[v], accessRun.account)
  <1>1. /\ accessRun \in AskedRun /\ AccessTyped /\ born["worker"] \in Nat \ {0}
        /\ accessRun.account \in AccessAccount \cup {Owner}
    BY DEF AccessInv, AccessTyped, AskedRun, Access!Proc
  <1> DEFINE x == IF Access!_access_problem(v, accessRun) THEN "refused" ELSE "started"
  <1>2. Access!Decided(v, accessRun) = [accessRun EXCEPT !.pc = x]
    BY DEF Access!Decided
  <1>3. x \in {"refused", "started"}
    OBVIOUS
  <1>4. CASE v = 0
    <2>1. x = "refused"
      BY <1>4, BlindIsNobody DEF Access!_access_problem
    <2> HIDE DEF x
    <2> QED
      BY <1>1, <1>2, <1>3, <1>4, <2>1 DEF AskedRun
  <1>5. CASE v # 0
    <2>1. v \in 1 .. Len(table)
      BY <1>1, <1>5
    <2>2. x = "started" <=> Access!RowPermits(table[v], accessRun.account)
      BY <1>1, <2>1, ChecksAreTrue DEF Access!_access_problem, Access!RowPermits
    <2> HIDE DEF x
    <2> QED
      BY <1>1, <1>2, <1>3, <1>5, <2>2 DEF AskedRun
  <1> QED
    BY <1>4, <1>5

(* What the invariant says of the parts, with the sets written out.        *)
LEMMA AccessParts ==
  ASSUME AccessInv
  PROVE  /\ Deployed /\ table \in Seq(StoredRow) /\ Len(table) \in Nat \ {0}
         /\ snap \in [Access!Proc -> Nat] /\ born \in [Access!Proc -> Nat \ {0}]
         /\ refresh \in [Access!Proc -> [Access!Caller -> Nat]]
         /\ form \in [Access!Browser -> SaveRow] /\ accessRun \in AskedRun
         /\ accessRun.account \in AccessAccount \cup {Owner}
         /\ "api" \in Access!Proc /\ "worker" \in Access!Proc
         /\ "own" \in Access!Caller /\ "loop" \in Access!Caller
  <1>1. table \in Seq(StoredRow) /\ table # <<>>
    BY DEF AccessInv, AccessTyped
  <1>2. Len(table) \in Nat \ {0}
    BY <1>1, EmptySeq
  <1> QED
    BY <1>1, <1>2 DEF AccessInv, AccessTyped, AskedRun, SaveRow, Access!Proc, Access!Caller

(* A step that changes neither the table nor the environment.              *)
LEMMA AccessSame ==
  ASSUME AccessInv, UNCHANGED <<env, table>>,
         snap' \in [Access!Proc -> Nat], born' \in [Access!Proc -> Nat \ {0}],
         refresh' \in [Access!Proc -> [Access!Caller -> Nat]],
         form' \in [Access!Browser -> SaveRow], accessRun' \in AskedRun,
         SnapsAreYoung', LockCovers', accessRun'.from <= Len(table),
         accessRun'.pc \in {"confirm", "refused"} => accessRun'.from # 0,
         accessRun'.pc = "pick" =>
           \E v \in born'["api"] .. Len(table) : Access!RowAllows(table[v]),
         refresh'["worker"]["own"] # 0 =>
           accessRun'.pc = "confirm" /\ refresh'["worker"]["own"] >= accessRun'.from,
         accessRun'.pc = "refused" =>
           accessRun'.blind \/ \E v \in accessRun'.from .. Len(table) :
                                 ~ Access!RowPermits(table[v], accessRun'.account)
  PROVE  AccessInv' /\ Access!KeepsMarker
  <1>1. AccessTyped'
    <2>1. AccessTyped /\ Deployed'
      BY DEF AccessInv, AccessTyped, Deployed
    <2> QED
      BY <2>1 DEF AccessTyped, AskedRun, SaveRow
  <1>3. ReadsFollow'
    BY DEF ReadsFollow, Access!RowAllows
  <1>4. (Access!RefusedForReason)'
    BY DEF Access!RefusedForReason, Access!RowPermits, Access!RowAllows, Access!RowLists
  <1>5. Access!KeepsMarker
    BY DEF Access!KeepsMarker, Access!account_only
  <1> QED
    BY <1>1, <1>3, <1>4, <1>5 DEF AccessInv

(* A save takes the lock after its check.                                  *)
LEMMA LockKeeps ==
  ASSUME AccessInv, NEW b \in Access!Browser, Access!Lock(b)
  PROVE  AccessStep
  <1>1. PICK a \in Access!Form :
          /\ ~ Access!Erases(a)
          /\ form' = [form EXCEPT ![b] = [pc |-> "write", value |-> a]]
    BY Zenon DEF Access!Lock
  <1>2. /\ UNCHANGED <<env, table, snap, born, refresh, accessRun>>
        /\ holder = Access!None /\ holder' = b
    BY DEF Access!Lock
  <1>3. Access!None \notin Access!Browser
    BY DEF Access!None, Access!Browser
  <1>4. form' \in [Access!Browser -> SaveRow]
    BY <1>1, AccessParts DEF SaveRow
  <1>5. LockCovers'
    <2>1. Access!account_only(table[Len(table)]) => Access!account_only(a)
      BY <1>1 DEF Access!Erases
    <2>2. \A d \in Access!Browser : d # b => form'[d] = form[d] /\ form[d].pc # "write"
      BY <1>1, <1>2, <1>3, AccessParts DEF AccessInv, LockCovers
    <2>3. form'[b].value = a
      BY <1>1, AccessParts
    <2> QED
      BY <1>2, <2>1, <2>2, <2>3 DEF LockCovers, Access!account_only
  <1>6. SnapsAreYoung'
    BY <1>2 DEF AccessInv, SnapsAreYoung
  <1>7. AccessInv' /\ Access!KeepsMarker
    <2>1. /\ ReadsFollow /\ Access!RefusedForReason
      BY DEF AccessInv
    <2> QED
      BY <1>2, <1>4, <1>5, <1>6, <2>1, AccessParts, AccessSame DEF ReadsFollow, Access!RefusedForReason
  <1>8. Access!JustifiedStep
    BY <1>2, AccessParts DEF Access!JustifiedStep, AskedRun
  <1> QED
    BY <1>7, <1>8 DEF AccessStep

(* A refresh reads the row that is stored now.                             *)
LEMMA ReadKeeps ==
  ASSUME AccessInv, NEW p \in Access!Proc, NEW c \in Access!Caller, Access!RefreshRead(p, c)
  PROVE  AccessStep
  <1>1. /\ refresh' = [refresh EXCEPT ![p][c] = Len(table)] /\ Access!Wanted(p, c)
        /\ UNCHANGED <<env, table, form, holder, snap, born, accessRun>>
    BY DEF Access!RefreshRead
  <1>2. refresh' \in [Access!Proc -> [Access!Caller -> Nat]]
    BY <1>1, AccessParts
  <1>3. \A q \in Access!Proc, d \in Access!Caller :
          refresh'[q][d] = IF q = p /\ d = c THEN Len(table) ELSE refresh[q][d]
    BY <1>1, AccessParts
  <1>4. LockCovers'
    BY <1>1 DEF AccessInv, LockCovers, Access!account_only
  <1>5. SnapsAreYoung'
    <2> SUFFICES ASSUME NEW q \in Access!Proc
                 PROVE  /\ born[q] <= Len(table)
                        /\ snap[q] # 0 => snap[q] \in born[q] .. Len(table)
                        /\ \A d \in Access!Caller :
                             refresh'[q][d] # 0 => refresh'[q][d] \in born[q] .. Len(table)
      BY <1>1 DEF SnapsAreYoung
    <2>1. /\ born[q] <= Len(table)
          /\ snap[q] # 0 => snap[q] \in born[q] .. Len(table)
          /\ \A d \in Access!Caller :
               refresh[q][d] # 0 => refresh[q][d] \in born[q] .. Len(table)
      BY DEF AccessInv, SnapsAreYoung
    <2>2. born[q] \in Nat /\ Len(table) \in Nat
      BY AccessParts
    <2> QED
      BY <1>3, <2>1, <2>2
  <1>6. refresh'["worker"]["own"] # 0 =>
          accessRun'.pc = "confirm" /\ refresh'["worker"]["own"] >= accessRun'.from
    <2>1. CASE p = "worker" /\ c = "own"
      <3>1. accessRun.pc = "confirm"
        BY <1>1, <2>1 DEF Access!Wanted
      <3>2. accessRun.from <= Len(table)
        BY <3>1 DEF AccessInv, ReadsFollow
      <3> QED
        BY <1>1, <1>3, <2>1, <3>1, <3>2, AccessParts
    <2>2. CASE ~ (p = "worker" /\ c = "own")
      BY <1>1, <1>3, <2>2, AccessParts DEF AccessInv, ReadsFollow
    <2> QED
      BY <2>1, <2>2
  <1>7. AccessInv' /\ Access!KeepsMarker
    <2>1. /\ ReadsFollow /\ Access!RefusedForReason
      BY DEF AccessInv
    <2> QED
      BY <1>1, <1>2, <1>4, <1>5, <1>6, <2>1, AccessParts, AccessSame DEF ReadsFollow, Access!RefusedForReason
  <1>8. Access!JustifiedStep
    BY <1>1, AccessParts DEF Access!JustifiedStep, AskedRun
  <1> QED
    BY <1>7, <1>8 DEF AccessStep

(* A refresh returns: a save has its answer, the executor decides on the   *)
(* version v, what it read or, blind, what it had.                         *)
LEMMA ReturnKeeps ==
  ASSUME AccessInv, NEW p \in Access!Proc, NEW c \in Access!Caller, NEW v \in Nat,
         NEW blind \in BOOLEAN, refresh[p][c] > 0,
         v # 0 => v \in born[p] .. Len(table), ~ blind => v = refresh[p][c],
         snap' \in [Access!Proc -> Nat],
         \A q \in Access!Proc : snap'[q] # 0 => snap'[q] \in born[q] .. Len(table),
         refresh' = [refresh EXCEPT ![p][c] = 0],
         Access!Returned(p, c, v, blind), UNCHANGED <<env, table, holder, born>>
  PROVE  AccessStep
  <1>1. refresh' \in [Access!Proc -> [Access!Caller -> Nat]]
    BY AccessParts
  <1>2. \A q \in Access!Proc, d \in Access!Caller :
          refresh'[q][d] = IF q = p /\ d = c THEN 0 ELSE refresh[q][d]
    BY AccessParts
  <1>3. SnapsAreYoung'
    <2> SUFFICES ASSUME NEW q \in Access!Proc
                 PROVE  /\ born[q] <= Len(table)
                        /\ snap'[q] # 0 => snap'[q] \in born[q] .. Len(table)
                        /\ \A d \in Access!Caller :
                             refresh'[q][d] # 0 => refresh'[q][d] \in born[q] .. Len(table)
      BY DEF SnapsAreYoung
    <2>1. /\ born[q] <= Len(table)
          /\ \A d \in Access!Caller :
               refresh[q][d] # 0 => refresh[q][d] \in born[q] .. Len(table)
      BY DEF AccessInv, SnapsAreYoung
    <2> QED
      BY <1>2, <2>1
  <1>4. /\ ReadsFollow /\ Access!RefusedForReason /\ LockCovers
    BY DEF AccessInv
  <1>5. CASE c = "own" /\ p = "worker"
    <2> DEFINE d == Access!Decided(v, accessRun)
    <2>1. UNCHANGED form /\ accessRun' = [d EXCEPT !.blind = blind]
      BY <1>5 DEF Access!Returned, Access!Set
    <2>2. /\ d \in AskedRun /\ d.account = accessRun.account /\ d.from = accessRun.from
          /\ d.pc \in {"refused", "started"}
          /\ d.pc = "started" => v # 0 /\ Access!RowPermits(table[v], accessRun.account)
          /\ d.pc = "refused" /\ v # 0 => ~ Access!RowPermits(table[v], accessRun.account)
      BY <1>5, DecisionTrue
    <2> HIDE DEF d
    <2>3. /\ accessRun' \in AskedRun /\ accessRun'.account = accessRun.account
          /\ accessRun'.from = accessRun.from /\ accessRun'.pc = d.pc /\ accessRun'.blind = blind
      BY <2>1, <2>2 DEF AskedRun
    <2>4. /\ accessRun.pc = "confirm" /\ refresh[p][c] >= accessRun.from /\ accessRun.from <= Len(table)
          /\ accessRun.from # 0
      BY <1>4, <1>5, AccessParts DEF ReadsFollow
    <2>5. LockCovers'
      BY <1>4, <2>1 DEF LockCovers, Access!account_only
    <2>6. refresh'["worker"]["own"] = 0
      BY <1>2, <1>5
    <2>7. accessRun'.pc = "refused" =>
            accessRun'.blind \/ \E w \in accessRun'.from .. Len(table) :
                                  ~ Access!RowPermits(table[w], accessRun'.account)
      <3> SUFFICES ASSUME accessRun'.pc = "refused", ~ blind
                   PROVE  \E w \in accessRun'.from .. Len(table) :
                            ~ Access!RowPermits(table[w], accessRun'.account)
        BY <2>3
      <3>0. v = refresh[p][c]
        OBVIOUS
      <3>1. v # 0 /\ v >= accessRun.from /\ v <= Len(table)
        <4>1. v # 0 /\ v >= accessRun.from
          BY <2>4, <3>0
        <4>2. v \in born[p] .. Len(table)
          BY <4>1
        <4> QED
          BY <4>1, <4>2
      <3>2. ~ Access!RowPermits(table[v], accessRun.account)
        BY <2>2, <2>3, <3>1
      <3>3. v \in accessRun'.from .. Len(table)
        BY <2>3, <3>1, AccessParts DEF AskedRun
      <3> QED
        BY <2>3, <3>2, <3>3
    <2>8. AccessInv' /\ Access!KeepsMarker
      BY <1>1, <1>3, <2>1, <2>2, <2>3, <2>4, <2>5, <2>6, <2>7, AccessParts, AccessSame
    <2>9. Access!JustifiedStep
      BY <1>5, <2>2, <2>3, <2>4 DEF Access!JustifiedStep
    <2> QED
      BY <2>8, <2>9 DEF AccessStep
  <1>6. CASE ~ (c = "own" /\ p = "worker")
    <2>1. UNCHANGED accessRun /\ form' \in {form, Access!Saved}
      BY <1>6 DEF Access!Returned, Access!Proc
    <2>2. form' \in [Access!Browser -> SaveRow] /\ LockCovers'
      <3>1. CASE form' = form
        BY <1>4, <3>1, AccessParts DEF LockCovers, Access!account_only
      <3>2. CASE form' = Access!Saved
        <4>1. \A b \in Access!Browser :
                form'[b] = IF form[b].pc = "refresh" THEN Access!NoForm ELSE form[b]
          BY <3>2 DEF Access!Saved
        <4>2. Access!NoForm \in SaveRow /\ Access!NoForm.pc = "idle"
          BY DEF Access!NoForm, SaveRow
        <4>3. form' \in [Access!Browser -> SaveRow]
          BY <3>2, <4>2, AccessParts DEF Access!Saved
        <4>4. \A b \in Access!Browser : form'[b].pc = "write" => form'[b] = form[b]
          BY <4>1, <4>2
        <4> QED
          BY <1>4, <4>3, <4>4 DEF LockCovers, Access!account_only
      <3> QED
        BY <2>1, <3>1, <3>2
    <2>3. refresh'["worker"]["own"] = refresh["worker"]["own"]
      BY <1>2, <1>6, AccessParts
    <2>4. AccessInv' /\ Access!KeepsMarker
      BY <1>1, <1>3, <1>4, <2>1, <2>2, <2>3, AccessParts, AccessSame DEF ReadsFollow, Access!RefusedForReason
    <2>5. Access!JustifiedStep
      BY <2>1, AccessParts DEF Access!JustifiedStep, AskedRun
    <2> QED
      BY <2>4, <2>5 DEF AccessStep
  <1> QED
    BY <1>5, <1>6

(* A refresh that succeeds publishes the version it read.                  *)
LEMMA PublishKeeps ==
  ASSUME AccessInv, NEW p \in Access!Proc, NEW c \in Access!Caller, Access!Publish(p, c)
  PROVE  AccessStep
  <1> DEFINE v == refresh[p][c]
  <1>1. /\ v > 0 /\ snap' = [snap EXCEPT ![p] = v] /\ refresh' = [refresh EXCEPT ![p][c] = 0]
        /\ Access!Returned(p, c, v, FALSE) /\ UNCHANGED <<env, table, holder, born>>
    BY DEF Access!Publish
  <1>2. v \in Nat
    BY AccessParts
  <1>3. v \in born[p] .. Len(table) /\ \A q \in Access!Proc : snap[q] # 0 => snap[q] \in born[q] .. Len(table)
    BY <1>1, <1>2 DEF AccessInv, SnapsAreYoung
  <1> HIDE DEF v
  <1>4. /\ snap' \in [Access!Proc -> Nat]
        /\ \A q \in Access!Proc : snap'[q] # 0 => snap'[q] \in born[q] .. Len(table)
    BY <1>1, <1>2, <1>3, AccessParts
  <1> QED
    BY <1>1, <1>2, <1>3, <1>4, ReturnKeeps DEF v

(* A refresh that fails keeps the version there was.                       *)
LEMMA FailKeepsAccess ==
  ASSUME AccessInv, NEW p \in Access!Proc, NEW c \in Access!Caller, Access!RefreshFails(p, c)
  PROVE  AccessStep
  <1>1. /\ refresh[p][c] > 0 /\ refresh' = [refresh EXCEPT ![p][c] = 0]
        /\ Access!Returned(p, c, snap[p], TRUE) /\ UNCHANGED <<env, table, holder, snap, born>>
    BY DEF Access!RefreshFails, Access!Retried
  <1>2. snap[p] \in Nat /\ \A q \in Access!Proc : snap[q] # 0 => snap[q] \in born[q] .. Len(table)
    BY AccessParts DEF AccessInv, SnapsAreYoung
  <1> QED
    BY <1>1, <1>2, AccessParts, ReturnKeeps

(* The commit of a save: a new version, of a kind that can be stored.      *)
LEMMA WriteKeeps ==
  ASSUME AccessInv, NEW b \in Access!Browser, Access!Write(b)
  PROVE  AccessStep
  <1> DEFINE a == form[b].value
             z == Access!Stored(a)
             n == Len(table)
  <1>1. /\ form[b].pc = "write" /\ table' = Append(table, z)
        /\ form' = [form EXCEPT ![b] = [pc |-> "refresh", value |-> Access!Untouched]]
        /\ UNCHANGED <<env, snap, born, refresh, accessRun>>
    BY DEF Access!Write
  <1>2. a \in Access!Form /\ (Access!account_only(table[n]) => Access!account_only(a))
    BY <1>1 DEF AccessInv, LockCovers
  <1> HIDE DEF a
  <1>3. z \in StoredRow /\ (Access!account_only(a) => Access!account_only(z))
    <2>1. NoAccounts \notin AccessAccount /\ Access!Marker # Access!MODEL
      BY AccessAssumption DEF AccessLabels, Access!Marker, Access!MODEL
    <2>2. CASE Access!account_only(a) /\ a.accounts = {}
      <3>1. z = [a EXCEPT !.accounts = {NoAccounts}]
        BY <2>2 DEF Access!Stored
      <3>2. a = [enabled |-> a.enabled, models |-> a.models, accounts |-> a.accounts]
            /\ a.enabled \in BOOLEAN
        BY <1>2 DEF Access!Form
      <3>3. z = [enabled |-> a.enabled, models |-> a.models, accounts |-> {NoAccounts}]
        BY <3>1, <3>2
      <3> HIDE DEF z
      <3> QED
        BY <2>2, <3>2, <3>3 DEF StoredRow, Access!account_only
    <2>3. CASE ~ (Access!account_only(a) /\ a.accounts = {})
      <3>1. z = a
        BY <2>3 DEF Access!Stored
      <3>2. a \in StoredRow
        BY <1>2, <2>1, <2>3 DEF StoredRow, Access!Form, Access!account_only
      <3> QED
        BY <3>1, <3>2
    <2> QED
      BY <2>2, <2>3
  <1> HIDE DEF z
  <1>4. n \in Nat \ {0} /\ table \in Seq(StoredRow)
    BY AccessParts
  <1>5. /\ table' \in Seq(StoredRow) /\ Len(table') = n + 1 /\ table'[n + 1] = z
        /\ \A v \in 1 .. n : table'[v] = table[v]
    <2>1. table' \in Seq(StoredRow) /\ Len(table') = n + 1 /\ table'[n + 1] = z
      BY <1>1, <1>3, <1>4, AppendProperties
    <2>2. \A v \in 1 .. n : table'[v] = table[v]
      BY <1>1, <1>3, <1>4, AppendProperties
    <2> QED
      BY <2>1, <2>2
  <1> HIDE DEF n
  <1>6. Access!KeepsMarker
    <2>1. Access!account_only(table[n]) => Access!account_only(z)
      BY <1>2, <1>3
    <2> QED
      BY <1>5, <2>1 DEF Access!KeepsMarker, n
  <1>7. AccessTyped'
    <2>1. form' \in [Access!Browser -> SaveRow]
      BY <1>1, AccessParts DEF SaveRow
    <2>2. Deployed'
      BY <1>1, AccessParts DEF Deployed
    <2>3. table' # <<>>
      BY <1>4, <1>5, EmptySeq
    <2>4. AccessTyped
      BY DEF AccessInv
    <2> QED
      BY <1>1, <1>5, <2>1, <2>2, <2>3, <2>4 DEF AccessTyped, SaveRow
  <1>8. SnapsAreYoung'
    <2> SUFFICES ASSUME NEW q \in Access!Proc
                 PROVE  /\ born[q] <= n + 1
                        /\ snap[q] # 0 => snap[q] \in born[q] .. (n + 1)
                        /\ \A c \in Access!Caller :
                             refresh[q][c] # 0 => refresh[q][c] \in born[q] .. (n + 1)
      BY <1>1, <1>5 DEF SnapsAreYoung
    <2>1. /\ born[q] <= n
          /\ snap[q] # 0 => snap[q] \in born[q] .. n
          /\ \A c \in Access!Caller : refresh[q][c] # 0 => refresh[q][c] \in born[q] .. n
      BY DEF AccessInv, SnapsAreYoung, n
    <2>2. born[q] \in Nat
      BY AccessParts
    <2> QED
      BY <1>4, <2>1, <2>2
  <1>9. LockCovers'
    <2> SUFFICES ASSUME NEW d \in Access!Browser PROVE form'[d].pc # "write"
      BY DEF LockCovers
    <2>1. CASE d = b
      BY <1>1, <2>1, AccessParts
    <2>2. CASE d # b
      <3>1. holder = b
        BY <1>1 DEF AccessInv, LockCovers
      <3>2. form[d].pc # "write"
        BY <2>2, <3>1 DEF AccessInv, LockCovers
      <3> QED
        BY <1>1, <2>2, <3>2, AccessParts
    <2> QED
      BY <2>1, <2>2
  <1>10. \A x, acc : /\ Access!RowAllows(x)' <=> Access!RowAllows(x)
                     /\ Access!RowPermits(x, acc)' <=> Access!RowPermits(x, acc)
    BY <1>1, RowsUnread
  <1>11. ReadsFollow'
    <2>1. ReadsFollow /\ accessRun.from \in Nat /\ born["api"] \in Nat \ {0}
      BY AccessParts DEF AccessInv, AskedRun
    <2>2. accessRun.pc = "pick" =>
            \E v \in born["api"] .. (n + 1) : Access!RowAllows(table'[v])
      <3> SUFFICES ASSUME accessRun.pc = "pick"
                   PROVE  \E v \in born["api"] .. (n + 1) : Access!RowAllows(table'[v])
        OBVIOUS
      <3>1. PICK v \in born["api"] .. n : Access!RowAllows(table[v])
        BY <2>1 DEF ReadsFollow, n
      <3>2. v \in 1 .. n /\ v \in born["api"] .. (n + 1)
        BY <1>4, <2>1, <3>1
      <3>3. table'[v] = table[v]
        BY <1>5, <3>2
      <3> QED
        BY <3>1, <3>2, <3>3
    <2>3. accessRun.from <= n + 1
      BY <1>4, <2>1 DEF ReadsFollow, n
    <2> QED
      BY <1>1, <1>5, <2>1, <2>2, <2>3 DEF ReadsFollow, Access!RowAllows
  <1>12. (Access!RefusedForReason)'
    <2> SUFFICES ASSUME accessRun.pc = "refused", ~ accessRun.blind
                 PROVE  \E v \in accessRun.from .. (n + 1) :
                          ~ Access!RowPermits(table'[v], accessRun.account)
      BY <1>1, <1>5 DEF Access!RefusedForReason, Access!RowPermits, Access!RowAllows, Access!RowLists
    <2>1. PICK v \in accessRun.from .. n : ~ Access!RowPermits(table[v], accessRun.account)
      BY DEF AccessInv, Access!RefusedForReason, n
    <2>2. accessRun.from \in Nat \ {0}
      BY AccessParts DEF AccessInv, ReadsFollow, AskedRun
    <2>3. v \in 1 .. n /\ v \in accessRun.from .. (n + 1)
      BY <1>4, <2>1, <2>2
    <2> QED
      BY <1>5, <2>1, <2>3
  <1>13. Access!JustifiedStep
    BY <1>1, AccessParts DEF Access!JustifiedStep, AskedRun
  <1> QED
    BY <1>6, <1>7, <1>8, <1>9, <1>11, <1>12, <1>13 DEF AccessInv, AccessStep

(* A process that restarts has loaded nothing and drops what it had begun. *)
LEMMA RestartKeepsAccess ==
  ASSUME AccessInv, NEW p \in Access!Proc, Access!Restart(p)
  PROVE  AccessStep
  <1>1. /\ snap' = [snap EXCEPT ![p] = 0] /\ born' = [born EXCEPT ![p] = Len(table)]
        /\ refresh' = [refresh EXCEPT ![p] = [c \in Access!Caller |-> 0]]
        /\ UNCHANGED <<env, table>>
    BY DEF Access!Restart
  <1>2. /\ snap' \in [Access!Proc -> Nat] /\ born' \in [Access!Proc -> Nat \ {0}]
        /\ refresh' \in [Access!Proc -> [Access!Caller -> Nat]]
        /\ \A c \in Access!Caller : refresh'[p][c] = 0
        /\ \A q \in Access!Proc : q # p =>
             snap'[q] = snap[q] /\ born'[q] = born[q] /\ refresh'[q] = refresh[q]
        /\ snap'[p] = 0 /\ born'[p] = Len(table)
    BY <1>1, AccessParts
  <1>3. SnapsAreYoung'
    <2> SUFFICES ASSUME NEW q \in Access!Proc
                 PROVE  /\ born'[q] <= Len(table)
                        /\ snap'[q] # 0 => snap'[q] \in born'[q] .. Len(table)
                        /\ \A c \in Access!Caller :
                             refresh'[q][c] # 0 => refresh'[q][c] \in born'[q] .. Len(table)
      BY <1>1 DEF SnapsAreYoung
    <2>1. CASE q = p
      <3>1. Len(table) <= Len(table)
        BY AccessParts
      <3> QED
        BY <1>2, <2>1, <3>1
    <2>2. CASE q # p
      BY <1>2, <2>2 DEF AccessInv, SnapsAreYoung
    <2> QED
      BY <2>1, <2>2
  <1>4. /\ ReadsFollow /\ Access!RefusedForReason /\ LockCovers
    BY DEF AccessInv
  <1>5. /\ Access!NotAsked \in AskedRun /\ Access!NotAsked.pc = "none" /\ Access!NotAsked.from = 0
        /\ Access!NoForm \in SaveRow /\ Access!NoForm.pc = "idle"
    BY DEF Access!NotAsked, AskedRun, Access!NoForm, SaveRow
  <1>6. CASE p = "api"
    <2>1. /\ form' = [b \in Access!Browser |-> Access!NoForm]
          /\ accessRun' = IF accessRun.pc = "pick" THEN Access!NotAsked ELSE accessRun
      BY <1>6 DEF Access!Restart, Access!Set
    <2>2. form' \in [Access!Browser -> SaveRow] /\ LockCovers'
      BY <1>5, <2>1 DEF LockCovers
    <2>3. refresh'["worker"]["own"] = refresh["worker"]["own"]
      BY <1>2, <1>6, AccessParts
    <2>4. CASE accessRun.pc = "pick"
      <3>1. accessRun' = Access!NotAsked /\ refresh'["worker"]["own"] = 0
        BY <1>4, <2>1, <2>3, <2>4 DEF ReadsFollow
      <3>2. AccessInv' /\ Access!KeepsMarker
        BY <1>1, <1>2, <1>3, <1>5, <2>2, <3>1, AccessParts, AccessSame
      <3> QED
        BY <1>5, <3>1, <3>2 DEF AccessStep, Access!JustifiedStep
    <2>5. CASE accessRun.pc # "pick"
      <3>1. accessRun' = accessRun
        BY <2>1, <2>5
      <3>2. AccessInv' /\ Access!KeepsMarker
        BY <1>1, <1>2, <1>3, <1>4, <2>2, <2>3, <2>5, <3>1, AccessParts, AccessSame
          DEF ReadsFollow, Access!RefusedForReason
      <3> QED
        BY <2>5, <3>1, <3>2 DEF AccessStep, Access!JustifiedStep
    <2> QED
      BY <2>4, <2>5
  <1>7. CASE p = "worker"
    <2>1. /\ UNCHANGED <<form, holder>>
          /\ accessRun' = IF accessRun.pc = "confirm" THEN [accessRun EXCEPT !.pc = "created"]
                          ELSE accessRun
      BY <1>7 DEF Access!Restart, Access!Set
    <2>2. form' \in [Access!Browser -> SaveRow] /\ LockCovers'
      BY <1>1, <1>4, <2>1, AccessParts DEF LockCovers, Access!account_only
    <2>3. refresh'["worker"]["own"] = 0 /\ born'["api"] = born["api"]
      BY <1>2, <1>7, AccessParts
    <2>4. CASE accessRun.pc = "confirm"
      <3>1. /\ accessRun' \in AskedRun /\ accessRun'.pc = "created"
            /\ accessRun'.from = accessRun.from
        BY <2>1, <2>4, AccessParts DEF AskedRun
      <3>2. AccessInv' /\ Access!KeepsMarker
        BY <1>1, <1>2, <1>3, <1>4, <2>2, <2>3, <3>1, AccessSame DEF ReadsFollow
      <3> QED
        BY <2>4, <3>1, <3>2 DEF AccessStep, Access!JustifiedStep
    <2>5. CASE accessRun.pc # "confirm"
      <3>1. accessRun' = accessRun
        BY <2>1, <2>5
      <3>2. AccessInv' /\ Access!KeepsMarker
        BY <1>1, <1>2, <1>3, <1>4, <2>2, <2>3, <3>1, AccessParts, AccessSame
          DEF ReadsFollow, Access!RefusedForReason
      <3> QED
        BY <3>1, <3>2 DEF AccessStep, Access!JustifiedStep
    <2> QED
      BY <2>4, <2>5
  <1> QED
    BY <1>6, <1>7 DEF Access!Proc

(* A step of the run itself.                                               *)
LEMMA RunMoves ==
  ASSUME AccessInv, UNCHANGED <<env, table, form, holder, snap, born, refresh>>,
         accessRun' \in AskedRun, accessRun.pc \in {"none", "pick", "created"},
         accessRun'.pc # "refused", accessRun'.from <= Len(table),
         accessRun'.pc = "confirm" => accessRun'.from # 0,
         accessRun'.pc = "pick" => \E v \in born["api"] .. Len(table) : Access!RowAllows(table[v])
  PROVE  AccessInv' /\ Access!KeepsMarker
  <1>1. LockCovers' /\ SnapsAreYoung'
    BY DEF AccessInv, LockCovers, SnapsAreYoung, Access!account_only
  <1>2. refresh'["worker"]["own"] = 0
    BY AccessParts DEF AccessInv, ReadsFollow
  <1> QED
    BY <1>1, <1>2, AccessParts, AccessSame

(* The allowlist and the candidates, in the api process.                   *)
LEMMA SubmitKeepsAccess ==
  ASSUME AccessInv, Access!Submit
  PROVE  AccessStep
  <1> DEFINE v == snap["api"]
             candidates == Access!policy_for(v).accounts
  <1>1. PICK a \in (IF candidates = {} THEN {Owner} ELSE candidates) :
          accessRun' = [Access!NotAsked EXCEPT !.pc = "pick", !.account = a]
    BY Zenon DEF Access!Submit, Access!Set
  <1>2. /\ UNCHANGED <<env, table, form, holder, snap, born, refresh>>
        /\ accessRun.pc = "none" /\ Access!project_allowed(v)
    BY DEF Access!Submit
  <1>3. v # 0
    BY <1>2, BlindIsNobody
  <1>4. v \in born["api"] .. Len(table) /\ v \in 1 .. Len(table)
    <2>1. v \in born["api"] .. Len(table) /\ born["api"] \in Nat \ {0}
      BY <1>3, AccessParts DEF AccessInv, SnapsAreYoung
    <2> QED
      BY <2>1, AccessParts
  <1>5. Owner \in AccessAccount \cup {Owner} /\ AccessTyped
    BY DEF AccessInv
  <1>6. Access!RowAllows(table[v])
    BY <1>2, <1>4, <1>5, ChecksAreTrue
  <1>7. candidates \subseteq AccessAccount \cup {Owner}
    <2>1. table[v] \in StoredRow
      BY <1>4, AccessParts
    <2>2. Access!policy_for(v) = Access!policy_of(table[v])
      BY <1>3 DEF Access!policy_for, Access!snapshot_loaded, Access!access_for
    <2>3. /\ table[v].accounts \subseteq AccessAccount \cup {NoAccounts}
          /\ ~ Access!account_only(table[v]) => NoAccounts \notin table[v].accounts
      BY <2>1 DEF StoredRow, Access!account_only
    <2>4. env.accounts \subseteq {Owner}
      BY AccessParts DEF Deployed
    <2>5. Access!policy_of(table[v]).accounts \subseteq AccessAccount \cup {Owner}
      BY <2>3, <2>4 DEF Access!policy_of, Access!NoPolicy
    <2> QED
      BY <2>2, <2>5
  <1> HIDE DEF candidates, v
  <1>8. a \in AccessAccount \cup {Owner}
    BY <1>1, <1>7
  <1>9. accessRun' \in AskedRun /\ accessRun'.pc = "pick" /\ accessRun'.from = 0
    BY <1>1, <1>8 DEF Access!NotAsked, AskedRun
  <1>10. AccessInv' /\ Access!KeepsMarker
    BY <1>2, <1>4, <1>6, <1>9, RunMoves, AccessParts
  <1> QED
    BY <1>2, <1>9, <1>10 DEF AccessStep, Access!JustifiedStep

(* The policy read again after the pick.                                   *)
LEMMA CreateKeepsAccess ==
  ASSUME AccessInv, Access!Create
  PROVE  AccessStep
  <1> DEFINE v == snap["api"]
  <1>1. /\ accessRun.pc = "pick" /\ UNCHANGED <<env, table, form, holder, snap, born, refresh>>
        /\ accessRun' = IF Access!policy_violation(v, accessRun.account) THEN Access!NotAsked
                        ELSE [accessRun EXCEPT !.pc = "created"]
    BY DEF Access!Create, Access!Set
  <1>2. /\ Access!NotAsked \in AskedRun /\ Access!NotAsked.pc = "none" /\ Access!NotAsked.from = 0
    BY DEF Access!NotAsked, AskedRun
  <1>3. CASE Access!policy_violation(v, accessRun.account)
    <2>1. accessRun' = Access!NotAsked /\ 0 <= Len(table)
      BY <1>1, <1>3, AccessParts
    <2>2. AccessInv' /\ Access!KeepsMarker
      BY <1>1, <1>2, <2>1, RunMoves
    <2> QED
      BY <1>2, <2>1, <2>2 DEF AccessStep, Access!JustifiedStep
  <1>4. CASE ~ Access!policy_violation(v, accessRun.account)
    <2>1. accessRun' \in AskedRun /\ accessRun'.pc = "created" /\ accessRun'.from = accessRun.from
      BY <1>1, <1>4, AccessParts DEF AskedRun
    <2>2. accessRun.from <= Len(table) /\ \E w \in born["api"] .. Len(table) : Access!RowAllows(table[w])
      BY <1>1 DEF AccessInv, ReadsFollow
    <2>3. AccessInv' /\ Access!KeepsMarker
      BY <1>1, <2>1, <2>2, RunMoves
    <2>4. v # 0
      BY <1>4, BlindIsNobody
    <2>5. v \in born["api"] .. Len(table) /\ v \in 1 .. Len(table)
      <3>1. v \in born["api"] .. Len(table) /\ born["api"] \in Nat \ {0}
        BY <2>4, AccessParts DEF AccessInv, SnapsAreYoung
      <3> QED
        BY <3>1, AccessParts
    <2>6. accessRun.account \in AccessAccount \cup {Owner} /\ AccessTyped
      BY AccessParts DEF AccessInv
    <2>7. Access!RowLists(table[v], accessRun.account)
      BY <1>4, <2>5, <2>6, ChecksAreTrue
    <2> HIDE DEF v
    <2> QED
      BY <2>1, <2>2, <2>3, <2>5, <2>7 DEF AccessStep, Access!JustifiedStep
  <1> QED
    BY <1>3, <1>4

(* The executor's first look; what it refuses it confirms.                 *)
LEMMA ExecuteKeeps ==
  ASSUME AccessInv, Access!Execute
  PROVE  AccessStep
  <1> DEFINE v == snap["worker"]
  <1>1. /\ accessRun.pc = "created" /\ UNCHANGED <<env, table, form, holder, snap, born, refresh>>
        /\ accessRun' = IF Access!_access_problem(v, accessRun)
                        THEN [accessRun EXCEPT !.pc = "confirm", !.from = Len(table)]
                        ELSE [accessRun EXCEPT !.pc = "started"]
    BY DEF Access!Execute, Access!Set
  <1>2. CASE Access!_access_problem(v, accessRun)
    <2>1. accessRun' \in AskedRun /\ accessRun'.pc = "confirm" /\ accessRun'.from = Len(table)
      BY <1>1, <1>2, AccessParts DEF AskedRun
    <2>2. AccessInv' /\ Access!KeepsMarker
      BY <1>1, <2>1, RunMoves, AccessParts
    <2> QED
      BY <2>1, <2>2 DEF AccessStep, Access!JustifiedStep
  <1>3. CASE ~ Access!_access_problem(v, accessRun)
    <2>1. accessRun' \in AskedRun /\ accessRun'.pc = "started" /\ accessRun'.from = accessRun.from
      BY <1>1, <1>3, AccessParts DEF AskedRun
    <2>2. accessRun.from <= Len(table)
      BY DEF AccessInv, ReadsFollow
    <2>3. AccessInv' /\ Access!KeepsMarker
      BY <1>1, <2>1, <2>2, RunMoves
    <2>4. v \in Nat /\ (v # 0 => v \in born["worker"] .. Len(table))
      BY AccessParts DEF AccessInv, SnapsAreYoung
    <2>5. Access!Decided(v, accessRun).pc = "started"
      BY <1>3, AccessParts DEF Access!Decided, AskedRun
    <2>6. v # 0 /\ Access!RowPermits(table[v], accessRun.account)
      BY <2>4, <2>5, DecisionTrue
    <2> HIDE DEF v
    <2> QED
      BY <1>1, <2>1, <2>3, <2>4, <2>6 DEF AccessStep, Access!JustifiedStep
  <1> QED
    BY <1>2, <1>3

(* The initial states.                                                     *)
LEMMA AccessStarts ==
  ASSUME Access!Init
  PROVE  AccessInv
  <1>1. /\ table = <<Access!Untouched>> /\ form = [b \in Access!Browser |-> Access!NoForm]
        /\ snap = [p \in Access!Proc |-> 0] /\ born = [p \in Access!Proc |-> 1]
        /\ refresh = [p \in Access!Proc |-> [c \in Access!Caller |-> 0]]
        /\ accessRun = Access!NotAsked
    BY DEF Access!Init
  <1>2. Deployed
    <2>1. PICK on \in BOOLEAN :
            env = [allowed |-> on, models |-> IF on THEN {Access!MODEL} ELSE {},
                   accounts |-> IF on THEN {Owner} ELSE {}]
      BY Zenon DEF Access!Init
    <2>2. CASE on = TRUE
      BY <2>1, <2>2 DEF Deployed
    <2>3. CASE on = FALSE
      BY <2>1, <2>3 DEF Deployed
    <2> QED
      BY <2>2, <2>3
  <1>3. Access!Untouched \in StoredRow
    <2>1. {} # {Access!Marker}
      OBVIOUS
    <2> QED
      BY <2>1 DEF StoredRow, Access!Untouched
  <1>4. table \in Seq(StoredRow) /\ Len(table) = 1 /\ table # <<>>
    BY <1>1, <1>3
  <1>5. Access!NoForm \in SaveRow /\ Access!NoForm.pc = "idle"
    BY DEF Access!NoForm, SaveRow
  <1>6. /\ accessRun \in AskedRun /\ accessRun.pc = "none" /\ accessRun.from = 0
    BY <1>1 DEF Access!NotAsked, AskedRun
  <1>7. AccessTyped
    BY <1>1, <1>2, <1>4, <1>5, <1>6 DEF AccessTyped, SaveRow, AskedRun
  <1>8. SnapsAreYoung
    BY <1>1, <1>4 DEF SnapsAreYoung
  <1>9. LockCovers
    BY <1>1, <1>5 DEF LockCovers
  <1>10. ReadsFollow
    BY <1>1, <1>4, <1>6 DEF ReadsFollow, Access!Proc, Access!Caller
  <1>11. Access!RefusedForReason
    BY <1>6 DEF Access!RefusedForReason
  <1> QED
    BY <1>7, <1>8, <1>9, <1>10, <1>11 DEF AccessInv

(* Every step.                                                             *)
LEMMA AccessMoves ==
  ASSUME AccessInv, Access!Next
  PROVE  AccessStep
  <1>1. CASE \E b \in Access!Browser : Access!Lock(b) \/ Access!Write(b)
    BY <1>1, LockKeeps, WriteKeeps
  <1>2. CASE \E p \in Access!Proc, c \in Access!Caller :
               Access!RefreshRead(p, c) \/ Access!Publish(p, c) \/ Access!RefreshFails(p, c)
    BY <1>2, ReadKeeps, PublishKeeps, FailKeepsAccess
  <1>3. CASE \E p \in Access!Proc : Access!Restart(p)
    BY <1>3, RestartKeepsAccess
  <1>4. CASE Access!Submit \/ Access!Create \/ Access!Execute
    BY <1>4, SubmitKeepsAccess, CreateKeepsAccess, ExecuteKeeps
  <1> QED
    BY <1>1, <1>2, <1>3, <1>4 DEF Access!Next

(* Every behaviour keeps the invariant, and every step of it is justified. *)
LEMMA AccessAlong ==
  /\ InitAll => (which = "access" => AccessInv)
  /\ (which = "access" => AccessInv) /\ [NextAll]_allVars
     => /\ (which = "access" => AccessInv)'
        /\ [which = "access" => Access!JustifiedStep /\ Access!RefusedForReason'
                                 /\ Access!KeepsMarker]_accessVars
  <1>1. InitAll => (which = "access" => AccessInv)
    BY AccessStarts DEF InitAll
  <1>2. ASSUME which = "access" => AccessInv, [NextAll]_allVars
        PROVE  /\ (which = "access" => AccessInv)'
               /\ [which = "access" => Access!JustifiedStep /\ Access!RefusedForReason'
                                        /\ Access!KeepsMarker]_accessVars
    <2>1. which' = which
      BY <1>2 DEF NextAll, Running, Picking, Collecting, Granting, Observing, allVars
    <2>2. which = "access" => Access!Next \/ UNCHANGED accessVars
      BY <1>2 DEF NextAll, Running, Picking, Collecting, Granting, Observing, allVars
    <2>3. CASE which = "access" /\ Access!Next
      BY <1>2, <2>1, <2>3, AccessMoves DEF AccessStep, AccessInv
    <2>4. CASE which = "access" /\ UNCHANGED accessVars
      <3>1. AccessInv'
        BY <1>2, <2>4 DEF AccessInv, AccessTyped, Deployed, SnapsAreYoung, LockCovers, ReadsFollow,
          accessVars, Access!account_only, Access!RefusedForReason, Access!RowPermits,
          Access!RowAllows, Access!RowLists
      <3> QED
        BY <2>4, <3>1
    <2> QED
      BY <2>1, <2>2, <2>3, <2>4
  <1> QED
    BY <1>1, <1>2

(* project_access.py and policy.py: a run starts only if a row stored      *)
(* since the worker came up permits it and is created only if rows stored  *)
(* since the api process came up allow it; it is refused for good only if  *)
(* a row stored since it was picked up forbids it, or the confirming read  *)
(* failed; the account-only marker is never erased.                        *)
THEOREM AccessIsJustified == SpecAll => AccessJustified
  BY AccessAlong, PTL DEF SpecAll, AccessJustified

-----------------------------------------------------------------------------
(* The files and images of a run.                                          *)

(* Every path there is.                                                    *)
FPaths == Gen \cup Out \cup RFiles!Copies

(* The files, and where the collectors stand among them.                   *)
FilesTyped ==
  /\ fs \in [FPaths -> [content : Content \cup {0}, size : Nat, fresh : BOOLEAN]]
  /\ todo \subseteq FPaths /\ opened \in FPaths \cup {0}
  /\ pc \in {"files", "export", "out", "end"}

(* A set of delivered images: no two with the same data, each in its cap.  *)
Delivered(x) ==
  /\ IsFiniteSet(x) /\ IsFiniteSet(RFiles!DataOf(x))
  /\ \A r \in x : r.data[2] \in Nat /\ r.data[2] <= ImageMax
  /\ Cardinality(RFiles!DataOf(x)) = Cardinality(x)

(* The bytes a collector counts are those it delivered, and the second one *)
(* starts from what the first one left.                                    *)
Counted ==
  /\ pc = "files" => images = {}
  /\ pc \in {"files", "export"} => outs = {}
  /\ pc = "export" => used = RFiles!Bytes(images)
  /\ pc = "out" => used = RFiles!Bytes(outs)
  /\ RFiles!Bytes(images) + RFiles!Bytes(outs) <= ImageTotal

(* What the export has opened is not of the baseline.                      *)
OpenedIsNew == (pc = "export" /\ opened # 0) => opened \notin baseline

(* The inductive invariant of the collectors.                              *)
FilesInv ==
  /\ FilesTyped /\ Delivered(images) /\ Delivered(outs) /\ Counted /\ OpenedIsNew
  /\ RFiles!DataOf(outs) \cap (RFiles!DataOf(files) \cup RFiles!DataOf(images)) = {}
  /\ RFiles!OwnImages

(* The library's operators are the same inside the instance.               *)
LEMMA FilesLibrary ==
  /\ \A x : RFiles!Cardinality(x) = Cardinality(x)
  /\ \A f : RFiles!SumFunction(f) = SumFunction(f)
  <1>1. \A x : RFiles!Cardinality(x) = Cardinality(x)
    BY Zenon DEF RFiles!Cardinality, Cardinality
  <1>2. ASSUME NEW f PROVE RFiles!SumFunction(f) = SumFunction(f)
    BY Zenon DEF RFiles!SumFunction, RFiles!SumFunctionOnSet, RFiles!FoldFunctionOnSet, RFiles!MapThenFoldSet,
      SumFunction, SumFunctionOnSet, FoldFunctionOnSet, MapThenFoldSet
  <1> QED BY <1>1, <1>2

(* It says what a run reports of its images.                               *)
LEMMA FilesInvSays == FilesInv => RFiles!ImageBudget /\ RFiles!ReturnedOnce /\ RFiles!OwnImages
  BY FilesLibrary DEF FilesInv, Counted, Delivered, RFiles!ImageBudget, RFiles!ReturnedOnce

(* Nothing delivered is nothing counted.                                   *)
LEMMA NoBytes == RFiles!Bytes({}) = 0 /\ RFiles!DataOf({}) = {} /\ Delivered({})
  <1>1. SumFunction([x \in {} |-> 0]) = 0
    BY SumZero, FS_EmptySet
  <1>2. [x \in {} |-> 0] = [r \in {} |-> r.data[2]]
    OBVIOUS
  <1>3. RFiles!DataOf({}) = {}
    BY DEF RFiles!DataOf
  <1>4. RFiles!Bytes({}) = 0
    BY <1>1, <1>2, FilesLibrary DEF RFiles!Bytes
  <1> QED BY <1>3, <1>4, FS_EmptySet DEF Delivered

(* Delivered bytes are a number.                                           *)
LEMMA BytesType ==
  ASSUME NEW x, Delivered(x)
  PROVE  RFiles!Bytes(x) \in Nat
  <1>1. [r \in x |-> r.data[2]] \in [x -> Nat]
    BY DEF Delivered
  <1> QED BY <1>1, SumType, FilesLibrary DEF RFiles!Bytes, Delivered

(* One more image, whose data are not there yet.                           *)
LEMMA Deliver ==
  ASSUME NEW x, Delivered(x), NEW r, r.data[2] \in Nat, r.data[2] <= ImageMax,
         r.data \notin RFiles!DataOf(x)
  PROVE  /\ Delivered(x \cup {r})
         /\ RFiles!Bytes(x \cup {r}) = RFiles!Bytes(x) + r.data[2]
         /\ RFiles!DataOf(x \cup {r}) = RFiles!DataOf(x) \cup {r.data}
  <1> DEFINE S == x \cup {r}
             f == [q \in S |-> q.data[2]]
             e == [q \in x |-> q.data[2]]
  <1>1. r \notin x
    BY DEF RFiles!DataOf
  <1>2. RFiles!DataOf(S) = RFiles!DataOf(x) \cup {r.data}
    BY DEF RFiles!DataOf
  <1>3. /\ IsFiniteSet(S) /\ Cardinality(S) = Cardinality(x) + 1
        /\ IsFiniteSet(RFiles!DataOf(S))
        /\ Cardinality(RFiles!DataOf(S)) = Cardinality(RFiles!DataOf(x)) + 1
    BY <1>1, <1>2, FS_AddElement DEF Delivered
  <1>4. Delivered(S)
    BY <1>3 DEF Delivered
  <1>5. f \in [S -> Nat] /\ e \in [x -> Nat] /\ f[r] = r.data[2]
    BY DEF Delivered
  <1>6. \A q \in x : f[q] = e[q]
    OBVIOUS
  <1>7. RFiles!Bytes(S) = SumFunction(f) /\ RFiles!Bytes(x) = SumFunction(e)
    BY FilesLibrary DEF RFiles!Bytes
  <1> HIDE DEF f, e
  <1>8. PICK g : IsSum(g, f, S) /\ SumFunction(f) = g[S]
    BY <1>3, <1>5, SumIs
  <1> DEFINE h == [T \in SUBSET x |-> g[T]]
  <1>9. IsSum(h, e, x)
    <2>1. h \in [SUBSET x -> Nat] /\ h[{}] = 0
      BY <1>8 DEF IsSum
    <2>2. ASSUME NEW T \in SUBSET x, NEW q \in x \ T PROVE h[T \cup {q}] = h[T] + e[q]
      <3>1. T \in SUBSET S /\ q \in S \ T /\ T \cup {q} \in SUBSET x
        OBVIOUS
      <3>2. g[T \cup {q}] = g[T] + f[q]
        BY <1>8, <3>1 DEF IsSum
      <3> QED BY <1>6, <3>1, <3>2
    <2> HIDE DEF h
    <2> QED BY <2>1, <2>2 DEF IsSum
  <1>10. h[x] = g[x]
    OBVIOUS
  <1> HIDE DEF h
  <1>11. SumFunction(e) = g[x]
    BY <1>5, <1>9, <1>10, SumUnique DEF Delivered
  <1>12. g[x \cup {r}] = g[x] + f[r]
    BY <1>1, <1>8 DEF IsSum
  <1> QED BY <1>2, <1>4, <1>5, <1>7, <1>8, <1>11, <1>12

(* Paths are positive numbers.                                             *)
LEMMA PathNumbers == FPaths \subseteq Nat \ {0}
  <1>1. CopyBase \in Nat /\ Gen \cup Out \subseteq 1..CopyBase
    BY FilesAssumption DEF FilesLimits
  <1>2. \A g \in Gen : g + CopyBase \in Nat \ {0}
    BY <1>1
  <1> QED BY <1>1, <1>2 DEF FPaths, RFiles!Copies, RFiles!Copy

(* The collectors take a path that is there.                               *)
LEMMA NextPath ==
  ASSUME FilesTyped, todo # {}
  PROVE  RFiles!Next1 \in todo
  <1>1. \E x \in todo : \A y \in todo : x <= y
    BY Least, PathNumbers DEF FilesTyped
  <1> QED BY <1>1 DEF RFiles!Next1, RFiles!Min

(* What a file holds.                                                      *)
LEMMA FileData ==
  ASSUME FilesTyped, NEW p \in FPaths
  PROVE  /\ fs[p].size \in Nat
         /\ RFiles!Ref(p).data[2] = fs[p].size /\ RFiles!Ref(p).data = RFiles!Data(p)
         /\ RFiles!Ref(p).path = p
  BY DEF FilesTyped, RFiles!Ref, RFiles!Data

(* A step after which the delivered images are as before.                  *)
LEMMA FilesKeep ==
  ASSUME FilesInv, FilesTyped', OpenedIsNew', UNCHANGED <<images, outs, baseline>>,
         \/ files' = files
         \/ pc = "files",
         \/ pc' = pc /\ (used' = used \/ pc = "files" \/ pc = "end")
         \/ pc = "files" /\ pc' = "export" /\ used' = 0
         \/ pc = "export" /\ pc' = "out" /\ used' = 0
         \/ pc = "out" /\ pc' = "end"
  PROVE  FilesInv'
  <1>1. Delivered(images)' /\ Delivered(outs)'
    BY DEF FilesInv, Delivered
  <1>2. RFiles!Bytes(images)' = RFiles!Bytes(images) /\ RFiles!Bytes(outs)' = RFiles!Bytes(outs)
    BY Zenon
  <1>3. Counted'
    BY <1>2, NoBytes DEF FilesInv, Counted, FilesTyped
  <1>4. RFiles!OwnImages'
    BY DEF FilesInv, RFiles!OwnImages
  <1>5. (RFiles!DataOf(outs) \cap (RFiles!DataOf(files) \cup RFiles!DataOf(images)) = {})'
    <2>1. CASE files' = files
      BY <2>1 DEF FilesInv
    <2>2. CASE pc = "files"
      <3>1. outs' = {}
        BY <2>2 DEF FilesInv, Counted
      <3> QED BY <3>1, NoBytes
    <2> QED BY <2>1, <2>2
  <1> QED BY <1>1, <1>3, <1>4, <1>5 DEF FilesInv

(* The initial states.                                                     *)
LEMMA FilesStart == RFiles!Init => FilesInv
  <1> SUFFICES ASSUME RFiles!Init PROVE FilesInv
    OBVIOUS
  <1>1. FilesTyped
    <2>1. PICK old \in SUBSET Gen, here \in [Gen \cup Out -> {RFiles!Absent} \cup RFiles!File] :
            fs = [p \in Gen \cup Out \cup RFiles!Copies |->
                  IF p \in RFiles!Copies THEN RFiles!Absent
                  ELSE IF p \in old THEN [here[p] EXCEPT !.fresh = FALSE] ELSE here[p]]
      BY Zenon DEF RFiles!Init
    <2> DEFINE FT == [content : Content \cup {0}, size : Nat, fresh : BOOLEAN]
    <2>2. RFiles!Absent \in FT
      BY DEF RFiles!Absent
    <2>3. \A p \in Gen \cup Out : here[p] \in FT
      <3>1. RFiles!File \subseteq FT
        <4>1. ASSUME NEW x \in RFiles!File PROVE x \in FT
          <5>1. x \in [content : Content, size : 1..MaxSize, fresh : {TRUE}]
            BY DEF RFiles!File
          <5>2. 1..MaxSize \subseteq Nat
            BY FilesAssumption DEF FilesLimits
          <5> QED BY <5>1, <5>2
        <4> QED BY <4>1
      <3> QED BY <2>1, <2>2, <3>1
    <2>4. \A x \in FT : [x EXCEPT !.fresh = FALSE] \in FT
      OBVIOUS
    <2> HIDE DEF FT
    <2>5. fs \in [FPaths -> FT]
      BY <2>1, <2>2, <2>3, <2>4 DEF FPaths
    <2> QED BY <2>5 DEF FT, FilesTyped, RFiles!Init, FPaths
  <1>2. Counted
    BY NoBytes, FilesAssumption DEF Counted, RFiles!Init, FilesLimits
  <1> QED BY <1>1, <1>2, NoBytes DEF FilesInv, RFiles!Init, OpenedIsNew, RFiles!OwnImages

(* collect_files: looking at a file and reading it, and the end.           *)
LEMMA FilesCollect ==
  FilesInv /\ (RFiles!collect_files \/ RFiles!ReadFile \/ RFiles!FilesDone) => FilesInv'
  <1> SUFFICES ASSUME FilesInv, RFiles!collect_files \/ RFiles!ReadFile \/ RFiles!FilesDone
               PROVE  FilesInv'
    OBVIOUS
  <1>0. FilesTyped
    BY DEF FilesInv
  <1>1. CASE RFiles!collect_files
    <2>1. /\ pc = "files" /\ todo # {} /\ UNCHANGED <<fs, pc, baseline, files, images, outs>>
          /\ todo' = todo \ {RFiles!Next1} /\ opened' \in {opened, RFiles!Next1}
      BY <1>1 DEF RFiles!collect_files, RFiles!Ready, RFiles!Open, RFiles!Pass
    <2>2. FilesTyped' /\ OpenedIsNew'
      BY <1>0, <2>1, NextPath DEF FilesTyped, OpenedIsNew
    <2> QED BY <2>1, <2>2, FilesKeep
  <1>2. CASE RFiles!ReadFile
    <2>1. pc = "files" /\ UNCHANGED <<fs, pc, todo, used, baseline, images, outs>> /\ opened' = 0
      BY <1>2 DEF RFiles!ReadFile
    <2>2. FilesTyped' /\ OpenedIsNew'
      BY <1>0, <2>1 DEF FilesTyped, OpenedIsNew
    <2> QED BY <2>1, <2>2, FilesKeep
  <1>3. CASE RFiles!FilesDone
    <2>1. /\ pc = "files" /\ UNCHANGED <<fs, opened, baseline, files, images, outs>> /\ opened = 0
          /\ pc' = "export" /\ used' = 0 /\ todo' \subseteq Gen
      BY <1>3 DEF RFiles!FilesDone, RFiles!Present
    <2>2. FilesTyped' /\ OpenedIsNew'
      BY <1>0, <2>1 DEF FilesTyped, OpenedIsNew, FPaths
    <2> QED BY <2>1, <2>2, FilesKeep
  <1> QED BY <1>1, <1>2, <1>3

(* export_generated_pngs: a look at a file, and the end.                   *)
LEMMA FilesExport ==
  FilesInv /\ (RFiles!ExportLook \/ RFiles!ExportDone) => FilesInv'
  <1> SUFFICES ASSUME FilesInv, RFiles!ExportLook \/ RFiles!ExportDone PROVE FilesInv'
    OBVIOUS
  <1>0. FilesTyped
    BY DEF FilesInv
  <1>1. CASE RFiles!ExportLook
    <2>1. /\ pc = "export" /\ todo # {} /\ opened = 0
          /\ UNCHANGED <<fs, pc, used, baseline, files, images, outs>>
          /\ todo' = todo \ {RFiles!Next1}
          /\ opened' = 0 \/ (opened' = RFiles!Next1 /\ RFiles!Next1 \notin baseline)
      BY <1>1 DEF RFiles!ExportLook, RFiles!Ready, RFiles!Open, RFiles!Pass, RFiles!Excluded
    <2>2. FilesTyped' /\ OpenedIsNew'
      BY <1>0, <2>1, NextPath DEF FilesTyped, OpenedIsNew
    <2> QED BY <2>1, <2>2, FilesKeep
  <1>2. CASE RFiles!ExportDone
    <2>1. /\ pc = "export" /\ UNCHANGED <<fs, opened, baseline, files, images, outs>> /\ opened = 0
          /\ pc' = "out" /\ used' = 0 /\ todo' \subseteq Out \cup RFiles!Copies
      BY <1>2 DEF RFiles!ExportDone, RFiles!Present
    <2>2. FilesTyped' /\ OpenedIsNew'
      BY <1>0, <2>1 DEF FilesTyped, OpenedIsNew, FPaths
    <2> QED BY <2>1, <2>2, FilesKeep
  <1> QED BY <1>1, <1>2

(* The export reads what it opened, and may deliver it.                    *)
LEMMA FilesExportRead ==
  FilesInv /\ RFiles!ExportRead => FilesInv'
  <1> SUFFICES ASSUME FilesInv, RFiles!ExportRead PROVE FilesInv'
    OBVIOUS
  <1>0. FilesTyped /\ pc = "export" /\ opened # 0 /\ opened \in FPaths /\ opened \notin baseline
    BY DEF FilesInv, OpenedIsNew, RFiles!ExportRead, FilesTyped
  <1>1. opened' = 0 /\ UNCHANGED <<baseline, pc, todo, files, outs>>
    BY DEF RFiles!ExportRead
  <1>2. CASE UNCHANGED <<fs, used, images>>
    <2>1. FilesTyped' /\ OpenedIsNew'
      BY <1>0, <1>1, <1>2 DEF FilesTyped, OpenedIsNew
    <2> QED BY <1>1, <1>2, <2>1, FilesKeep
  <1>3. CASE ~ UNCHANGED <<fs, used, images>>
    <2>1. /\ ~ (RFiles!Size > ImageMax) /\ RFiles!Data(opened) \notin RFiles!DataOf(images)
          /\ ~ (used + RFiles!Size > ImageTotal)
          /\ images' = images \cup {RFiles!Ref(opened)} /\ used' = used + RFiles!Size
          /\ fs' = [fs EXCEPT ![RFiles!Copy(opened)] = fs[opened]]
      BY <1>3, Zenon DEF RFiles!ExportRead
    <2>2. FilesTyped'
      BY <1>0, <1>1, <2>1 DEF FilesTyped
    <2>3. OpenedIsNew'
      BY <1>1 DEF OpenedIsNew
    <2> DEFINE r == RFiles!Ref(opened)
               n == fs[opened].size
    <2>4. n \in Nat /\ r.data[2] = n /\ r.data = RFiles!Data(opened) /\ r.path = opened /\ RFiles!Size = n
      BY <1>0, FileData DEF RFiles!Size
    <2>5. r.data \notin RFiles!DataOf(images) /\ images' = images \cup {r} /\ used' = used + n
      BY <2>1, <2>4
    <2>6. n <= ImageMax /\ (used \in Nat => used + n <= ImageTotal)
      BY <2>1, <2>4, FilesAssumption DEF FilesLimits
    <2> HIDE DEF r, n
    <2>7. Delivered(images) /\ outs = {} /\ used = RFiles!Bytes(images) /\ RFiles!Bytes(outs) = 0
      BY <1>0, NoBytes DEF FilesInv, Counted
    <2>8. used \in Nat
      BY <2>7, BytesType
    <2>9. /\ Delivered(images \cup {r})
          /\ RFiles!Bytes(images \cup {r}) = RFiles!Bytes(images) + n
      BY <2>4, <2>5, <2>6, <2>7, Deliver
    <2>10. Delivered(images') /\ RFiles!Bytes(images') = used'
      BY <2>5, <2>7, <2>9
    <2>11. outs' = {} /\ Delivered(outs') /\ RFiles!Bytes(outs') = 0 /\ RFiles!DataOf(outs') = {}
      BY <1>1, <2>7, NoBytes
    <2>12. used' <= ImageTotal /\ used' \in Nat
      BY <2>4, <2>5, <2>6, <2>8
    <2>13. Counted'
      BY <1>0, <1>1, <2>10, <2>11, <2>12 DEF Counted
    <2>14. RFiles!OwnImages'
      BY <1>0, <1>1, <2>4, <2>5 DEF RFiles!OwnImages, FilesInv
    <2> QED BY <2>2, <2>3, <2>10, <2>11, <2>13, <2>14 DEF FilesInv
  <1> QED BY <1>2, <1>3

(* _collect_out_images: a look at a file, and the end.                     *)
LEMMA FilesOut ==
  FilesInv /\ (RFiles!OutLook \/ RFiles!OutDone) => FilesInv'
  <1> SUFFICES ASSUME FilesInv, RFiles!OutLook \/ RFiles!OutDone PROVE FilesInv'
    OBVIOUS
  <1>0. FilesTyped
    BY DEF FilesInv
  <1>1. CASE RFiles!OutLook
    <2>1. /\ pc = "out" /\ todo # {} /\ UNCHANGED <<fs, pc, used, baseline, files, images, outs>>
          /\ todo' = todo \ {RFiles!Next1} /\ opened' \in {opened, RFiles!Next1}
      BY <1>1 DEF RFiles!OutLook, RFiles!Ready, RFiles!Open, RFiles!Pass
    <2>2. FilesTyped' /\ OpenedIsNew'
      BY <1>0, <2>1, NextPath DEF FilesTyped, OpenedIsNew
    <2> QED BY <2>1, <2>2, FilesKeep
  <1>2. CASE RFiles!OutDone
    <2>1. /\ pc = "out" /\ UNCHANGED <<fs, opened, used, baseline, files, images, outs>>
          /\ pc' = "end" /\ todo' = {}
      BY <1>2 DEF RFiles!OutDone
    <2>2. FilesTyped' /\ OpenedIsNew'
      BY <1>0, <2>1 DEF FilesTyped, OpenedIsNew
    <2> QED BY <2>1, <2>2, FilesKeep
  <1> QED BY <1>1, <1>2

(* The second collector reads what it opened, and may deliver it.          *)
LEMMA FilesOutRead ==
  FilesInv /\ RFiles!OutRead => FilesInv'
  <1> SUFFICES ASSUME FilesInv, RFiles!OutRead PROVE FilesInv'
    OBVIOUS
  <1>0. FilesTyped /\ pc = "out" /\ opened \in FPaths
    BY DEF FilesInv, RFiles!OutRead, FilesTyped
  <1>1. opened' = 0 /\ UNCHANGED <<fs, baseline, pc, todo, files, images>>
    BY DEF RFiles!OutRead
  <1>4. FilesTyped' /\ OpenedIsNew'
    BY <1>0, <1>1 DEF FilesTyped, OpenedIsNew
  <1>2. CASE UNCHANGED <<outs, used>>
    BY <1>1, <1>2, <1>4, FilesKeep
  <1>3. CASE ~ UNCHANGED <<outs, used>>
    <2>1. /\ RFiles!Size <= ImageMax /\ RFiles!Data(opened) \notin RFiles!Seen
          /\ used + RFiles!Size <= RFiles!Budget
          /\ outs' = outs \cup {RFiles!Ref(opened)} /\ used' = used + RFiles!Size
      BY <1>3, Zenon DEF RFiles!OutRead
    <2> DEFINE r == RFiles!Ref(opened)
               n == fs[opened].size
    <2>4. n \in Nat /\ r.data[2] = n /\ r.data = RFiles!Data(opened) /\ RFiles!Size = n
      BY <1>0, FileData DEF RFiles!Size
    <2>5. /\ r.data \notin RFiles!DataOf(outs) /\ r.data \notin RFiles!DataOf(files) \cup RFiles!DataOf(images)
          /\ outs' = outs \cup {r} /\ used' = used + n /\ n <= ImageMax
          /\ used + n <= RFiles!Budget
      BY <2>1, <2>4 DEF RFiles!Seen
    <2> HIDE DEF r, n
    <2>6. /\ Delivered(images) /\ Delivered(outs) /\ used = RFiles!Bytes(outs)
          /\ RFiles!Bytes(images) + RFiles!Bytes(outs) <= ImageTotal
          /\ RFiles!DataOf(outs) \cap (RFiles!DataOf(files) \cup RFiles!DataOf(images)) = {}
      BY <1>0 DEF FilesInv, Counted
    <2>7. used \in Nat /\ RFiles!Bytes(images) \in Nat /\ ImageTotal \in Nat
      BY <2>6, BytesType, FilesAssumption DEF FilesLimits
    <2>8. RFiles!Bytes(images) + (used + n) <= ImageTotal
      BY <2>4, <2>5, <2>6, <2>7 DEF RFiles!Budget
    <2>9. /\ Delivered(outs \cup {r})
          /\ RFiles!Bytes(outs \cup {r}) = RFiles!Bytes(outs) + n
          /\ RFiles!DataOf(outs \cup {r}) = RFiles!DataOf(outs) \cup {r.data}
      BY <2>4, <2>5, <2>6, Deliver
    <2>10. Delivered(outs') /\ RFiles!Bytes(outs') = used' /\ RFiles!DataOf(outs') = RFiles!DataOf(outs) \cup {r.data}
      BY <2>5, <2>6, <2>9
    <2>11. Delivered(images') /\ RFiles!Bytes(images') = RFiles!Bytes(images)
      BY <1>1, <2>6
    <2>12. Counted'
      BY <1>0, <1>1, <2>5, <2>8, <2>10, <2>11 DEF Counted
    <2>13. (RFiles!DataOf(outs) \cap (RFiles!DataOf(files) \cup RFiles!DataOf(images)) = {})'
      BY <1>1, <2>5, <2>6, <2>10
    <2>14. RFiles!OwnImages'
      BY <1>1 DEF RFiles!OwnImages, FilesInv
    <2> QED BY <1>4, <2>10, <2>11, <2>12, <2>13, <2>14 DEF FilesInv
  <1> QED BY <1>2, <1>3

(* The process left behind writes.                                         *)
LEMMA FilesGrow ==
  FilesInv /\ RFiles!Grow => FilesInv'
  <1> SUFFICES ASSUME FilesInv, RFiles!Grow PROVE FilesInv'
    OBVIOUS
  <1>1. UNCHANGED <<baseline, pc, todo, opened, used, files, images, outs>>
    BY DEF RFiles!Grow
  <1>2. PICK p \in RFiles!Present(Gen \cup Out) :
          fs' = [fs EXCEPT ![p].size = @ + 1, ![p].fresh = TRUE]
    BY Zenon DEF RFiles!Grow
  <1>3. p \in FPaths
    BY <1>2 DEF RFiles!Present, FPaths
  <1>4. FilesTyped'
    <2> DEFINE FT == [content : Content \cup {0}, size : Nat, fresh : BOOLEAN]
    <2>1. fs \in [FPaths -> FT] /\ fs[p] \in FT
      BY <1>3 DEF FilesTyped, FilesInv
    <2>2. ASSUME NEW x \in FT PROVE [x EXCEPT !.size = @ + 1, !.fresh = TRUE] \in FT
      <3>1. x.size + 1 \in Nat /\ x = [content |-> x.content, size |-> x.size, fresh |-> x.fresh]
        OBVIOUS
      <3> QED BY <3>1
    <2>3. fs' = [fs EXCEPT ![p] = [fs[p] EXCEPT !.size = @ + 1, !.fresh = TRUE]]
      BY <1>2, <1>3, <2>1
    <2> HIDE DEF FT
    <2>4. fs' \in [FPaths -> FT]
      BY <2>1, <2>2, <2>3
    <2> QED BY <1>1, <2>4 DEF FilesTyped, FilesInv, FT
  <1>5. OpenedIsNew'
    BY <1>1 DEF OpenedIsNew, FilesInv
  <1> QED BY <1>1, <1>4, <1>5, FilesKeep

(* Every step keeps the invariant.                                         *)
LEMMA FilesSteps == FilesInv /\ [RFiles!Next]_runfilesVars => FilesInv'
  <1>1. FilesInv /\ UNCHANGED runfilesVars => FilesInv'
    <2> SUFFICES ASSUME FilesInv, UNCHANGED runfilesVars PROVE FilesInv'
      OBVIOUS
    <2>1. FilesTyped' /\ OpenedIsNew'
      BY DEF FilesInv, FilesTyped, OpenedIsNew, runfilesVars
    <2> QED BY <2>1, FilesKeep DEF runfilesVars
  <1> QED BY <1>1, FilesCollect, FilesExport, FilesExportRead, FilesOut, FilesOutRead, FilesGrow DEF RFiles!Next

-----------------------------------------------------------------------------
(* The model that served a run.                                            *)

(* The list on the row and the observations of the run.                    *)
ServedTyped ==
  /\ resultMeta \in [items : Seq(Served!Observation), truncated : BOOLEAN]
  /\ seen \in Seq(Served!Observation)

(* What was seen is dominated by what is kept, which was seen.             *)
Dominated ==
  /\ Served!Elements(resultMeta.items) \subseteq Served!Elements(seen)
  /\ \A o \in Served!Elements(seen) :
       \E q \in Served!Elements(resultMeta.items) : Served!Rank(o) <= Served!Rank(q)

(* The first response is never dropped; and it is the first one of a list  *)
(* that was not cut.                                                       *)
FirstKept ==
  /\ \A o \in Served!Observation :
       Served!FirstResponse(seen, o) => o \in Served!Elements(resultMeta.items)
  /\ ~ resultMeta.truncated => \A o \in Served!Observation :
       Served!FirstResponse(resultMeta.items, o) => Served!FirstResponse(seen, o)

(* The inductive invariant of the observations.                            *)
ServedInv == ServedTyped /\ Dominated /\ FirstKept /\ Served!CompleteIsWhole

(* How the kinds of evidence rank.                                         *)
LEMMA Ranks ==
  ASSUME NEW o \in Served!Observation
  PROVE  /\ Served!Rank(o) \in 1..3
         /\ Served!Rank(o) = 3 <=> o.kind = "response"
         /\ Served!_EVIDENCE_RANK[o.kind] = Served!Rank(o)
         /\ o.model \in Model /\ o = [model |-> o.model, kind |-> o.kind]
  <1>1. o.kind \in {"response", "thread_config", "session_init"} /\ o.model \in Model
        /\ o = [model |-> o.model, kind |-> o.kind]
    BY DEF Served!Observation, Served!_EVIDENCE_RANK
  <1> QED BY <1>1 DEF Served!Rank, Served!_EVIDENCE_RANK

(* The members of a list.                                                  *)
LEMMA Members ==
  ASSUME NEW s \in Seq(Served!Observation)
  PROVE  /\ \A i \in DOMAIN s : s[i] \in Served!Observation /\ s[i] \in Served!Elements(s) /\ i \in Nat
         /\ Served!Elements(s) \subseteq Served!Observation
         /\ \A o \in Served!Elements(s) : \E i \in DOMAIN s : s[i] = o
         /\ s # <<>> <=> DOMAIN s # {}
         /\ DOMAIN s = 1..Len(s) /\ Len(s) \in Nat
  BY DEF Served!Elements

(* The weakest entry of a list that is not empty is one of it.             *)
LEMMA WeakestIs ==
  ASSUME NEW s \in Seq(Served!Observation), s # <<>>
  PROVE  /\ Served!Weakest(s) \in DOMAIN s
         /\ \A j \in DOMAIN s : Served!Rank(s[Served!Weakest(s)]) <= Served!Rank(s[j])
  <1> DEFINE K == {Served!Rank(s[j]) : j \in DOMAIN s}
  <1>1. \A j \in DOMAIN s : s[j] \in Served!Observation /\ Served!Rank(s[j]) \in Nat /\ j \in Nat
    BY Members, Ranks
  <1>2. K \in SUBSET Nat /\ K # {}
    BY <1>1, Members
  <1>3. PICK m \in K : \A k \in K : m <= k
    BY <1>2, Least
  <1> DEFINE T == {j \in DOMAIN s : Served!Rank(s[j]) = m}
  <1>4. T \in SUBSET Nat /\ T # {}
    BY <1>1, <1>3
  <1>5. PICK i \in T : \A j \in T : i <= j
    BY <1>4, Least
  <1>6. ASSUME NEW j \in DOMAIN s
        PROVE  Served!Rank(s[i]) < Served!Rank(s[j]) \/ (Served!Rank(s[i]) = Served!Rank(s[j]) /\ i <= j)
    <2>1. m <= Served!Rank(s[j]) /\ Served!Rank(s[i]) = m /\ (Served!Rank(s[j]) = m => i <= j)
      BY <1>3, <1>5
    <2> QED BY <1>1, <1>5, <2>1
  <1>7. i \in DOMAIN s
    BY <1>5
  <1> HIDE DEF K, T
  <1> DEFINE w == Served!Weakest(s)
  <1>8. w \in DOMAIN s /\ \A j \in DOMAIN s : Served!Rank(s[w]) < Served!Rank(s[j])
                              \/ (Served!Rank(s[w]) = Served!Rank(s[j]) /\ w <= j)
    BY <1>6, <1>7, Zenon DEF Served!Weakest
  <1> HIDE DEF w
  <1>9. \A j \in DOMAIN s : Served!Rank(s[w]) <= Served!Rank(s[j])
    BY <1>1, <1>8
  <1> QED BY <1>8, <1>9 DEF w

(* The strongest entry of a list that is not empty is the first of its     *)
(* rank.                                                                   *)
LEMMA StrongestIs ==
  ASSUME NEW s \in Seq(Served!Observation), s # <<>>
  PROVE  \E i \in DOMAIN s :
           /\ Served!Strongest(s) = s[i]
           /\ \A j \in DOMAIN s : Served!Rank(s[j]) <= Served!Rank(s[i])
           /\ \A j \in DOMAIN s : j < i => Served!Rank(s[j]) < Served!Rank(s[i])
  <1> DEFINE K == {3 - Served!Rank(s[j]) : j \in DOMAIN s}
  <1>1. \A j \in DOMAIN s : s[j] \in Served!Observation /\ Served!Rank(s[j]) \in 1..3 /\ j \in Nat
    BY Members, Ranks
  <1>2. K \in SUBSET Nat /\ K # {}
    BY <1>1, Members
  <1>3. PICK m \in K : \A k \in K : m <= k
    BY <1>2, Least
  <1> DEFINE T == {j \in DOMAIN s : 3 - Served!Rank(s[j]) = m}
  <1>4. T \in SUBSET Nat /\ T # {}
    BY <1>1, <1>3
  <1>5. PICK i \in T : \A j \in T : i <= j
    BY <1>4, Least
  <1>6. ASSUME NEW j \in DOMAIN s
        PROVE  Served!Rank(s[i]) > Served!Rank(s[j]) \/ (Served!Rank(s[i]) = Served!Rank(s[j]) /\ i <= j)
    <2>1. m <= 3 - Served!Rank(s[j]) /\ 3 - Served!Rank(s[i]) = m /\ (3 - Served!Rank(s[j]) = m => i <= j)
      BY <1>3, <1>5
    <2> QED BY <1>1, <1>5, <2>1
  <1>7. i \in DOMAIN s
    BY <1>5
  <1> HIDE DEF K, T
  <1> DEFINE w == CHOOSE x \in DOMAIN s : \A j \in DOMAIN s :
                    Served!Rank(s[x]) > Served!Rank(s[j]) \/ (Served!Rank(s[x]) = Served!Rank(s[j]) /\ x <= j)
  <1>8. w \in DOMAIN s /\ \A j \in DOMAIN s :
          Served!Rank(s[w]) > Served!Rank(s[j]) \/ (Served!Rank(s[w]) = Served!Rank(s[j]) /\ w <= j)
    BY <1>6, <1>7, Zenon
  <1>9. Served!Strongest(s) = s[w]
    BY DEF Served!Strongest
  <1> HIDE DEF w
  <1>10. \A j \in DOMAIN s : Served!Rank(s[j]) <= Served!Rank(s[w])
    BY <1>1, <1>8
  <1>11. \A j \in DOMAIN s : j < w => Served!Rank(s[j]) < Served!Rank(s[w])
    BY <1>1, <1>8
  <1> QED BY <1>8, <1>9, <1>10, <1>11

(* A list with a response has a first one.                                 *)
LEMMA FirstExists ==
  ASSUME NEW s \in Seq(Served!Observation), NEW o \in Served!Elements(s), o.kind = "response"
  PROVE  \E q \in Served!Elements(s) : Served!FirstResponse(s, q)
  <1> DEFINE T == {i \in DOMAIN s : s[i].kind = "response"}
  <1>1. T \in SUBSET Nat /\ T # {}
    BY Members
  <1>2. PICK i \in T : \A j \in T : i <= j
    BY <1>1, Least
  <1>3. Served!FirstResponse(s, s[i])
    <2>1. \A j \in DOMAIN s : j < i => s[j].kind # "response"
      BY <1>2, Members
    <2> QED BY <1>2, <2>1 DEF Served!FirstResponse
  <1> QED BY <1>2, <1>3, Members

(* and only one.                                                           *)
LEMMA FirstUnique ==
  ASSUME NEW s \in Seq(Served!Observation), NEW o, NEW q,
         Served!FirstResponse(s, o), Served!FirstResponse(s, q)
  PROVE  o = q
  <1>1. PICK i \in DOMAIN s : s[i] = o /\ o.kind = "response" /\ \A j \in DOMAIN s : j < i => s[j].kind # "response"
    BY DEF Served!FirstResponse
  <1>2. PICK k \in DOMAIN s : s[k] = q /\ q.kind = "response" /\ \A j \in DOMAIN s : j < k => s[j].kind # "response"
    BY DEF Served!FirstResponse
  <1>3. ~ (i < k) /\ ~ (k < i)
    BY <1>1, <1>2
  <1>4. i = k
    BY <1>3, Members
  <1> QED BY <1>1, <1>2, <1>4

(* One more observation: what the longer list holds, and its first one.    *)
LEMMA OneMore ==
  ASSUME NEW s \in Seq(Served!Observation), NEW o \in Served!Observation
  PROVE  /\ Append(s, o) \in Seq(Served!Observation) /\ Append(s, o) # <<>>
         /\ Served!Elements(Append(s, o)) = Served!Elements(s) \cup {o}
         /\ \A q : Served!FirstResponse(s, q) => Served!FirstResponse(Append(s, o), q)
         /\ \A q : Served!FirstResponse(Append(s, o), q) =>
              \/ Served!FirstResponse(s, q)
              \/ q = o /\ \A p \in Served!Elements(s) : p.kind # "response"
         /\ (o.kind = "response" /\ \A p \in Served!Elements(s) : p.kind # "response")
              => Served!FirstResponse(Append(s, o), o)
  <1> DEFINE t == Append(s, o)
             n == Len(s)
  <1>1. /\ n \in Nat /\ DOMAIN s = 1..n /\ DOMAIN t = 1..(n + 1)
        /\ t[n + 1] = o /\ \A i \in 1..n : t[i] = s[i]
        /\ t \in Seq(Served!Observation) /\ t # <<>>
    OBVIOUS
  <1> HIDE DEF t, n
  <1>2. Served!Elements(t) = Served!Elements(s) \cup {o}
    <2>1. \A x \in Served!Elements(t) : x \in Served!Elements(s) \cup {o}
      BY <1>1 DEF Served!Elements
    <2>2. \A x \in Served!Elements(s) : x \in Served!Elements(t)
      BY <1>1 DEF Served!Elements
    <2>3. o \in Served!Elements(t)
      BY <1>1 DEF Served!Elements
    <2> QED BY <2>1, <2>2, <2>3
  <1>3. ASSUME NEW q, Served!FirstResponse(s, q) PROVE Served!FirstResponse(t, q)
    <2>1. PICK i \in DOMAIN s : s[i] = q /\ q.kind = "response" /\ \A j \in DOMAIN s : j < i => s[j].kind # "response"
      BY <1>3 DEF Served!FirstResponse
    <2>2. i \in DOMAIN t /\ t[i] = q /\ \A j \in DOMAIN t : j < i => t[j].kind # "response"
      BY <1>1, <2>1
    <2> QED BY <2>1, <2>2 DEF Served!FirstResponse
  <1>4. ASSUME NEW q, Served!FirstResponse(t, q)
        PROVE  Served!FirstResponse(s, q) \/ (q = o /\ \A p \in Served!Elements(s) : p.kind # "response")
    <2>1. PICK i \in DOMAIN t : t[i] = q /\ q.kind = "response" /\ \A j \in DOMAIN t : j < i => t[j].kind # "response"
      BY <1>4 DEF Served!FirstResponse
    <2>2. CASE i \in 1..n
      <3>1. i \in DOMAIN s /\ s[i] = q /\ \A j \in DOMAIN s : j < i => s[j].kind # "response"
        BY <1>1, <2>1, <2>2
      <3> QED BY <2>1, <3>1 DEF Served!FirstResponse
    <2>3. CASE i = n + 1
      <3>1. q = o /\ \A j \in DOMAIN s : s[j].kind # "response"
        BY <1>1, <2>1, <2>3
      <3> QED BY <3>1 DEF Served!Elements
    <2> QED BY <1>1, <2>1, <2>2, <2>3
  <1>5. ASSUME o.kind = "response", \A p \in Served!Elements(s) : p.kind # "response"
        PROVE  Served!FirstResponse(t, o)
    <2>1. \A j \in DOMAIN s : s[j].kind # "response"
      BY <1>5 DEF Served!Elements
    <2>2. n + 1 \in DOMAIN t /\ \A j \in DOMAIN t : j < n + 1 => t[j].kind # "response"
      BY <1>1, <2>1
    <2> QED BY <1>1, <1>5, <2>2 DEF Served!FirstResponse
  <1> QED BY <1>1, <1>2, <1>3, <1>4, <1>5 DEF t

(* The initial state.                                                      *)
LEMMA ServedStart == Served!Init => ServedInv
  <1> SUFFICES ASSUME Served!Init PROVE ServedInv
    OBVIOUS
  <1>1. resultMeta = [items |-> <<>>, truncated |-> FALSE] /\ seen = <<>>
    BY DEF Served!Init
  <1>2. resultMeta.items = seen /\ resultMeta.truncated = FALSE /\ seen \in Seq(Served!Observation)
    BY <1>1
  <1>3. Served!Elements(seen) = {}
    BY <1>1 DEF Served!Elements
  <1>4. \A o : ~ Served!FirstResponse(seen, o)
    BY <1>1 DEF Served!FirstResponse
  <1>5. ServedTyped
    BY <1>1 DEF ServedTyped
  <1> QED BY <1>2, <1>3, <1>4, <1>5 DEF ServedInv, Dominated, FirstKept, Served!CompleteIsWhole

(* Folding in an observation is one of four things.                        *)
LEMMA Folded ==
  ASSUME ServedTyped, NEW o \in Served!Observation, NEW m, m = Served!_fold_observation(resultMeta, o)
  PROVE  \/ o \in Served!Elements(resultMeta.items) /\ m = resultMeta
         \/ /\ m.items = Append(resultMeta.items, o) /\ m.truncated = resultMeta.truncated
            /\ m \in [items : Seq(Served!Observation), truncated : BOOLEAN]
         \/ /\ resultMeta.items # <<>> /\ m.truncated = TRUE
            /\ Served!Rank(o) > Served!Rank(resultMeta.items[Served!Weakest(resultMeta.items)])
            /\ m.items = [resultMeta.items EXCEPT ![Served!Weakest(resultMeta.items)] = o]
            /\ m \in [items : Seq(Served!Observation), truncated : BOOLEAN]
         \/ /\ resultMeta.items # <<>> /\ m.truncated = TRUE
            /\ ~ (Served!Rank(o) > Served!Rank(resultMeta.items[Served!Weakest(resultMeta.items)]))
            /\ m.items = resultMeta.items
            /\ m \in [items : Seq(Served!Observation), truncated : BOOLEAN]
  <1> DEFINE its == resultMeta.items
             w == Served!Weakest(its)
  <1>1. resultMeta \in [items : Seq(Served!Observation), truncated : BOOLEAN] /\ its \in Seq(Served!Observation)
        /\ resultMeta.truncated \in BOOLEAN
    BY DEF ServedTyped
  <1>2. CASE o \in Served!Elements(its)
    BY <1>2 DEF Served!_fold_observation
  <1>3. CASE o \notin Served!Elements(its) /\ Len(its) < Cap
    <2>1. m = [resultMeta EXCEPT !.items = Append(its, o)]
      BY <1>3 DEF Served!_fold_observation
    <2>2. Append(its, o) \in Seq(Served!Observation)
      BY <1>1
    <2> HIDE DEF its
    <2>3. m.items = Append(its, o) /\ m.truncated = resultMeta.truncated
          /\ m \in [items : Seq(Served!Observation), truncated : BOOLEAN]
      BY <1>1, <2>1, <2>2
    <2> QED BY <2>3 DEF its
  <1>4. ~ (Len(its) < Cap) => its # <<>>
    BY <1>1, ServedAssumption DEF ServedLimits
  <1>5. CASE o \notin Served!Elements(its) /\ ~ (Len(its) < Cap) /\ Served!Rank(o) > Served!Rank(its[w])
    <2>1. m = [items |-> [its EXCEPT ![w] = o], truncated |-> TRUE]
      BY <1>5 DEF Served!_fold_observation
    <2>2. [its EXCEPT ![w] = o] \in Seq(Served!Observation)
      <3>1. its \in [1..Len(its) -> Served!Observation] /\ Len(its) \in Nat
        BY <1>1
      <3> HIDE DEF its, w
      <3>2. [its EXCEPT ![w] = o] \in [1..Len(its) -> Served!Observation]
        BY <3>1
      <3> QED BY <3>1, <3>2
    <2> HIDE DEF its, w
    <2>3. m.items = [its EXCEPT ![w] = o] /\ m.truncated = TRUE
          /\ m \in [items : Seq(Served!Observation), truncated : BOOLEAN]
      BY <2>1, <2>2
    <2> QED BY <1>4, <1>5, <2>3 DEF its, w
  <1>6. CASE o \notin Served!Elements(its) /\ ~ (Len(its) < Cap) /\ ~ (Served!Rank(o) > Served!Rank(its[w]))
    <2>1. m = [resultMeta EXCEPT !.truncated = TRUE]
      BY <1>6 DEF Served!_fold_observation
    <2>2. m.items = its /\ m.truncated = TRUE
          /\ m \in [items : Seq(Served!Observation), truncated : BOOLEAN]
      BY <1>1, <2>1
    <2> QED BY <1>4, <1>6, <2>2
  <1> QED BY <1>2, <1>3, <1>5, <1>6

(* Observing keeps the invariant.                                          *)
LEMMA ServedObserve == ServedInv /\ Served!Observe => ServedInv'
  <1> SUFFICES ASSUME ServedInv, Served!Observe PROVE ServedInv'
    OBVIOUS
  <1>1. PICK o \in Served!Observation : resultMeta' = Served!_fold_observation(resultMeta, o) /\ seen' = Append(seen, o)
    BY Zenon DEF Served!Observe
  <1>2. ServedTyped /\ Dominated /\ FirstKept /\ Served!CompleteIsWhole
    BY DEF ServedInv
  <1> DEFINE E == Served!Elements(resultMeta.items)
             S == Served!Elements(seen)
  <1>3. resultMeta.items \in Seq(Served!Observation) /\ seen \in Seq(Served!Observation) /\ resultMeta.truncated \in BOOLEAN
    BY <1>2 DEF ServedTyped
  <1>4. /\ E \subseteq S /\ S \subseteq Served!Observation
        /\ \A p \in S : \E q \in E : Served!Rank(p) <= Served!Rank(q)
        /\ \A p \in Served!Observation : Served!FirstResponse(seen, p) => p \in E
        /\ ~ resultMeta.truncated => E = S
        /\ ~ resultMeta.truncated => \A p \in Served!Observation :
              Served!FirstResponse(resultMeta.items, p) => Served!FirstResponse(seen, p)
    BY <1>2, <1>3, Members DEF Dominated, FirstKept, Served!CompleteIsWhole
  <1>5. /\ seen' \in Seq(Served!Observation) /\ Served!Elements(seen') = S \cup {o}
        /\ \A q : Served!FirstResponse(seen, q) => Served!FirstResponse(seen', q)
        /\ \A q : Served!FirstResponse(seen', q) => Served!FirstResponse(seen, q) \/ (q = o /\ \A p \in S : p.kind # "response")
        /\ (o.kind = "response" /\ \A p \in S : p.kind # "response") => Served!FirstResponse(seen', o)
    BY <1>1, <1>3, OneMore
  <1>6. \A p \in Served!Observation : Served!Rank(p) \in 1..3 /\ (Served!Rank(p) = 3 <=> p.kind = "response")
    BY Ranks
  <1>7. \A q : Served!FirstResponse(seen', q) => q.kind = "response"
    BY DEF Served!FirstResponse
  <1> DEFINE E2 == Served!Elements(resultMeta'.items)
  <1>8. SUFFICES /\ ServedTyped'
                 /\ E2 \subseteq S \cup {o}
                 /\ \A p \in S \cup {o} : \E q \in E2 : Served!Rank(p) <= Served!Rank(q)
                 /\ \A p \in Served!Observation : Served!FirstResponse(seen', p) => p \in E2
                 /\ ~ resultMeta'.truncated => E2 = S \cup {o}
                 /\ ~ resultMeta'.truncated => \A p \in Served!Observation :
                       Served!FirstResponse(resultMeta'.items, p) => Served!FirstResponse(seen', p)
    BY <1>5 DEF ServedInv, Dominated, FirstKept, Served!CompleteIsWhole
  <1>9. CASE o \in E /\ resultMeta' = resultMeta
    <2>1. E2 = E /\ o \in S
      BY <1>4, <1>9
    <2>2. ServedTyped'
      BY <1>2, <1>5, <1>9 DEF ServedTyped
    <2> HIDE DEF E, E2, S
    <2>3. S \cup {o} = S
      BY <2>1
    <2> QED BY <1>4, <1>5, <1>9, <2>1, <2>2, <2>3
  <1>10. CASE /\ resultMeta'.items = Append(resultMeta.items, o) /\ resultMeta'.truncated = resultMeta.truncated
              /\ resultMeta' \in [items : Seq(Served!Observation), truncated : BOOLEAN]
    <2>1. ServedTyped'
      BY <1>5, <1>10 DEF ServedTyped
    <2>2. /\ E2 = E \cup {o}
          /\ \A q : Served!FirstResponse(resultMeta'.items, q) =>
               Served!FirstResponse(resultMeta.items, q) \/ (q = o /\ \A p \in E : p.kind # "response")
      BY <1>3, <1>10, OneMore
    <2>3. \A q : Served!FirstResponse(resultMeta'.items, q) => q.kind = "response"
      BY DEF Served!FirstResponse
    <2> HIDE DEF E, E2, S
    <2>4. \A p \in S \cup {o} : \E q \in E2 : Served!Rank(p) <= Served!Rank(q)
      <3>1. \A p \in S : \E q \in E2 : Served!Rank(p) <= Served!Rank(q)
        BY <1>4, <2>2
      <3>2. Served!Rank(o) <= Served!Rank(o) /\ o \in E2
        BY <1>6, <2>2
      <3> QED BY <3>1, <3>2
    <2>5. \A p \in Served!Observation : Served!FirstResponse(seen', p) => p \in E2
      BY <1>4, <1>5, <2>2
    <2>6. ASSUME ~ resultMeta'.truncated, NEW p \in Served!Observation, Served!FirstResponse(resultMeta'.items, p)
          PROVE  Served!FirstResponse(seen', p)
      BY <1>4, <1>5, <1>10, <2>2, <2>3, <2>6
    <2> QED BY <1>4, <1>10, <2>1, <2>2, <2>4, <2>5, <2>6
  <1>11. CASE /\ resultMeta.items # <<>> /\ resultMeta'.truncated = TRUE
              /\ Served!Rank(o) > Served!Rank(resultMeta.items[Served!Weakest(resultMeta.items)])
              /\ resultMeta'.items = [resultMeta.items EXCEPT ![Served!Weakest(resultMeta.items)] = o]
              /\ resultMeta' \in [items : Seq(Served!Observation), truncated : BOOLEAN]
    <2>1. ServedTyped'
      BY <1>5, <1>11 DEF ServedTyped
    <2>2. PICK w : w = Served!Weakest(resultMeta.items)
      OBVIOUS
    <2>3. w \in DOMAIN resultMeta.items /\ Served!Rank(resultMeta.items[w]) < Served!Rank(o)
          /\ resultMeta.items[w] \in Served!Observation
          /\ resultMeta'.items = [resultMeta.items EXCEPT ![w] = o]
      BY <1>3, <1>6, <1>11, <2>2, WeakestIs, Members
    <2>4. E2 \subseteq E \cup {o} /\ o \in E2 /\ \A p \in E : p = resultMeta.items[w] \/ p \in E2
      BY <1>3, <2>3 DEF Served!Elements
    <2>5. \A p \in E : Served!Rank(p) < Served!Rank(o) \/ p \in E2
      BY <2>3, <2>4
    <2> HIDE DEF E, E2, S
    <2>6. ASSUME NEW p \in S \cup {o} PROVE \E q \in E2 : Served!Rank(p) <= Served!Rank(q)
      <3>1. CASE p = o
        BY <1>6, <2>4, <3>1
      <3>2. CASE p \in S
        <4>1. PICK q \in E : Served!Rank(p) <= Served!Rank(q)
          BY <1>4, <3>2
        <4>2. CASE q \in E2
          BY <4>1, <4>2
        <4>3. CASE Served!Rank(q) < Served!Rank(o)
          <5>1. Served!Rank(p) \in Int /\ Served!Rank(q) \in Int /\ Served!Rank(o) \in Int
            BY <1>4, <1>6, <3>2
          <5>2. Served!Rank(p) <= Served!Rank(o)
            BY <4>1, <4>3, <5>1
          <5> QED BY <2>4, <5>2
        <4> QED BY <2>5, <4>2, <4>3
      <3> QED BY <3>1, <3>2
    <2>7. ASSUME NEW p \in Served!Observation, Served!FirstResponse(seen', p) PROVE p \in E2
      <3>1. CASE p = o
        BY <2>4, <3>1
      <3>2. CASE Served!FirstResponse(seen, p)
        <4>1. p \in E /\ p.kind = "response"
          BY <1>4, <1>7, <2>7, <3>2
        <4>2. Served!Rank(p) = 3 /\ Served!Rank(o) \in 1..3
          BY <1>6, <4>1
        <4>3. ~ (Served!Rank(p) < Served!Rank(o))
          BY <4>2
        <4> QED BY <2>5, <4>1, <4>3
      <3> QED BY <1>5, <2>7, <3>1, <3>2
    <2> QED BY <1>4, <1>11, <2>1, <2>4, <2>6, <2>7
  <1>12. CASE /\ resultMeta.items # <<>> /\ resultMeta'.truncated = TRUE
              /\ ~ (Served!Rank(o) > Served!Rank(resultMeta.items[Served!Weakest(resultMeta.items)]))
              /\ resultMeta'.items = resultMeta.items
              /\ resultMeta' \in [items : Seq(Served!Observation), truncated : BOOLEAN]
    <2>1. ServedTyped'
      BY <1>5, <1>12 DEF ServedTyped
    <2>2. PICK w : w = Served!Weakest(resultMeta.items)
      OBVIOUS
    <2>3. w \in DOMAIN resultMeta.items /\ ~ (Served!Rank(o) > Served!Rank(resultMeta.items[w]))
          /\ (\A j \in DOMAIN resultMeta.items : Served!Rank(resultMeta.items[w]) <= Served!Rank(resultMeta.items[j]))
      BY <1>3, <1>12, <2>2, WeakestIs
    <2>4. resultMeta.items[w] \in E /\ E2 = E
      BY <1>12, <2>3 DEF Served!Elements
    <2>5. \A j \in DOMAIN resultMeta.items : resultMeta.items[j] \in Served!Observation
      BY <1>3
    <2>6. Served!Rank(o) <= Served!Rank(resultMeta.items[w])
      BY <1>6, <2>3, <2>5
    <2>7. ASSUME o.kind = "response", \A p \in S : p.kind # "response" PROVE FALSE
      <3>1. resultMeta.items[w] \in S /\ Served!Rank(resultMeta.items[w]) \in 1..3 /\ Served!Rank(o) = 3
        BY <1>4, <1>6, <2>3, <2>4, <2>5, <2>7
      <3>2. Served!Rank(resultMeta.items[w]) = 3
        BY <2>6, <3>1
      <3> QED BY <1>6, <2>3, <2>5, <2>7, <3>1, <3>2
    <2> HIDE DEF E, E2, S
    <2>8. \A p \in S \cup {o} : \E q \in E2 : Served!Rank(p) <= Served!Rank(q)
      BY <1>4, <2>4, <2>6
    <2>9. \A p \in Served!Observation : Served!FirstResponse(seen', p) => p \in E2
      BY <1>4, <1>5, <1>7, <2>4, <2>7
    <2> QED BY <1>4, <1>12, <2>1, <2>4, <2>8, <2>9
  <1> HIDE DEF E, E2, S
  <1>13. \/ o \in E /\ resultMeta' = resultMeta
         \/ /\ resultMeta'.items = Append(resultMeta.items, o) /\ resultMeta'.truncated = resultMeta.truncated
            /\ resultMeta' \in [items : Seq(Served!Observation), truncated : BOOLEAN]
         \/ /\ resultMeta.items # <<>> /\ resultMeta'.truncated = TRUE
            /\ Served!Rank(o) > Served!Rank(resultMeta.items[Served!Weakest(resultMeta.items)])
            /\ resultMeta'.items = [resultMeta.items EXCEPT ![Served!Weakest(resultMeta.items)] = o]
            /\ resultMeta' \in [items : Seq(Served!Observation), truncated : BOOLEAN]
         \/ /\ resultMeta.items # <<>> /\ resultMeta'.truncated = TRUE
            /\ ~ (Served!Rank(o) > Served!Rank(resultMeta.items[Served!Weakest(resultMeta.items)]))
            /\ resultMeta'.items = resultMeta.items
            /\ resultMeta' \in [items : Seq(Served!Observation), truncated : BOOLEAN]
    <2>1. PICK m : m = resultMeta'
      OBVIOUS
    <2>2. m = Served!_fold_observation(resultMeta, o)
      BY <1>1, <2>1
    <2> QED BY <1>2, <2>1, <2>2, Folded DEF E
  <1> QED BY <1>9, <1>10, <1>11, <1>12, <1>13

(* So does every step.                                                     *)
LEMMA ServedSteps == ServedInv /\ [Served!Next]_servedVars => ServedInv'
  <1>1. ServedInv /\ UNCHANGED <<resultMeta, seen>> => ServedInv'
    BY DEF ServedInv, ServedTyped, Dominated, FirstKept, Served!CompleteIsWhole
  <1> QED BY <1>1, ServedObserve DEF Served!Next, Served!Finish, servedVars

(* What the invariant says of the answer.                                  *)
LEMMA ServedSays ==
  ASSUME ServedInv
  PROVE  Served!ServedIsFirstResponse /\ Served!BestKindKept /\ Served!CompleteIsWhole
  <1> DEFINE its == resultMeta.items
             E == Served!Elements(its)
             S == Served!Elements(seen)
  <1>1. its \in Seq(Served!Observation) /\ seen \in Seq(Served!Observation) /\ resultMeta.truncated \in BOOLEAN
    BY DEF ServedInv, ServedTyped
  <1>2. /\ E \subseteq S /\ S \subseteq Served!Observation
        /\ \A p \in S : \E q \in E : Served!Rank(p) <= Served!Rank(q)
        /\ \A p \in Served!Observation : Served!FirstResponse(seen, p) => p \in E
        /\ ~ resultMeta.truncated => \A p \in Served!Observation :
              Served!FirstResponse(its, p) => Served!FirstResponse(seen, p)
    BY <1>1, Members DEF ServedInv, Dominated, FirstKept
  <1>3. (its = <<>> <=> E = {}) /\ (seen = <<>> <=> S = {})
    <2> HIDE DEF its
    <2>1. (its # <<>> <=> DOMAIN its # {}) /\ (seen # <<>> <=> DOMAIN seen # {})
      BY <1>1, Members
    <2>2. (E = {} <=> DOMAIN its = {}) /\ (S = {} <=> DOMAIN seen = {})
      BY DEF Served!Elements
    <2> QED BY <2>1, <2>2
  <1>4. \A p \in Served!Observation : Served!Rank(p) \in 1..3 /\ (Served!Rank(p) = 3 <=> p.kind = "response")
    BY Ranks
  <1> DEFINE best == Served!Strongest(its)
             strict == best.kind = "response" /\ ~ Served!Ambiguous(resultMeta)
  <1>5. its = <<>> => Served!served_model_meta(resultMeta).served = Served!None
    BY DEF Served!served_model_meta
  <1>6. its # <<>> => /\ Served!served_model_meta(resultMeta).served = IF strict THEN best.model ELSE Served!None
                      /\ Served!served_model_meta(resultMeta).kind = best.kind
    BY DEF Served!served_model_meta
  <1>7. ASSUME its # <<>>
        PROVE  /\ best \in E /\ best \in Served!Observation
               /\ \A p \in E : Served!Rank(p) <= Served!Rank(best)
               /\ best.kind = "response" => Served!FirstResponse(its, best)
    <2>1. PICK i \in DOMAIN its :
            /\ best = its[i]
            /\ \A j \in DOMAIN its : Served!Rank(its[j]) <= Served!Rank(its[i])
            /\ \A j \in DOMAIN its : j < i => Served!Rank(its[j]) < Served!Rank(its[i])
      BY <1>1, <1>7, StrongestIs
    <2> HIDE DEF best
    <2>2. best \in E /\ best \in Served!Observation
      BY <1>1, <2>1, Members
    <2>3. \A p \in E : Served!Rank(p) <= Served!Rank(best)
      BY <1>1, <2>1, Members
    <2>4. ASSUME best.kind = "response" PROVE Served!FirstResponse(its, best)
      <3>1. ASSUME NEW j \in DOMAIN its, j < i PROVE its[j].kind # "response"
        <4>1. its[j] \in Served!Observation /\ Served!Rank(its[j]) < Served!Rank(its[i]) /\ Served!Rank(its[i]) = 3
          BY <1>1, <1>4, <2>1, <2>2, <2>4, <3>1
        <4>2. Served!Rank(its[j]) # 3
          BY <1>4, <4>1
        <4> QED BY <1>4, <4>1, <4>2
      <3> QED BY <2>1, <2>4, <3>1 DEF Served!FirstResponse
    <2> QED BY <2>2, <2>3, <2>4
  <1> HIDE DEF its, E, S, best
  <1>8. ASSUME its # <<>>, strict
        PROVE  Served!FirstResponse(seen, best)
    <2>1. best \in E /\ best \in Served!Observation /\ best.kind = "response" /\ Served!FirstResponse(its, best)
      BY <1>7, <1>8
    <2>2. CASE ~ resultMeta.truncated
      BY <1>2, <2>1, <2>2
    <2>3. CASE resultMeta.truncated
      <3>1. PICK q \in S : Served!FirstResponse(seen, q)
        BY <1>1, <1>2, <2>1, FirstExists DEF S
      <3>2. q \in E /\ q \in Served!Observation /\ q.kind = "response"
        BY <1>2, <3>1 DEF Served!FirstResponse
      <3>3. q.model \in Served!Responses(its) /\ best.model \in Served!Responses(its)
        BY <2>1, <3>2 DEF Served!Responses, E
      <3>4. q.model = best.model
        BY <1>8, <2>3, <3>3 DEF Served!Ambiguous, its
      <3>5. q = best
        BY <2>1, <3>2, <3>4, Ranks
      <3> QED BY <3>1, <3>5
    <2> QED BY <2>2, <2>3
  <1>9. Served!ServedIsFirstResponse
    <2> SUFFICES ASSUME Served!served_model_meta(resultMeta).served # Served!None
                 PROVE  Served!FirstResponse(seen, [model |-> Served!served_model_meta(resultMeta).served, kind |-> "response"])
      BY DEF Served!ServedIsFirstResponse
    <2>1. its # <<>> /\ strict /\ Served!served_model_meta(resultMeta).served = best.model
      BY <1>5, <1>6
    <2>2. best \in Served!Observation
      BY <1>7, <2>1
    <2>3. best = [model |-> best.model, kind |-> "response"]
      BY <2>1, <2>2, Ranks
    <2> QED BY <1>8, <2>1, <2>3
  <1>10. Served!BestKindKept
    <2> SUFFICES ASSUME seen # <<>>
                 PROVE  Served!_EVIDENCE_RANK[Served!served_model_meta(resultMeta).kind] = Served!Rank(Served!Strongest(seen))
      BY DEF Served!BestKindKept
    <2>1. S # {} /\ its # <<>>
      BY <1>2, <1>3
    <2>2. PICK k \in DOMAIN seen : Served!Strongest(seen) = seen[k]
            /\ \A j \in DOMAIN seen : Served!Rank(seen[j]) <= Served!Rank(seen[k])
      BY <1>1, StrongestIs
    <2>3. seen[k] \in S /\ \A p \in S : Served!Rank(p) <= Served!Rank(seen[k])
      BY <1>1, <2>2, Members DEF S
    <2>4. best \in E /\ best \in Served!Observation /\ \A p \in E : Served!Rank(p) <= Served!Rank(best)
      BY <1>7, <2>1
    <2>5. PICK q \in E : Served!Rank(seen[k]) <= Served!Rank(q)
      BY <1>2, <2>3
    <2>6. Served!Rank(q) <= Served!Rank(best) /\ Served!Rank(best) <= Served!Rank(seen[k])
      BY <1>2, <2>3, <2>4
    <2>7. Served!Rank(q) \in Int /\ Served!Rank(best) \in Int /\ Served!Rank(seen[k]) \in Int
      BY <1>2, <1>4, <2>3, <2>4
    <2>8. Served!Rank(best) = Served!Rank(seen[k])
      BY <2>5, <2>6, <2>7
    <2> QED BY <1>6, <2>1, <2>2, <2>4, <2>8, Ranks
  <1> QED BY <1>9, <1>10 DEF ServedInv

-----------------------------------------------------------------------------
(* Both along the behaviours of the whole.                                 *)
LEMMA ReportAlong ==
  SpecAll => []((which = "runfiles" => FilesInv) /\ (which = "served" => ServedInv))
  <1> DEFINE I == (which = "runfiles" => FilesInv) /\ (which = "served" => ServedInv)
  <1>1. InitAll => I
    <2>1. InitAll /\ which = "runfiles" => FilesInv
      BY FilesStart DEF InitAll
    <2>2. InitAll /\ which = "served" => ServedInv
      BY ServedStart DEF InitAll
    <2> QED BY <2>1, <2>2
  <1>2. I /\ [NextAll]_allVars => I'
    <2> SUFFICES ASSUME I, [NextAll]_allVars PROVE I'
      OBVIOUS
    <2>1. which' = which
      BY DEF NextAll, Running, Picking, Collecting, Granting, Observing, allVars
    <2>2. which = "runfiles" => [RFiles!Next]_runfilesVars
      BY DEF NextAll, Running, Picking, Collecting, Granting, Observing, allVars
    <2>3. which = "served" => [Served!Next]_servedVars
      BY DEF NextAll, Running, Picking, Collecting, Granting, Observing, allVars
    <2> QED BY <2>1, <2>2, <2>3, FilesSteps, ServedSteps
  <1> QED BY <1>1, <1>2, PTL DEF SpecAll

(* What a run reports of itself is true, whatever the caps, the files and  *)
(* the writes during the collection, and however many observations there   *)
(* are: its own pictures, each once and within the budget, and the model   *)
(* that served it.                                                         *)
THEOREM ReportsTrue == SpecAll => []ReportTrue
  <1>1. (which = "runfiles" => FilesInv) /\ (which = "served" => ServedInv) => ReportTrue
    BY FilesInvSays, ServedSays DEF ReportTrue, ImageBudget, ReturnedOnce, OwnImages,
      ServedIsFirstResponse, BestKindKept, CompleteIsWhole
  <1> QED BY <1>1, ReportAlong, PTL

-----------------------------------------------------------------------------
(* The account of a run.                                                   *)

(* Quotient and remainder.                                                 *)
LEMMA DivMod ==
  ASSUME NEW a \in Int, NEW b \in Nat \ {0}
  PROVE  /\ a \div b \in Int /\ a % b \in 0..(b - 1)
         /\ a = (a \div b) * b + (a % b)
         /\ a \in Nat => a \div b \in Nat
  OBVIOUS

(* Multiples keep the order.                                               *)
LEMMA Multiples ==
  ASSUME NEW x \in Int, NEW y \in Int, NEW b \in Nat, x < y
  PROVE  x * b \in Int /\ y * b \in Int /\ x * b + b <= y * b
  OBVIOUS

(* A later moment, less than w days ahead, lies in one of the days 0 to w  *)
(* after today.                                                            *)
LEMMA DaysAhead ==
  ASSUME NEW t \in Nat, NEW back \in Nat, NEW w \in Nat \ {0}, t < back, back - t < w * Day
  PROVE  (back \div Day) - (t \div Day) \in 0..w
  <1>1. Day \in Nat \ {0}
    BY PickAssumption DEF PickLimits
  <1> DEFINE p == back \div Day
             q == t \div Day
  <1>2. /\ p \in Int /\ q \in Int /\ back % Day \in 0..(Day - 1) /\ t % Day \in 0..(Day - 1)
        /\ back = p * Day + (back % Day) /\ t = q * Day + (t % Day)
    BY <1>1, DivMod
  <1> HIDE DEF p, q
  <1>3. q * Day \in Int /\ p * Day \in Int /\ w * Day \in Int
    BY <1>1, <1>2
  <1>4. ~ (p < q)
    <2> SUFFICES ASSUME p < q PROVE FALSE
      OBVIOUS
    <2>1. p * Day + Day <= q * Day
      BY <1>1, <1>2, Multiples
    <2> QED BY <1>1, <1>2, <1>3, <2>1
  <1>5. ~ (q + w < p)
    <2> SUFFICES ASSUME q + w < p PROVE FALSE
      OBVIOUS
    <2>1. (q + w) * Day + Day <= p * Day
      BY <1>1, <1>2, Multiples
    <2>2. (q + w) * Day = q * Day + w * Day
      BY <1>1, <1>2
    <2> QED BY <1>1, <1>2, <1>3, <2>1, <2>2
  <1>6. p - q \in 0..w
    BY <1>2, <1>4, <1>5
  <1> QED BY <1>6 DEF p, q

(* "resets 8pm", read less than a day ahead, is the moment that was meant. *)
LEMMA ClockRight ==
  ASSUME NEW t \in Nat, NEW back \in Nat, t < back, back - t < Day
  PROVE  Pick!_parse_resets_clock(back % Day, -1, t) = back
  <1>1. Day \in Nat \ {0}
    BY PickAssumption DEF PickLimits
  <1> DEFINE p == back \div Day
             q == t \div Day
             c == back % Day
             at == q * Day + c + 0
  <1>2. p \in Int /\ q \in Int /\ c \in Int /\ back = p * Day + c
    BY <1>1, DivMod
  <1>3. p - q \in 0..1
    <2>1. 1 \in Nat \ {0} /\ back - t < 1 * Day
      BY <1>1
    <2> QED BY <2>1, DaysAhead
  <1>4. Pick!_parse_resets_clock(c, -1, t) = IF at < t THEN at + Day ELSE at
    BY DEF Pick!_parse_resets_clock, Pick!Today
  <1> HIDE DEF p, q, c
  <1>5. q * Day \in Int /\ p * Day \in Int /\ (q + 1) * Day = q * Day + Day
    BY <1>1, <1>2
  <1>6. CASE p = q
    <2>1. at = back
      BY <1>2, <1>5, <1>6
    <2> QED BY <1>4, <2>1 DEF c
  <1>7. CASE p = q + 1
    <2>1. at + Day = back
      BY <1>1, <1>2, <1>5, <1>7
    <2>2. at < t
      BY <1>1, <1>2, <1>5, <2>1
    <2> QED BY <1>4, <2>1, <2>2 DEF c
  <1> QED BY <1>2, <1>3, <1>6, <1>7

(* The days to a weekday less than a week ahead.                           *)
LEMMA DaysTo ==
  ASSUME NEW p \in Int, NEW q \in Int, p - q \in 0..Week
  PROVE  LET k == ((p % Week) - (q % Week)) % Week
         IN  (p - q < Week => k = p - q) /\ (p - q = Week => k = 0) /\ k \in Int
  <1>1. Week \in Nat \ {0}
    BY PickAssumption DEF PickLimits
  <1> DEFINE x == (p % Week) - (q % Week)
             k == x % Week
             m == (p \div Week) - (q \div Week) + (x \div Week)
  <1>2. /\ p \div Week \in Int /\ q \div Week \in Int /\ p % Week \in Int /\ q % Week \in Int
        /\ p = (p \div Week) * Week + (p % Week) /\ q = (q \div Week) * Week + (q % Week)
    BY <1>1, DivMod
  <1>3. x \in Int
    BY <1>2
  <1> HIDE DEF x
  <1>4. x \div Week \in Int /\ k \in 0..(Week - 1) /\ x = (x \div Week) * Week + k
    BY <1>1, <1>3, DivMod
  <1> HIDE DEF k
  <1>5. m \in Int /\ m * Week = (p \div Week) * Week - (q \div Week) * Week + (x \div Week) * Week
    BY <1>1, <1>2, <1>4
  <1> HIDE DEF m
  <1>6. m * Week \in Int /\ p - q = m * Week + k
    BY <1>1, <1>2, <1>4, <1>5 DEF x
  <1>7. m < 0 => m * Week + Week <= 0
    BY <1>1, <1>5, Multiples
  <1>8. 0 < m => Week <= m * Week
    BY <1>1, <1>5, Multiples
  <1>9. 1 < m => Week + Week <= m * Week
    BY <1>1, <1>5, Multiples
  <1>10. p - q < Week => k = p - q
    <2> SUFFICES ASSUME p - q < Week PROVE k = p - q
      OBVIOUS
    <2>1. m = 0
      BY <1>1, <1>4, <1>5, <1>6, <1>7, <1>8
    <2> QED BY <1>1, <1>4, <1>6, <2>1
  <1>11. p - q = Week => k = 0
    <2> SUFFICES ASSUME p - q = Week PROVE k = 0
      OBVIOUS
    <2>1. m = 1
      BY <1>1, <1>4, <1>5, <1>6, <1>7, <1>9
    <2> QED BY <1>1, <1>4, <1>6, <2>1
  <1> QED BY <1>4, <1>10, <1>11 DEF k, x

(* "resets Mon 8pm", read less than a week ahead, is the moment that was   *)
(* meant.                                                                  *)
LEMMA WeekdayRight ==
  ASSUME NEW t \in Nat, NEW back \in Nat, t < back, back - t < Week * Day
  PROVE  Pick!_parse_resets_clock(back % Day, Pick!Weekday(back), t) = back
  <1>1. Day \in Nat \ {0} /\ Week \in Nat \ {0}
    BY PickAssumption DEF PickLimits
  <1> DEFINE p == back \div Day
             q == t \div Day
             c == back % Day
             k == ((p % Week) - (q % Week)) % Week
             at == q * Day + c + k * Day
  <1>2. p \in Int /\ q \in Int /\ c \in Int /\ back = p * Day + c
    BY <1>1, DivMod
  <1>3. p - q \in 0..Week
    BY <1>1, DaysAhead
  <1>0. p % Week # -1
    BY <1>1, <1>2, DivMod
  <1>4. Pick!_parse_resets_clock(c, Pick!Weekday(back), t) = IF at < t THEN at + Week * Day ELSE at
    BY <1>0 DEF Pick!_parse_resets_clock, Pick!Today, Pick!Weekday
  <1> HIDE DEF p, q, c
  <1>5. (p - q < Week => k = p - q) /\ (p - q = Week => k = 0) /\ k \in Int
    BY <1>2, <1>3, DaysTo
  <1> HIDE DEF k
  <1>6. CASE p - q < Week
    <2>1. k * Day = p * Day - q * Day /\ q * Day \in Int /\ p * Day \in Int
      BY <1>1, <1>2, <1>5, <1>6
    <2>2. at = back
      BY <1>2, <2>1
    <2> QED BY <1>4, <2>2 DEF c
  <1>7. CASE p = q + Week
    <2>1. k * Day = 0 /\ q * Day \in Int /\ Week * Day \in Int /\ (q + Week) * Day = q * Day + Week * Day
      BY <1>1, <1>2, <1>5, <1>7
    <2>2. at + Week * Day = back
      BY <1>2, <1>7, <2>1
    <2>3. at < t
      BY <1>2, <2>1, <2>2
    <2> QED BY <1>4, <2>2, <2>3 DEF c
  <1> QED BY <1>1, <1>2, <1>3, <1>6, <1>7

(* Whatever the form of the message, the reset is understood.              *)
LEMMA ResetRight ==
  ASSUME NEW t \in Nat, NEW back \in Nat, t < back, NEW r \in Pick!parse_reset_at(back, t)
  PROVE  r = back
  <1>1. CASE r = back
    BY <1>1
  <1>2. CASE back - t < Day /\ r = Pick!_parse_resets_clock(back % Day, -1, t)
    BY <1>2, ClockRight
  <1>3. CASE back - t < Week * Day /\ r = Pick!_parse_resets_clock(back % Day, Pick!Weekday(back), t)
    BY <1>3, WeekdayRight
  <1> QED BY <1>1, <1>2, <1>3 DEF Pick!parse_reset_at

(* The list a choice is made from.                                         *)
CandSound(c) == DOMAIN c \subseteq Nat /\ DOMAIN c # {} /\ Pick!Accounts(c) \subseteq PickAccount

(* An event of a pause: understood, and no longer than the look-back.      *)
EventsSound ==
  \A e \in pickEvents :
    e.reset = e.back /\ e.at \in 0..now /\ e.back \in Nat /\ e.back <= e.at + Lookback

(* What PickCanServe says of one submission.                               *)
ChoiceSound(x) ==
  LET cand == Pick!Accounts(x.cand)
      down == {d \in x.down : d.account \in cand}
  IN x.account \in Pick!Named(down) =>
       cand = Pick!Named(down) /\ \A a \in cand : Pick!ResetOf(down)[x.account] <= Pick!ResetOf(down)[a]

(* A submission: the pauses it read are those of its candidates.           *)
SubSound(x) ==
  /\ x = [pc |-> x.pc, cand |-> x.cand, paused |-> x.paused, account |-> x.account, down |-> x.down]
  /\ x.pc = "load" => /\ CandSound(x.cand)
                      /\ x.paused = {d \in x.down : d.account \in Pick!Accounts(x.cand)}
                      /\ Pick!ResetOf(x.paused) \in [Pick!Named(x.paused) -> Nat]
  /\ (x.pc = "create" /\ Pick!Cardinality(DOMAIN x.cand) > 1) => ChoiceSound(x)

(* The inductive invariant of the choice.                                  *)
PickInv ==
  /\ now \in Nat /\ EventsSound /\ load \in [PickAccount -> Nat]
  /\ sub = [s \in Submitter |-> sub[s]] /\ \A s \in Submitter : SubSound(sub[s])

(* It says that the account can serve.                                     *)
LEMMA PickSays == PickInv => Pick!ResetUnderstood /\ Pick!PickCanServe
  <1> SUFFICES ASSUME PickInv PROVE Pick!ResetUnderstood /\ Pick!PickCanServe
    OBVIOUS
  <1>1. Pick!ResetUnderstood
    BY DEF PickInv, EventsSound, Pick!ResetUnderstood
  <1>2. ASSUME NEW s \in Submitter, sub[s].pc = "create" /\ Pick!Cardinality(DOMAIN sub[s].cand) > 1
        PROVE  ChoiceSound(sub[s])
    BY <1>2 DEF PickInv, SubSound
  <1>3. Pick!PickCanServe
    BY <1>2, Zenon DEF Pick!PickCanServe, ChoiceSound
  <1> QED BY <1>1, <1>3

(* The places of two candidates differ.                                    *)
LEMMA Places ==
  ASSUME NEW c, CandSound(c)
  PROVE  \A a \in Pick!Accounts(c) : Pick!Position(c, a) \in DOMAIN c /\ c[Pick!Position(c, a)] = a
  <1> SUFFICES ASSUME NEW a \in Pick!Accounts(c)
               PROVE  Pick!Position(c, a) \in DOMAIN c /\ c[Pick!Position(c, a)] = a
    OBVIOUS
  <1> DEFINE T == {i \in DOMAIN c : c[i] = a}
  <1>1. T \in SUBSET Nat /\ T # {}
    BY DEF CandSound, Pick!Accounts
  <1>2. PICK i \in T : \A j \in T : i <= j
    BY <1>1, Least
  <1>3. i \in DOMAIN c /\ c[i] = a /\ \A j \in DOMAIN c : c[j] = a => i <= j
    BY <1>2
  <1> QED BY <1>3, Zenon DEF Pick!Position

(* The least by cost is one of them, and none costs less.                  *)
LEMMA LeastIs ==
  ASSUME NEW c, CandSound(c), NEW from, from \subseteq Pick!Accounts(c), from # {}, NEW cost,
         \A a \in from : cost[a] \in Nat
  PROVE  Pick!Least(c, from, cost) \in from /\ \A b \in from : cost[Pick!Least(c, from, cost)] <= cost[b]
  <1> DEFINE K == {cost[a] : a \in from}
  <1>1. K \in SUBSET Nat /\ K # {}
    OBVIOUS
  <1>2. PICK m \in K : \A k \in K : m <= k
    BY <1>1, Least
  <1> DEFINE F == {a \in from : cost[a] = m}
             T == {Pick!Position(c, a) : a \in F}
  <1>3. F # {} /\ \A a \in from : cost[a] = m \/ m < cost[a]
    BY <1>2
  <1>4. \A a \in from : Pick!Position(c, a) \in Nat /\ c[Pick!Position(c, a)] = a
    BY Places DEF CandSound
  <1>5. T \in SUBSET Nat /\ T # {}
    BY <1>3, <1>4
  <1>6. PICK i \in T : \A j \in T : i <= j
    BY <1>5, Least
  <1>7. PICK a \in F : i = Pick!Position(c, a)
    BY <1>6
  <1>8. ASSUME NEW b \in from \ {a}
        PROVE  cost[a] < cost[b] \/ (cost[a] = cost[b] /\ Pick!Position(c, a) < Pick!Position(c, b))
    <2>0. a \in from /\ cost[a] = m /\ b \in from /\ b # a
      BY <1>7
    <2>1. CASE cost[b] = m
      <3>1. Pick!Position(c, a) <= Pick!Position(c, b)
        BY <1>6, <1>7, <2>0, <2>1
      <3>2. Pick!Position(c, a) # Pick!Position(c, b)
        BY <1>4, <2>0
      <3>3. Pick!Position(c, a) \in Nat /\ Pick!Position(c, b) \in Nat
        BY <1>4, <2>0
      <3>4. Pick!Position(c, a) < Pick!Position(c, b)
        BY <3>1, <3>2, <3>3
      <3> QED BY <2>0, <2>1, <3>4
    <2>2. CASE m < cost[b]
      BY <2>0, <2>2
    <2> QED BY <1>3, <2>0, <2>1, <2>2
  <1> DEFINE L == Pick!Least(c, from, cost)
  <1>9. a \in from
    BY <1>7
  <1>10. L \in from /\ \A b \in from \ {L} :
           cost[L] < cost[b] \/ (cost[L] = cost[b] /\ Pick!Position(c, L) < Pick!Position(c, b))
    <2> HIDE DEF K, F, T
    <2> QED BY <1>8, <1>9, Zenon DEF Pick!Least
  <1> HIDE DEF L
  <1>11. ASSUME NEW b \in from PROVE cost[L] <= cost[b]
    <2>1. cost[L] \in Nat /\ cost[b] \in Nat
      BY <1>10
    <2>2. b = L \/ cost[L] < cost[b] \/ cost[L] = cost[b]
      BY <1>10
    <2> QED BY <2>1, <2>2
  <1> QED BY <1>10, <1>11 DEF L

(* A pause of an account that has one is a number.                         *)
LEMMA PauseIs ==
  ASSUME PickInv, NEW a, \E e \in pickEvents : e.account = a /\ e.back > now
  PROVE  Pick!Max({e.back : e \in {f \in pickEvents : f.account = a /\ f.back > now}}) \in Nat
  <1> DEFINE B == {e.back : e \in {f \in pickEvents : f.account = a /\ f.back > now}}
             T == {(now + Lookback) - x : x \in B}
  <1>1. now \in Nat /\ Lookback \in Nat
    BY PickAssumption DEF PickInv, PickLimits
  <1>2. B # {} /\ \A x \in B : x \in Nat /\ x <= now + Lookback
    <2>1. ASSUME NEW x \in B PROVE x \in Nat /\ x <= now + Lookback
      <3>1. PICK e \in pickEvents : x = e.back
        OBVIOUS
      <3>2. e.at \in 0..now /\ e.back \in Nat /\ e.back <= e.at + Lookback
        BY <3>1 DEF PickInv, EventsSound
      <3> QED BY <1>1, <3>1, <3>2
    <2> QED BY <2>1
  <1> HIDE DEF B
  <1>3. T \in SUBSET Nat /\ T # {}
    BY <1>1, <1>2
  <1>4. PICK y \in T : \A z \in T : y <= z
    BY <1>3, Least
  <1>5. PICK x \in B : y = (now + Lookback) - x
    BY <1>4
  <1>6. ASSUME NEW z \in B PROVE x >= z
    <2>1. y <= (now + Lookback) - z
      BY <1>4
    <2> QED BY <1>1, <1>2, <1>5, <2>1
  <1>7. Pick!Max(B) \in B
    BY <1>5, <1>6, Zenon DEF Pick!Max
  <1> QED BY <1>2, <1>7 DEF B

(* quota_resets gives the pauses of the candidates, each with its end: the *)
(* look-back misses none.                                                  *)
LEMMA ReadsPauses ==
  ASSUME PickInv, NEW c
  PROVE  /\ Pick!quota_resets(c, now) = {d \in Pick!Unable(now) : d.account \in Pick!Accounts(c)}
         /\ Pick!ResetOf(Pick!quota_resets(c, now)) \in [Pick!Named(Pick!quota_resets(c, now)) -> Nat]
  <1> DEFINE M(a) == Pick!Max({e.back : e \in {f \in pickEvents : f.account = a /\ f.back > now}})
             A == {e.account : e \in {f \in pickEvents : f.back > now}}
             C == Pick!Accounts(c)
             S == Pick!Scanned(c, now)
             Q == Pick!quota_resets(c, now)
  <1>1. now \in Nat /\ Lookback \in Nat
    BY PickAssumption DEF PickInv, PickLimits
  <1>2. ASSUME NEW e \in pickEvents, e.back > now PROVE e.at >= now - Lookback
    <2>1. e.at \in 0..now /\ e.back \in Nat /\ e.back <= e.at + Lookback
      BY DEF PickInv, EventsSound
    <2> QED BY <1>1, <1>2, <2>1
  <1>3. \A e \in pickEvents : e.reset = e.back
    BY DEF PickInv, EventsSound
  <1>4. S \subseteq pickEvents /\ \A e \in pickEvents : e.back > now /\ e.account \in C => e \in S
    BY <1>2 DEF Pick!Scanned
  <1>5. \A e \in S : e.account \in C
    BY DEF Pick!Scanned
  <1> HIDE DEF S, C
  <1>6. ASSUME NEW a \in C
        PROVE  {e.reset : e \in {f \in S : f.account = a /\ f.reset > now}}
                 = {e.back : e \in {f \in pickEvents : f.account = a /\ f.back > now}}
    <2>1. {f \in S : f.account = a /\ f.reset > now} = {f \in pickEvents : f.account = a /\ f.back > now}
      BY <1>3, <1>4
    <2> QED BY <1>3, <2>1
  <1>7. {e.account : e \in {f \in S : f.reset > now}} = A \cap C
    BY <1>3, <1>4, <1>5
  <1>8. Q = {[account |-> a, reset |-> M(a)] : a \in A \cap C}
    <2>1. Q = {[account |-> a, reset |-> Pick!Max({e.reset : e \in {f \in S : f.account = a /\ f.reset > now}})] :
                  a \in {e.account : e \in {f \in S : f.reset > now}}}
      BY Zenon DEF Pick!quota_resets, S
    <2> QED BY <1>6, <1>7, <2>1
  <1>9. Pick!Unable(now) = {[account |-> a, reset |-> M(a)] : a \in A}
    BY Zenon DEF Pick!Unable
  <1>10. \A a \in A : M(a) \in Nat
    <2>1. \A a \in A : \E e \in pickEvents : e.account = a /\ e.back > now
      OBVIOUS
    <2> QED BY <2>1, PauseIs
  <1> HIDE DEF M, A, Q
  <1>11. Q = {d \in Pick!Unable(now) : d.account \in C}
    BY <1>8, <1>9
  <1>12. Pick!Named(Q) = A \cap C
    <2>1. ASSUME NEW a \in A \cap C PROVE a \in Pick!Named(Q)
      <3>1. [account |-> a, reset |-> M(a)] \in Q /\ [account |-> a, reset |-> M(a)].account = a
        BY <1>8
      <3> QED BY <3>1, Zenon DEF Pick!Named
    <2>2. ASSUME NEW a \in Pick!Named(Q) PROVE a \in A \cap C
      <3>1. PICK p \in Q : a = p.account
        BY DEF Pick!Named
      <3> QED BY <1>8, <3>1
    <2> QED BY <2>1, <2>2
  <1>13. ASSUME NEW a \in A \cap C PROVE (CHOOSE p \in Q : p.account = a).reset \in Nat
    <2>1. [account |-> a, reset |-> M(a)] \in Q
      BY <1>8
    <2> DEFINE p == CHOOSE p \in Q : p.account = a
    <2>2. p \in Q /\ p.account = a
      BY <2>1
    <2> HIDE DEF p
    <2>3. PICK b \in A \cap C : p = [account |-> b, reset |-> M(b)]
      BY <1>8, <2>2
    <2>4. p.reset \in Nat
      BY <1>10, <2>3
    <2> QED BY <2>4 DEF p
  <1>14. Pick!ResetOf(Q) = [a \in A \cap C |-> (CHOOSE p \in Q : p.account = a).reset]
    <2>1. {p.account : p \in Q} = A \cap C
      BY <1>12 DEF Pick!Named
    <2> QED BY <2>1, Zenon DEF Pick!ResetOf
  <1>15. Pick!ResetOf(Q) \in [A \cap C -> Nat]
    BY <1>13, <1>14
  <1> QED BY <1>11, <1>12, <1>15 DEF Q, C

(* An idle submission has nothing to answer for.                           *)
LEMMA IdleSound == SubSound(Pick!Idle)
  BY DEF SubSound, Pick!Idle

(* The initial state.                                                      *)
LEMMA PickStart == Pick!Init => PickInv
  BY IdleSound DEF Pick!Init, PickInv, EventsSound

(* A step that leaves the submissions alone.                               *)
LEMMA SubsKeep ==
  ASSUME PickInv, now' \in Nat, EventsSound', load' \in [PickAccount -> Nat], UNCHANGED sub
  PROVE  PickInv'
  BY DEF PickInv

(* A pause is recorded as it was understood.                               *)
LEMMA Recorded ==
  ASSUME PickInv, NEW a, NEW reset, NEW back, reset = back, back \in Nat, back <= now + Lookback,
         Pick!Record(a, reset, back), UNCHANGED now
  PROVE  EventsSound'
  <1>1. pickEvents' = pickEvents \cup {[account |-> a, at |-> now, reset |-> reset, back |-> back]}
    BY DEF Pick!Record
  <1>2. now \in Nat
    BY DEF PickInv
  <1>3. ASSUME NEW e \in pickEvents'
        PROVE  e.reset = e.back /\ e.at \in 0..now /\ e.back \in Nat /\ e.back <= e.at + Lookback
    <2>1. CASE e \in pickEvents
      BY <2>1 DEF PickInv, EventsSound
    <2>2. CASE e = [account |-> a, at |-> now, reset |-> reset, back |-> back]
      BY <1>2, <2>2
    <2> QED BY <1>1, <2>1, <2>2
  <1> QED BY <1>3 DEF EventsSound

(* Runs meet a limit, fail or finish.                                      *)
LEMMA PickRuns ==
  ASSUME PickInv, NEW a \in PickAccount, Pick!Limited(a) \/ Pick!Down(a) \/ Pick!Finish(a)
  PROVE  PickInv'
  <1>1. now \in Nat /\ load \in [PickAccount -> Nat] /\ load[a] \in Nat
    BY DEF PickInv
  <1>2. load[a] > 0 /\ UNCHANGED <<now, sub>>
    BY DEF Pick!Limited, Pick!Down, Pick!Finish
  <1>3. [load EXCEPT ![a] = @ - 1] \in [PickAccount -> Nat]
    BY <1>1, <1>2
  <1>4. /\ Week * Day \in Nat /\ Week * Day <= Lookback /\ Lookback \in Nat /\ DownPause \in Nat
        /\ DownPause <= Lookback
    BY PickAssumption DEF PickLimits
  <1>5. CASE Pick!Limited(a)
    <2>1. PICK back \in (now + 1)..(now + Week * Day), waits \in BOOLEAN :
            /\ \E reset \in Pick!parse_reset_at(back, now) : Pick!Record(a, reset, back)
            /\ load' = IF waits THEN load ELSE [load EXCEPT ![a] = @ - 1]
      BY <1>5, Zenon DEF Pick!Limited
    <2>2. PICK reset \in Pick!parse_reset_at(back, now) : Pick!Record(a, reset, back)
      BY <2>1
    <2>3. back \in Nat /\ now < back /\ back <= now + Lookback
      BY <1>1, <1>4, <2>1
    <2>4. reset = back
      BY <1>1, <2>2, <2>3, ResetRight
    <2>5. EventsSound'
      BY <1>2, <2>2, <2>3, <2>4, Recorded
    <2>6. load' \in [PickAccount -> Nat]
      BY <1>1, <1>3, <2>1
    <2> QED BY <1>1, <1>2, <2>5, <2>6, SubsKeep
  <1>6. CASE Pick!Down(a)
    <2>1. Pick!Record(a, now + DownPause, now + DownPause) /\ load' = [load EXCEPT ![a] = @ - 1]
      BY <1>6 DEF Pick!Down
    <2>2. now + DownPause \in Nat /\ now + DownPause <= now + Lookback
      BY <1>1, <1>4
    <2>3. EventsSound'
      BY <1>2, <2>1, <2>2, Recorded
    <2> QED BY <1>1, <1>2, <1>3, <2>1, <2>3, SubsKeep
  <1>7. CASE Pick!Finish(a)
    <2>1. load' = [load EXCEPT ![a] = @ - 1] /\ UNCHANGED pickEvents
      BY <1>7 DEF Pick!Finish
    <2>2. EventsSound'
      BY <1>2, <2>1 DEF PickInv, EventsSound
    <2> QED BY <1>1, <1>2, <1>3, <2>1, <2>2, SubsKeep
  <1> QED BY <1>5, <1>6, <1>7

(* Time passes.                                                            *)
LEMMA PickTick == PickInv /\ Pick!Tick => PickInv'
  <1> SUFFICES ASSUME PickInv, Pick!Tick PROVE PickInv'
    OBVIOUS
  <1>1. now' = now + 1 /\ UNCHANGED <<pickEvents, load, sub>> /\ now \in Nat
    BY DEF Pick!Tick, PickInv
  <1>2. EventsSound'
    BY <1>1 DEF PickInv, EventsSound
  <1> QED BY <1>1, <1>2, SubsKeep DEF PickInv

(* A step of one submission.                                               *)
LEMMA SubMoves ==
  ASSUME PickInv, NEW s \in Submitter, NEW x, SubSound(x), sub' = [sub EXCEPT ![s] = x],
         UNCHANGED <<now, pickEvents>>, load' \in [PickAccount -> Nat]
  PROVE  PickInv'
  <1>1. EventsSound'
    BY DEF PickInv, EventsSound
  <1>2. \A r \in Submitter : sub'[r] = IF r = s THEN x ELSE sub[r]
    BY DEF PickInv
  <1>3. sub' = [r \in Submitter |-> sub'[r]]
    BY DEF PickInv
  <1>4. \A r \in Submitter : SubSound(sub'[r])
    BY <1>2 DEF PickInv
  <1> QED BY <1>1, <1>3, <1>4 DEF PickInv

(* The policy's list, without the excluded accounts.                       *)
LEMMA CandIs ==
  ASSUME NEW policy \in Policies, NEW c, c = Pick!Candidates(policy), DOMAIN c # {}
  PROVE  CandSound(c)
  <1>1. policy \in Seq(PickAccount)
    BY PickAssumption DEF PickLimits
  <1>2. DOMAIN c \subseteq DOMAIN policy /\ \A i \in DOMAIN c : c[i] = policy[i]
    BY DEF Pick!Candidates
  <1>3. DOMAIN policy \subseteq Nat /\ \A i \in DOMAIN policy : policy[i] \in PickAccount
    BY <1>1
  <1> QED BY <1>2, <1>3 DEF CandSound, Pick!Accounts

(* A submission reads the pauses.                                          *)
LEMMA PickBegin ==
  ASSUME PickInv, NEW s \in Submitter, Pick!Begin(s)
  PROVE  PickInv'
  <1>1. UNCHANGED <<now, pickEvents, load>> /\ load \in [PickAccount -> Nat]
    BY DEF Pick!Begin, PickInv
  <1> DEFINE Chosen(c) ==
        IF DOMAIN c = {} THEN Pick!Idle
        ELSE IF Pick!Cardinality(DOMAIN c) = 1
        THEN [Pick!Idle EXCEPT !.pc = "create", !.cand = c, !.account = c[CHOOSE i \in DOMAIN c : TRUE]]
        ELSE [Pick!Idle EXCEPT !.pc = "load", !.cand = c,
                               !.paused = Pick!quota_resets(c, now), !.down = Pick!Unable(now)]
  <1>6. PICK policy \in Policies : sub' = [sub EXCEPT ![s] = Chosen(Pick!Candidates(policy))]
    BY Zenon DEF Pick!Begin
  <1>7. PICK c : c = Pick!Candidates(policy)
    OBVIOUS
  <1>8. PICK x : x = Chosen(c)
    OBVIOUS
  <1>2. c = Pick!Candidates(policy) /\ sub' = [sub EXCEPT ![s] = x] /\ x = Chosen(c)
    BY <1>6, <1>7, <1>8
  <1>3. CASE DOMAIN c = {}
    BY <1>1, <1>2, <1>3, IdleSound, SubMoves
  <1>4. CASE DOMAIN c # {} /\ Pick!Cardinality(DOMAIN c) = 1
    <2>1. PICK a : a = c[CHOOSE i \in DOMAIN c : TRUE]
      OBVIOUS
    <2>2. x = [pc |-> "create", cand |-> c, paused |-> {}, account |-> a, down |-> {}]
      BY <1>2, <1>4, <2>1 DEF Pick!Idle
    <2>3. x.pc = "create" /\ ~ (Pick!Cardinality(DOMAIN x.cand) > 1)
      BY <1>4, <2>2
    <2>4. SubSound(x)
      BY <2>2, <2>3 DEF SubSound
    <2> QED BY <1>1, <1>2, <2>4, SubMoves
  <1>5. CASE DOMAIN c # {} /\ Pick!Cardinality(DOMAIN c) # 1
    <2>1. PICK q, d : q = Pick!quota_resets(c, now) /\ d = Pick!Unable(now)
      OBVIOUS
    <2>2. x = [pc |-> "load", cand |-> c, paused |-> q, account |-> "none", down |-> d]
      BY <1>2, <1>5, <2>1 DEF Pick!Idle
    <2>3. CandSound(c)
      BY <1>2, <1>5, CandIs
    <2>4. q = {e \in d : e.account \in Pick!Accounts(c)} /\ Pick!ResetOf(q) \in [Pick!Named(q) -> Nat]
      BY <2>1, ReadsPauses
    <2>5. SubSound(x)
      BY <2>2, <2>3, <2>4 DEF SubSound
    <2> QED BY <1>1, <1>2, <2>5, SubMoves
  <1> QED BY <1>3, <1>4, <1>5

(* The fields of a submission that has chosen.                             *)
LEMMA ChosenFields ==
  ASSUME NEW y, NEW z, NEW a, z = [y EXCEPT !.pc = "create", !.account = a, !.paused = {}],
         y = [pc |-> y.pc, cand |-> y.cand, paused |-> y.paused, account |-> y.account, down |-> y.down]
  PROVE  z = [pc |-> "create", cand |-> y.cand, paused |-> {}, account |-> a, down |-> y.down]
  <1>1. PICK p, c, q, b, d : p = y.pc /\ c = y.cand /\ q = y.paused /\ b = y.account /\ d = y.down
    OBVIOUS
  <1> DEFINE T == [pc : {p, "create"}, cand : {c}, paused : {q, {}}, account : {b, a}, down : {d}]
  <1>2. y \in T
    BY <1>1
  <1>3. z \in T /\ z.pc = "create" /\ z.account = a /\ z.paused = {}
    BY <1>2
  <1> QED BY <1>1, <1>3

(* The choice.                                                             *)
LEMMA PickChoose ==
  ASSUME PickInv, NEW s \in Submitter, Pick!pick_account(s)
  PROVE  PickInv'
  <1>1. UNCHANGED <<now, pickEvents, load>> /\ load \in [PickAccount -> Nat] /\ sub[s].pc = "load"
    BY DEF Pick!pick_account, PickInv
  <1>2. PICK y : y = sub[s]
    OBVIOUS
  <1>3. SubSound(y) /\ y.pc = "load"
    BY <1>1, <1>2 DEF PickInv
  <1> DEFINE C == Pick!Accounts(y.cand)
             N == Pick!Named(y.paused)
             free == C \ N
             R == Pick!ResetOf(y.paused)
  <1>4. PICK a : /\ a = IF free # {} THEN Pick!Least(y.cand, free, load) ELSE Pick!Least(y.cand, C, R)
                 /\ sub' = [sub EXCEPT ![s] = [@ EXCEPT !.pc = "create", !.account = a, !.paused = {}]]
    BY <1>2, Zenon DEF Pick!pick_account
  <1>5. PICK x : x = [pc |-> "create", cand |-> y.cand, paused |-> {}, account |-> a, down |-> y.down]
    OBVIOUS
  <1>6. [y EXCEPT !.pc = "create", !.account = a, !.paused = {}] = x
    <2>1. PICK z : z = [y EXCEPT !.pc = "create", !.account = a, !.paused = {}]
      OBVIOUS
    <2>2. y = [pc |-> y.pc, cand |-> y.cand, paused |-> y.paused, account |-> y.account, down |-> y.down]
      BY <1>3 DEF SubSound
    <2>3. z = x
      BY ONLY <1>5, <2>1, <2>2, ChosenFields
    <2> QED BY <2>1, <2>3
  <1>7. sub' = [sub EXCEPT ![s] = x]
    BY <1>2, <1>4, <1>6 DEF PickInv
  <1>8. /\ CandSound(y.cand) /\ y.paused = {d \in y.down : d.account \in C}
        /\ R \in [N -> Nat]
    BY <1>3 DEF SubSound
  <1>9. N \subseteq C
    BY <1>8 DEF Pick!Named
  <1>10. C # {} /\ C \subseteq PickAccount
    BY <1>8 DEF CandSound, Pick!Accounts
  <1> HIDE DEF C, N, R
  <1>11. (a \in N) => C = N /\ \A b \in C : R[a] <= R[b]
    <2>1. CASE free # {}
      <3>1. \A b \in free : load[b] \in Nat
        BY <1>1, <1>10
      <3>2. Pick!Least(y.cand, free, load) \in free
        BY <1>8, <2>1, <3>1, LeastIs DEF C
      <3> QED BY <1>4, <2>1, <3>2
    <2>2. CASE free = {}
      <3>1. C = N
        BY <1>9, <2>2
      <3>2. \A b \in C : R[b] \in Nat
        BY <1>8, <3>1
      <3>3. \A b \in C : R[Pick!Least(y.cand, C, R)] <= R[b]
        BY <1>8, <1>10, <3>2, LeastIs DEF C
      <3> QED BY <1>4, <2>2, <3>1, <3>3
    <2> QED BY <2>1, <2>2
  <1>12. ChoiceSound(x)
    <2>1. x.account = a /\ x.cand = y.cand /\ x.down = y.down
      BY <1>5
    <2>2. {d \in x.down : d.account \in Pick!Accounts(x.cand)} = y.paused
      BY <1>8, <2>1 DEF C
    <2> QED BY <1>11, <2>1, <2>2 DEF ChoiceSound, C, N, R
  <1>13. SubSound(x)
    BY <1>5, <1>12 DEF SubSound
  <1> QED BY <1>1, <1>7, <1>13, SubMoves

(* The run is created.                                                     *)
LEMMA PickCreate ==
  ASSUME PickInv, NEW s \in Submitter, Pick!Create(s)
  PROVE  PickInv'
  <1>1. /\ load' = [load EXCEPT ![sub[s].account] = @ + 1] /\ sub' = [sub EXCEPT ![s] = Pick!Idle]
        /\ UNCHANGED <<now, pickEvents>>
    BY DEF Pick!Create
  <1>2. load' \in [PickAccount -> Nat]
    <2>1. PICK a : a = sub[s].account
      OBVIOUS
    <2>2. load \in [PickAccount -> Nat] /\ load' = [load EXCEPT ![a] = load[a] + 1]
      BY <1>1, <2>1 DEF PickInv
    <2>3. CASE a \in PickAccount
      BY <2>2, <2>3
    <2>4. CASE a \notin PickAccount
      <3>1. load' = load
        BY <2>2, <2>4
      <3> QED BY <2>2, <3>1
    <2> QED BY <2>3, <2>4
  <1> QED BY <1>1, <1>2, IdleSound, SubMoves

(* Every step keeps the invariant.                                         *)
LEMMA PickSteps == PickInv /\ [Pick!Next]_pickVars => PickInv'
  <1> SUFFICES ASSUME PickInv, [Pick!Next]_pickVars PROVE PickInv'
    OBVIOUS
  <1>1. CASE UNCHANGED pickVars
    BY <1>1 DEF PickInv, EventsSound, pickVars
  <1>2. CASE \E a \in PickAccount : Pick!Limited(a) \/ Pick!Down(a) \/ Pick!Finish(a)
    BY <1>2, PickRuns
  <1>3. CASE \E s \in Submitter : Pick!Begin(s) \/ Pick!pick_account(s) \/ Pick!Create(s)
    BY <1>3, PickBegin, PickChoose, PickCreate
  <1>4. CASE Pick!Tick
    BY <1>4, PickTick
  <1> QED BY <1>1, <1>2, <1>3, <1>4 DEF Pick!Next

(* Along the behaviours of the whole.                                      *)
LEMMA PickAlong == SpecAll => [](which = "pick" => PickInv)
  <1> DEFINE I == which = "pick" => PickInv
  <1>1. InitAll => I
    BY PickStart DEF InitAll
  <1>2. I /\ [NextAll]_allVars => I'
    <2> SUFFICES ASSUME I, [NextAll]_allVars PROVE I'
      OBVIOUS
    <2>1. which' = which
      BY DEF NextAll, Running, Picking, Collecting, Granting, Observing, allVars
    <2>2. which = "pick" => [Pick!Next]_pickVars
      BY DEF NextAll, Running, Picking, Collecting, Granting, Observing, allVars
    <2> QED BY <2>1, <2>2, PickSteps
  <1> QED BY <1>1, <1>2, PTL DEF SpecAll

(* A run goes to an account that can serve it, for every length of the day *)
(* and the week, every policy and any number of concurrent submissions:    *)
(* the reset in a message is understood in each of its forms, and an       *)
(* account known to be paused is taken only when every candidate is, and   *)
(* then the one that is back first (parse_reset_at, pick_account).         *)
THEOREM AccountsServe == SpecAll => []AccountCanServe
  <1>1. (which = "pick" => PickInv) => AccountCanServe
    BY PickSays DEF AccountCanServe, ResetUnderstood, PickCanServe
  <1> QED BY <1>1, PickAlong, PTL
=============================================================================
