------------------------- MODULE SessionLeaseProofs -------------------------
(* Theorems about SessionLease, for every set of executions, every way     *)
(* runs share them and every value of the timeouts.                        *)
EXTENDS SessionLease, TLAPS

USE DEF Phase

(* The timeouts are integers.                                              *)
LEMMA TimeFact ==
  /\ Ttl \in Int /\ Ttl > 0 /\ Beat \in Int /\ Beat > 0 /\ Delay \in Int /\ Delay >= 0
  /\ React \in Int /\ React >= 0 /\ WriteTime \in Int /\ WriteTime >= 0
  /\ StopTime \in Int /\ StopTime >= 0
  BY TimeAssumption

(* An execution that has not asked yet satisfies its local invariant.      *)
LEMMA FreshFact == Fresh \in ExecState /\ Local(Fresh)
  BY TimeFact DEF Fresh, ExecState, Local, Shape, Tracks, Beats, Reacts

(* The initial state satisfies the invariant.                              *)
LEMMA InitInv == Init => LeaseInv
  <1> SUFFICES ASSUME Init PROVE LeaseInv
    OBVIOUS
  <1>0. Floor \in Int
    BY TimeFact DEF Floor, Overrun
  <1>1. TypeOK /\ ~zombie
    <2>1. ex \in [Exec -> ExecState]
      BY FreshFact DEF Init
    <2>2. zombie = FALSE
      BY DEF Init
    <2> QED
      BY <1>0, <2>1, <2>2 DEF Init, TypeOK
  <1>2. ASSUME NEW e \in Exec PROVE Local(ex[e]) /\ Fenced(e)
    <2>1. ex[e] = Fresh
      BY DEF Init
    <2> QED
      BY <2>1, FreshFact DEF Init, Fenced, Fresh
  <1> QED
    BY <1>1, <1>2 DEF LeaseInv

(* A step of one execution that leaves the holder alone: what has to be    *)
(* shown of its new state, and of the row lock.                            *)
LEMMA OwnStep ==
  ASSUME LeaseInv, NEW e \in Exec, NEW y \in ExecState, SetExec(e, y), Local(y),
         lease' \in [run : RunId \cup {NoExec}, fence : Nat, left : Int],
         lease'.fence = lease.fence, owner' = owner, zombie' = FALSE,
         y.fence = ex[e].fence,
         lock' \in {lock, e, NoExec},
         lock' # lock => lock \in {e, NoExec},
         y.tx = "locked" => lock' = e /\ owner = e
  PROVE  LeaseInv'
  <1>1. /\ ex' \in [Exec -> ExecState] /\ ex'[e] = y
        /\ \A f \in Exec : f # e => ex'[f] = ex[f]
    BY DEF SetExec, LeaseInv, TypeOK
  <1>2. TypeOK'
    BY <1>1 DEF LeaseInv, TypeOK
  <1>3. ASSUME NEW f \in Exec PROVE Local(ex'[f]) /\ Fenced(f)'
    <2>1. CASE f = e
      BY <2>1, <1>1 DEF LeaseInv, Fenced
    <2>2. CASE f # e
      <3>1. ex'[f] = ex[f] /\ Local(ex[f]) /\ Fenced(f)
        BY <2>2, <1>1 DEF LeaseInv
      <3>2. ex[f].tx = "locked" => lock' = f
        BY <3>1, <2>2, ExecAssumption DEF Fenced
      <3> QED
        BY <3>1, <3>2 DEF Fenced
    <2> QED
      BY <2>1, <2>2
  <1> QED
    BY <1>2, <1>3 DEF LeaseInv

(* What the invariant says of one execution.                               *)
LEMMA ExecFact ==
  ASSUME LeaseInv, NEW e \in Exec
  PROVE  /\ ex[e] \in ExecState /\ Local(ex[e]) /\ Fenced(e) /\ zombie = FALSE
         /\ lease \in [run : RunId \cup {NoExec}, fence : Nat, left : Int]
         /\ lease.fence \in Nat /\ lease.left \in Int
         /\ lock \in Exec \cup {NoExec}
         /\ RunOf[e] \in RunId
  BY ExecAssumption DEF LeaseInv, TypeOK

(* Steps that change nothing but the execution's own state.                *)
LEMMA QuietStep ==
  ASSUME LeaseInv, NEW e \in Exec, NEW y, SetExec(e, y), y \in ExecState, Local(y),
         UNCHANGED <<lease, lock, owner, zombie>>,
         y.fence = ex[e].fence, y.tx = "locked" => ex[e].tx = "locked"
  PROVE  LeaseInv'
  <1>1. lease' = lease /\ lock' = lock /\ owner' = owner /\ zombie' = FALSE
    BY ExecFact
  <1>2. y.tx = "locked" => lock' = e /\ owner = e
    BY <1>1, ExecFact DEF Fenced
  <1> QED
    BY <1>1, <1>2, ExecFact, OwnStep

(* Asking and a failed acquisition keep the invariant.                     *)
LEMMA AskInv ==
  ASSUME LeaseInv, NEW e \in Exec, Ask(e) \/ AcquireFails(e)
  PROVE  LeaseInv'
  <1>0. ex[e] \in ExecState /\ Local(ex[e])
    BY ExecFact
  <1>1. CASE Ask(e)
    <2> DEFINE y == [ex[e] EXCEPT !.phase = "asking", !.el = 0]
    <2>1. SetExec(e, y) /\ UNCHANGED <<lease, lock, owner, zombie>>
      BY <1>1 DEF Ask
    <2>2. y \in ExecState
      BY <1>0, TimeFact DEF ExecState
    <2>3. /\ y.phase = "asking" /\ y.fence = ex[e].fence /\ y.el = 0 /\ y.dl = ex[e].dl
          /\ y.hb = ex[e].hb /\ y.hel = ex[e].hel /\ y.lost = ex[e].lost /\ y.quit = ex[e].quit
          /\ y.tx = ex[e].tx /\ y.tm = ex[e].tm /\ y.cli = ex[e].cli /\ y.until = ex[e].until
          /\ y.late = ex[e].late
      BY <1>0 DEF ExecState
    <2> HIDE DEF y
    <2>4. Local(y)
      BY <1>0, <1>1, <2>2, <2>3, TimeFact DEF Ask, ExecState, Local, Shape, Tracks, Beats, Reacts
    <2> QED
      BY <2>1, <2>2, <2>3, <2>4, QuietStep
  <1>2. CASE AcquireFails(e)
    <2> DEFINE y == [ex[e] EXCEPT !.phase = "end", !.el = 0]
    <2>1. SetExec(e, y) /\ UNCHANGED <<lease, lock, owner, zombie>>
      BY <1>2 DEF AcquireFails
    <2>2. y \in ExecState
      BY <1>0, TimeFact DEF ExecState
    <2>3. /\ y.phase = "end" /\ y.fence = ex[e].fence /\ y.el = 0 /\ y.dl = ex[e].dl
          /\ y.hb = ex[e].hb /\ y.hel = ex[e].hel /\ y.lost = ex[e].lost /\ y.quit = ex[e].quit
          /\ y.tx = ex[e].tx /\ y.tm = ex[e].tm /\ y.cli = ex[e].cli /\ y.until = ex[e].until
          /\ y.late = ex[e].late
      BY <1>0 DEF ExecState
    <2> HIDE DEF y
    <2>4. Local(y)
      BY <1>0, <1>2, <2>2, <2>3, TimeFact DEF AcquireFails, ExecState, Local, Shape, Tracks, Beats, Reacts
    <2> QED
      BY <2>1, <2>2, <2>3, <2>4, QuietStep
  <1> QED
    BY <1>1, <1>2

(* Entering session_lock keeps the invariant: the reply was at most Delay  *)
(* late.                                                                   *)
LEMMA EnterInv ==
  ASSUME LeaseInv, NEW e \in Exec, Enter(e)
  PROVE  LeaseInv'
  <1>0. ex[e] \in ExecState /\ Local(ex[e])
    BY ExecFact
  <1>1. CASE Enter(e)
    <2> DEFINE y == [ex[e] EXCEPT !.phase = "prep", !.el = 0, !.dl = Ttl, !.hb = "sleep", !.hel = 0]
    <2>1. SetExec(e, y) /\ UNCHANGED <<lease, lock, owner, zombie>>
      BY <1>1 DEF Enter
    <2>2. y \in ExecState
      BY <1>0, TimeFact DEF ExecState
    <2>3. /\ y.phase = "prep" /\ y.fence = ex[e].fence /\ y.el = 0 /\ y.dl = Ttl
          /\ y.hb = "sleep" /\ y.hel = 0 /\ y.lost = ex[e].lost /\ y.quit = ex[e].quit
          /\ y.tx = ex[e].tx /\ y.tm = ex[e].tm /\ y.cli = ex[e].cli /\ y.until = ex[e].until
          /\ y.late = ex[e].late
      BY <1>0 DEF ExecState
    <2> HIDE DEF y
    <2>4. Local(y)
      BY <1>0, <1>1, <2>2, <2>3, TimeFact DEF Enter, ExecState, Local, Shape, Tracks, Beats, Reacts
    <2> QED
      BY <2>1, <2>2, <2>3, <2>4, QuietStep
  <1> QED
    BY <1>1

(* The local steps of the heartbeat keep the invariant.                    *)
LEMMA BeatInv ==
  ASSUME LeaseInv, NEW e \in Exec, StartRenew(e) \/ RenewOk(e) \/ RenewRefused(e) \/ RenewFails(e)
  PROVE  LeaseInv'
  <1>00. ex[e] \in ExecState /\ Local(ex[e])
    BY ExecFact
  <1>0. ex[e] \in ExecState /\ Local(ex[e]) /\ Ttl - ex[e].hel \in Int
    BY <1>00, TimeFact DEF ExecState
  <1>1. CASE StartRenew(e)
    <2> DEFINE y == [ex[e] EXCEPT !.hb = "ask", !.hel = 0]
    <2>1. SetExec(e, y) /\ UNCHANGED <<lease, lock, owner, zombie>>
      BY <1>1 DEF StartRenew
    <2>2. y \in ExecState
      BY <1>0, TimeFact DEF ExecState
    <2>3. /\ y.phase = ex[e].phase /\ y.fence = ex[e].fence /\ y.el = ex[e].el /\ y.dl = ex[e].dl
          /\ y.hb = "ask" /\ y.hel = 0 /\ y.lost = ex[e].lost /\ y.quit = ex[e].quit
          /\ y.tx = ex[e].tx /\ y.tm = ex[e].tm /\ y.cli = ex[e].cli /\ y.until = ex[e].until
          /\ y.late = ex[e].late
      BY <1>0 DEF ExecState
    <2> HIDE DEF y
    <2>4. Local(y)
      BY <1>0, <1>1, <2>2, <2>3, TimeFact DEF StartRenew, ExecState, Local, Shape, Tracks, Beats, Reacts
    <2> QED
      BY <2>1, <2>2, <2>3, <2>4, QuietStep
  <1>2. CASE RenewOk(e) /\ Ttl - ex[e].hel <= 0
    <2> DEFINE y == [ex[e] EXCEPT !.dl = Ttl - ex[e].hel, !.hel = 0, !.lost = TRUE, !.hb = "off"]
    <2>0. (Ttl - ex[e].hel <= 0) = TRUE
      BY <1>2
    <2>1. SetExec(e, y) /\ UNCHANGED <<lease, lock, owner, zombie>>
      BY <2>0, <1>2 DEF RenewOk, Rested, NewDeadline
    <2>2. y \in ExecState
      BY <1>0, TimeFact DEF ExecState
    <2>3. /\ y.phase = ex[e].phase /\ y.fence = ex[e].fence /\ y.el = ex[e].el /\ y.dl = Ttl - ex[e].hel
          /\ y.hb = "off" /\ y.hel = 0 /\ y.lost = TRUE /\ y.quit = ex[e].quit
          /\ y.tx = ex[e].tx /\ y.tm = ex[e].tm /\ y.cli = ex[e].cli /\ y.until = ex[e].until
          /\ y.late = ex[e].late
      BY <1>0 DEF ExecState
    <2> HIDE DEF y
    <2>4. Local(y)
      BY <1>0, <1>2, <2>2, <2>3, TimeFact DEF RenewOk, ExecState, Local, Shape, Tracks, Beats, Reacts
    <2> QED
      BY <2>1, <2>2, <2>3, <2>4, QuietStep
  <1>3. CASE RenewOk(e) /\ ~(Ttl - ex[e].hel <= 0)
    <2> DEFINE y == [ex[e] EXCEPT !.dl = Ttl - ex[e].hel, !.hel = 0, !.lost = FALSE, !.hb = "sleep"]
    <2>0. (Ttl - ex[e].hel <= 0) = FALSE
      BY <1>3
    <2>1. SetExec(e, y) /\ UNCHANGED <<lease, lock, owner, zombie>>
      BY <2>0, <1>3 DEF RenewOk, Rested, NewDeadline
    <2>2. y \in ExecState
      BY <1>0, TimeFact DEF ExecState
    <2>3. /\ y.phase = ex[e].phase /\ y.fence = ex[e].fence /\ y.el = ex[e].el /\ y.dl = Ttl - ex[e].hel
          /\ y.hb = "sleep" /\ y.hel = 0 /\ y.lost = FALSE /\ y.quit = ex[e].quit
          /\ y.tx = ex[e].tx /\ y.tm = ex[e].tm /\ y.cli = ex[e].cli /\ y.until = ex[e].until
          /\ y.late = ex[e].late
      BY <1>0 DEF ExecState
    <2> HIDE DEF y
    <2>4. Local(y)
      BY <1>0, <1>3, <2>2, <2>3, TimeFact DEF RenewOk, ExecState, Local, Shape, Tracks, Beats, Reacts
    <2> QED
      BY <2>1, <2>2, <2>3, <2>4, QuietStep
  <1>4. CASE RenewRefused(e)
    <2> DEFINE y == [ex[e] EXCEPT !.hb = "off", !.hel = 0, !.lost = TRUE]
    <2>1. SetExec(e, y) /\ UNCHANGED <<lease, lock, owner, zombie>>
      BY <1>4 DEF RenewRefused
    <2>2. y \in ExecState
      BY <1>0, TimeFact DEF ExecState
    <2>3. /\ y.phase = ex[e].phase /\ y.fence = ex[e].fence /\ y.el = ex[e].el /\ y.dl = ex[e].dl
          /\ y.hb = "off" /\ y.hel = 0 /\ y.lost = TRUE /\ y.quit = ex[e].quit
          /\ y.tx = ex[e].tx /\ y.tm = ex[e].tm /\ y.cli = ex[e].cli /\ y.until = ex[e].until
          /\ y.late = ex[e].late
      BY <1>0 DEF ExecState
    <2> HIDE DEF y
    <2>4. Local(y)
      BY <1>0, <1>4, <2>2, <2>3, TimeFact DEF RenewRefused, ExecState, Local, Shape, Tracks, Beats, Reacts
    <2> QED
      BY <2>1, <2>2, <2>3, <2>4, QuietStep
  <1>5. CASE RenewFails(e) /\ ex[e].dl <= 0
    <2> DEFINE y == [ex[e] EXCEPT !.dl = ex[e].dl, !.hel = 0, !.lost = TRUE, !.hb = "off", !.late = (ex[e].late \/ ex[e].hb = "ask")]
    <2>0. (ex[e].dl <= 0) = TRUE
      BY <1>5
    <2>1. SetExec(e, y) /\ UNCHANGED <<lease, lock, owner, zombie>>
      BY <2>0, <1>5 DEF RenewFails, Rested
    <2>2. y \in ExecState
      BY <1>0, TimeFact DEF ExecState
    <2>3. /\ y.phase = ex[e].phase /\ y.fence = ex[e].fence /\ y.el = ex[e].el /\ y.dl = ex[e].dl
          /\ y.hb = "off" /\ y.hel = 0 /\ y.lost = TRUE /\ y.quit = ex[e].quit
          /\ y.tx = ex[e].tx /\ y.tm = ex[e].tm /\ y.cli = ex[e].cli /\ y.until = ex[e].until
          /\ y.late = (ex[e].late \/ ex[e].hb = "ask")
      BY <1>0 DEF ExecState
    <2> HIDE DEF y
    <2>4. Local(y)
      BY <1>0, <1>5, <2>2, <2>3, TimeFact DEF RenewFails, ExecState, Local, Shape, Tracks, Beats, Reacts
    <2> QED
      BY <2>1, <2>2, <2>3, <2>4, QuietStep
  <1>6. CASE RenewFails(e) /\ ~(ex[e].dl <= 0)
    <2> DEFINE y == [ex[e] EXCEPT !.dl = ex[e].dl, !.hel = 0, !.lost = FALSE, !.hb = "sleep", !.late = (ex[e].late \/ ex[e].hb = "ask")]
    <2>0. (ex[e].dl <= 0) = FALSE
      BY <1>6
    <2>1. SetExec(e, y) /\ UNCHANGED <<lease, lock, owner, zombie>>
      BY <2>0, <1>6 DEF RenewFails, Rested
    <2>2. y \in ExecState
      BY <1>0, TimeFact DEF ExecState
    <2>3. /\ y.phase = ex[e].phase /\ y.fence = ex[e].fence /\ y.el = ex[e].el /\ y.dl = ex[e].dl
          /\ y.hb = "sleep" /\ y.hel = 0 /\ y.lost = FALSE /\ y.quit = ex[e].quit
          /\ y.tx = ex[e].tx /\ y.tm = ex[e].tm /\ y.cli = ex[e].cli /\ y.until = ex[e].until
          /\ y.late = (ex[e].late \/ ex[e].hb = "ask")
      BY <1>0 DEF ExecState
    <2> HIDE DEF y
    <2>4. Local(y)
      BY <1>0, <1>6, <2>2, <2>3, TimeFact DEF RenewFails, ExecState, Local, Shape, Tracks, Beats, Reacts
    <2> QED
      BY <2>1, <2>2, <2>3, <2>4, QuietStep
  <1> QED
    BY <1>1, <1>2, <1>3, <1>4, <1>5, <1>6

(* The steps of the streaming loop outside a transaction keep the          *)
(* invariant.                                                              *)
LEMMA DriveInv ==
  ASSUME LeaseInv, NEW e \in Exec, StartCli(e) \/ StartWrite(e) \/ SeeLost(e) \/ StopCli(e) \/ Close(e)
  PROVE  LeaseInv'
  <1>0. ex[e] \in ExecState /\ Local(ex[e])
    BY ExecFact
  <1>1. CASE StartCli(e) /\ ex[e].lost
    <2> DEFINE y == [ex[e] EXCEPT !.phase = "stop", !.quit = TRUE, !.tm = 0]
    <2>1. SetExec(e, y) /\ UNCHANGED <<lease, lock, owner, zombie>>
      BY <1>1 DEF StartCli
    <2>2. y \in ExecState
      BY <1>0, TimeFact DEF ExecState
    <2>3. /\ y.phase = "stop" /\ y.fence = ex[e].fence /\ y.el = ex[e].el /\ y.dl = ex[e].dl
          /\ y.hb = ex[e].hb /\ y.hel = ex[e].hel /\ y.lost = ex[e].lost /\ y.quit = TRUE
          /\ y.tx = ex[e].tx /\ y.tm = 0 /\ y.cli = ex[e].cli /\ y.until = ex[e].until
          /\ y.late = ex[e].late
      BY <1>0 DEF ExecState
    <2> HIDE DEF y
    <2>4. Local(y)
      BY <1>0, <1>1, <2>2, <2>3, TimeFact DEF StartCli, ExecState, Local, Shape, Tracks, Beats, Reacts
    <2> QED
      BY <2>1, <2>2, <2>3, <2>4, QuietStep
  <1>2. CASE StartCli(e) /\ ~ex[e].lost
    <2> DEFINE y == [ex[e] EXCEPT !.phase = "drive", !.cli = TRUE, !.tm = 0]
    <2>1. SetExec(e, y) /\ UNCHANGED <<lease, lock, owner, zombie>>
      BY <1>2 DEF StartCli
    <2>2. y \in ExecState
      BY <1>0, TimeFact DEF ExecState
    <2>3. /\ y.phase = "drive" /\ y.fence = ex[e].fence /\ y.el = ex[e].el /\ y.dl = ex[e].dl
          /\ y.hb = ex[e].hb /\ y.hel = ex[e].hel /\ y.lost = ex[e].lost /\ y.quit = ex[e].quit
          /\ y.tx = ex[e].tx /\ y.tm = 0 /\ y.cli = TRUE /\ y.until = ex[e].until
          /\ y.late = ex[e].late
      BY <1>0 DEF ExecState
    <2> HIDE DEF y
    <2>4. Local(y)
      BY <1>0, <1>2, <2>2, <2>3, TimeFact DEF StartCli, ExecState, Local, Shape, Tracks, Beats, Reacts
    <2> QED
      BY <2>1, <2>2, <2>3, <2>4, QuietStep
  <1>3. CASE StartWrite(e)
    <2> DEFINE y == [ex[e] EXCEPT !.tx = "sent", !.tm = 0]
    <2>1. SetExec(e, y) /\ UNCHANGED <<lease, lock, owner, zombie>>
      BY <1>3 DEF StartWrite
    <2>2. y \in ExecState
      BY <1>0, TimeFact DEF ExecState
    <2>3. /\ y.phase = ex[e].phase /\ y.fence = ex[e].fence /\ y.el = ex[e].el /\ y.dl = ex[e].dl
          /\ y.hb = ex[e].hb /\ y.hel = ex[e].hel /\ y.lost = ex[e].lost /\ y.quit = ex[e].quit
          /\ y.tx = "sent" /\ y.tm = 0 /\ y.cli = ex[e].cli /\ y.until = ex[e].until
          /\ y.late = ex[e].late
      BY <1>0 DEF ExecState
    <2> HIDE DEF y
    <2>4. Local(y)
      BY <1>0, <1>3, <2>2, <2>3, TimeFact DEF StartWrite, ExecState, Local, Shape, Tracks, Beats, Reacts
    <2> QED
      BY <2>1, <2>2, <2>3, <2>4, QuietStep
  <1>4. CASE SeeLost(e)
    <2> DEFINE y == [ex[e] EXCEPT !.phase = "stop", !.quit = TRUE, !.tm = 0, !.tx = "none"]
    <2>1. SetExec(e, y) /\ UNCHANGED <<lease, lock, owner, zombie>>
      BY <1>4 DEF SeeLost, GiveUp
    <2>2. y \in ExecState
      BY <1>0, TimeFact DEF ExecState
    <2>3. /\ y.phase = "stop" /\ y.fence = ex[e].fence /\ y.el = ex[e].el /\ y.dl = ex[e].dl
          /\ y.hb = ex[e].hb /\ y.hel = ex[e].hel /\ y.lost = ex[e].lost /\ y.quit = TRUE
          /\ y.tx = "none" /\ y.tm = 0 /\ y.cli = ex[e].cli /\ y.until = ex[e].until
          /\ y.late = ex[e].late
      BY <1>0 DEF ExecState
    <2> HIDE DEF y
    <2>4. Local(y)
      BY <1>0, <1>4, <2>2, <2>3, TimeFact DEF SeeLost, ExecState, Local, Shape, Tracks, Beats, Reacts
    <2> QED
      BY <2>1, <2>2, <2>3, <2>4, QuietStep
  <1>5. CASE StopCli(e)
    <2> DEFINE y == [ex[e] EXCEPT !.phase = "close", !.cli = FALSE, !.tm = 0]
    <2>1. SetExec(e, y) /\ UNCHANGED <<lease, lock, owner, zombie>>
      BY <1>5 DEF StopCli
    <2>2. y \in ExecState
      BY <1>0, TimeFact DEF ExecState
    <2>3. /\ y.phase = "close" /\ y.fence = ex[e].fence /\ y.el = ex[e].el /\ y.dl = ex[e].dl
          /\ y.hb = ex[e].hb /\ y.hel = ex[e].hel /\ y.lost = ex[e].lost /\ y.quit = ex[e].quit
          /\ y.tx = ex[e].tx /\ y.tm = 0 /\ y.cli = FALSE /\ y.until = ex[e].until
          /\ y.late = ex[e].late
      BY <1>0 DEF ExecState
    <2> HIDE DEF y
    <2>4. Local(y)
      BY <1>0, <1>5, <2>2, <2>3, TimeFact DEF StopCli, ExecState, Local, Shape, Tracks, Beats, Reacts
    <2> QED
      BY <2>1, <2>2, <2>3, <2>4, QuietStep
  <1>6. CASE Close(e)
    <2> DEFINE y == [ex[e] EXCEPT !.phase = "release", !.tm = 0, !.hb = "off", !.hel = 0, !.late = (ex[e].late \/ ex[e].hb = "ask")]
    <2>1. SetExec(e, y) /\ UNCHANGED <<lease, lock, owner, zombie>>
      BY <1>6 DEF Close, LeaveLock
    <2>2. y \in ExecState
      BY <1>0, TimeFact DEF ExecState
    <2>3. /\ y.phase = "release" /\ y.fence = ex[e].fence /\ y.el = ex[e].el /\ y.dl = ex[e].dl
          /\ y.hb = "off" /\ y.hel = 0 /\ y.lost = ex[e].lost /\ y.quit = ex[e].quit
          /\ y.tx = ex[e].tx /\ y.tm = 0 /\ y.cli = ex[e].cli /\ y.until = ex[e].until
          /\ y.late = (ex[e].late \/ ex[e].hb = "ask")
      BY <1>0 DEF ExecState
    <2> HIDE DEF y
    <2>4. Local(y)
      BY <1>0, <1>6, <2>2, <2>3, TimeFact DEF Close, ExecState, Local, Shape, Tracks, Beats, Reacts
    <2> QED
      BY <2>1, <2>2, <2>3, <2>4, QuietStep
  <1> QED
    BY <1>1, <1>2, <1>3, <1>4, <1>5, <1>6

(* The end of the stream keeps the invariant, whether the CLI is gone or   *)
(* is yet to be stopped.                                                   *)
LEMMA EndDriveInv == ASSUME LeaseInv, NEW e \in Exec, EndDrive(e) PROVE LeaseInv'
  <1>0. ex[e] \in ExecState /\ Local(ex[e]) /\ Fenced(e)
    BY ExecFact
  <1>1. ex[e].phase = "drive" /\ ex[e].tx = "none" /\ UNCHANGED <<lease, lock, owner, zombie>>
    BY DEF EndDrive
  <1>2. CASE SetExec(e, [ex[e] EXCEPT !.phase = "close", !.cli = FALSE, !.tm = 0])
    <2> DEFINE y == [ex[e] EXCEPT !.phase = "close", !.cli = FALSE, !.tm = 0]
    <2>a. y \in ExecState
      BY <1>0, TimeFact DEF ExecState
    <2>b. /\ y.phase = "close" /\ y.fence = ex[e].fence /\ y.el = ex[e].el /\ y.dl = ex[e].dl
          /\ y.hb = ex[e].hb /\ y.hel = ex[e].hel /\ y.lost = ex[e].lost /\ y.quit = ex[e].quit
          /\ y.tx = ex[e].tx /\ y.tm = 0 /\ y.cli = FALSE /\ y.until = ex[e].until
          /\ y.late = ex[e].late
      BY <1>0, TimeFact DEF ExecState
    <2> HIDE DEF y
    <2>c. Local(y)
      BY <1>0, <1>1, <2>a, <2>b, TimeFact DEF ExecState, Local, Shape, Tracks, Beats, Reacts
    <2>1. SetExec(e, y)
      BY <1>2 DEF y
    <2> QED
      BY <1>1, <2>1, <2>a, <2>b, <2>c, QuietStep
  <1>3. CASE SetExec(e, [ex[e] EXCEPT !.phase = "stop", !.tm = 0])
    <2> DEFINE y == [ex[e] EXCEPT !.phase = "stop", !.tm = 0]
    <2>a. y \in ExecState
      BY <1>0, TimeFact DEF ExecState
    <2>b. /\ y.phase = "stop" /\ y.fence = ex[e].fence /\ y.el = ex[e].el /\ y.dl = ex[e].dl
          /\ y.hb = ex[e].hb /\ y.hel = ex[e].hel /\ y.lost = ex[e].lost /\ y.quit = ex[e].quit
          /\ y.tx = ex[e].tx /\ y.tm = 0 /\ y.cli = ex[e].cli /\ y.until = ex[e].until
          /\ y.late = ex[e].late
      BY <1>0, TimeFact DEF ExecState
    <2> HIDE DEF y
    <2>c. Local(y)
      BY <1>0, <1>1, <2>a, <2>b, TimeFact DEF ExecState, Local, Shape, Tracks, Beats, Reacts
    <2>1. SetExec(e, y)
      BY <1>3 DEF y
    <2> QED
      BY <1>1, <2>1, <2>a, <2>b, <2>c, QuietStep
  <1> QED
    BY <1>2, <1>3 DEF EndDrive

(* A renewal at the database keeps the invariant: what it writes is        *)
(* counted from after the request started.                                 *)
LEMMA RenewDbInv == ASSUME LeaseInv, NEW e \in Exec, RenewDb(e) PROVE LeaseInv'
  <1>0. ex[e] \in ExecState /\ Local(ex[e]) /\ Fenced(e)
    BY ExecFact
  <1>1. ex[e].hb = "ask" /\ UNCHANGED <<lock, owner, zombie>>
    BY DEF RenewDb
  <1>2. CASE Current(e)
    <2>1. PICK d \in 0 .. ex[e].hel :
            /\ lease' = [lease EXCEPT !.left = Ttl - d]
            /\ SetExec(e, [ex[e] EXCEPT !.hb = "ok", !.until = Ttl - d])
      BY <1>2 DEF RenewDb
    <2>2. d \in Int /\ 0 <= d /\ d <= ex[e].hel /\ Ttl - d \in Int
      BY <1>0, TimeFact DEF ExecState
    <2> DEFINE y == [ex[e] EXCEPT !.hb = "ok", !.until = Ttl - d]
    <2>a. y \in ExecState
      BY <1>0, <2>2 DEF ExecState
    <2>b. /\ y.phase = ex[e].phase /\ y.fence = ex[e].fence /\ y.el = ex[e].el /\ y.dl = ex[e].dl
          /\ y.hb = "ok" /\ y.hel = ex[e].hel /\ y.lost = ex[e].lost /\ y.quit = ex[e].quit
          /\ y.tx = ex[e].tx /\ y.tm = ex[e].tm /\ y.cli = ex[e].cli /\ y.until = Ttl - d
          /\ y.late = ex[e].late
      BY <1>0, <2>2 DEF ExecState
    <2> HIDE DEF y
    <2>c. Local(y)
      BY <1>0, <1>1, <2>2, <2>a, <2>b, TimeFact DEF ExecState, Local, Shape, Tracks, Beats, Reacts
    <2>3. SetExec(e, y)
      BY <2>1 DEF y
    <2>4. /\ lease' \in [run : RunId \cup {NoExec}, fence : Nat, left : Int]
          /\ lease'.fence = lease.fence
      BY <2>1, <2>2, ExecFact
    <2>5. y.tx = "locked" => lock' = e /\ owner = e
      BY <1>0, <1>1, <2>b DEF Fenced
    <2>6. lock' = lock /\ owner' = owner /\ zombie' = FALSE
      BY <1>1, ExecFact
    <2> QED
      BY <2>3, <2>4, <2>5, <2>6, <2>a, <2>b, <2>c, OwnStep
  <1>3. CASE ~Current(e)
    <2> DEFINE y == [ex[e] EXCEPT !.hb = "no"]
    <2>a. y \in ExecState
      BY <1>0, TimeFact DEF ExecState
    <2>b. /\ y.phase = ex[e].phase /\ y.fence = ex[e].fence /\ y.el = ex[e].el /\ y.dl = ex[e].dl
          /\ y.hb = "no" /\ y.hel = ex[e].hel /\ y.lost = ex[e].lost /\ y.quit = ex[e].quit
          /\ y.tx = ex[e].tx /\ y.tm = ex[e].tm /\ y.cli = ex[e].cli /\ y.until = ex[e].until
          /\ y.late = ex[e].late
      BY <1>0, TimeFact DEF ExecState
    <2> HIDE DEF y
    <2>c. Local(y)
      BY <1>0, <1>1, <2>a, <2>b, TimeFact DEF ExecState, Local, Shape, Tracks, Beats, Reacts
    <2>1. SetExec(e, y) /\ UNCHANGED <<lease, lock, owner, zombie>>
      BY <1>3 DEF RenewDb, y
    <2> QED
      BY <2>1, <2>a, <2>b, <2>c, QuietStep
  <1> QED
    BY <1>2, <1>3

(* A renewal that reaches the database after it was given up keeps the     *)
(* invariant.                                                              *)
LEMMA LateRenewInv == ASSUME LeaseInv, NEW e \in Exec, LateRenew(e) PROVE LeaseInv'
  <1>0. ex[e] \in ExecState /\ Local(ex[e]) /\ Fenced(e)
    BY ExecFact
  <1>1. UNCHANGED <<lock, owner, zombie>>
    BY DEF LateRenew
  <1>2. CASE Current(e)
    <2> DEFINE y == [ex[e] EXCEPT !.late = FALSE, !.until = Ttl]
    <2>a. y \in ExecState
      BY <1>0, TimeFact DEF ExecState
    <2>b. /\ y.phase = ex[e].phase /\ y.fence = ex[e].fence /\ y.el = ex[e].el /\ y.dl = ex[e].dl
          /\ y.hb = ex[e].hb /\ y.hel = ex[e].hel /\ y.lost = ex[e].lost /\ y.quit = ex[e].quit
          /\ y.tx = ex[e].tx /\ y.tm = ex[e].tm /\ y.cli = ex[e].cli /\ y.until = Ttl
          /\ y.late = FALSE
      BY <1>0, TimeFact DEF ExecState
    <2> HIDE DEF y
    <2>c. Local(y)
      BY <1>0, <2>a, <2>b, TimeFact DEF ExecState, Local, Shape, Tracks, Beats, Reacts
    <2>3. SetExec(e, y) /\ lease' = [lease EXCEPT !.left = Ttl]
      BY <1>2 DEF LateRenew, y
    <2>4. /\ lease' \in [run : RunId \cup {NoExec}, fence : Nat, left : Int]
          /\ lease'.fence = lease.fence
      BY <2>3, TimeFact, ExecFact
    <2>5. y.tx = "locked" => lock' = e /\ owner = e
      BY <1>0, <1>1, <2>b DEF Fenced
    <2>6. lock' = lock /\ owner' = owner /\ zombie' = FALSE
      BY <1>1, ExecFact
    <2> QED
      BY <2>3, <2>4, <2>5, <2>6, <2>a, <2>b, <2>c, OwnStep
  <1>3. CASE ~Current(e)
    <2> DEFINE y == [ex[e] EXCEPT !.late = FALSE]
    <2>a. y \in ExecState
      BY <1>0, TimeFact DEF ExecState
    <2>b. /\ y.phase = ex[e].phase /\ y.fence = ex[e].fence /\ y.el = ex[e].el /\ y.dl = ex[e].dl
          /\ y.hb = ex[e].hb /\ y.hel = ex[e].hel /\ y.lost = ex[e].lost /\ y.quit = ex[e].quit
          /\ y.tx = ex[e].tx /\ y.tm = ex[e].tm /\ y.cli = ex[e].cli /\ y.until = ex[e].until
          /\ y.late = FALSE
      BY <1>0, TimeFact DEF ExecState
    <2> HIDE DEF y
    <2>c. Local(y)
      BY <1>0, <2>a, <2>b, TimeFact DEF ExecState, Local, Shape, Tracks, Beats, Reacts
    <2>1. SetExec(e, y) /\ UNCHANGED <<lease, lock, owner, zombie>>
      BY <1>3 DEF LateRenew, y
    <2> QED
      BY <2>1, <2>a, <2>b, <2>c, QuietStep
  <1> QED
    BY <1>2, <1>3

(* Giving up inside or outside a transaction leads to a state that         *)
(* satisfies the local invariant.                                          *)
LEMMA GiveUpFact ==
  ASSUME NEW e \in Exec, ex[e] \in ExecState, Local(ex[e]), ex[e].tx # "none"
  PROVE  /\ GiveUp(ex[e]) \in ExecState /\ Local(GiveUp(ex[e]))
         /\ GiveUp(ex[e]).fence = ex[e].fence /\ GiveUp(ex[e]).tx = "none"
  <1>1. CASE ex[e].phase = "drive"
    <2> DEFINE y == [ex[e] EXCEPT !.phase = "stop", !.quit = TRUE, !.tm = 0, !.tx = "none"]
    <2>a. y \in ExecState
      BY TimeFact DEF ExecState
    <2>b. /\ y.phase = "stop" /\ y.fence = ex[e].fence /\ y.el = ex[e].el /\ y.dl = ex[e].dl
          /\ y.hb = ex[e].hb /\ y.hel = ex[e].hel /\ y.lost = ex[e].lost /\ y.quit = TRUE
          /\ y.tx = "none" /\ y.tm = 0 /\ y.cli = ex[e].cli /\ y.until = ex[e].until
          /\ y.late = ex[e].late
      BY TimeFact DEF ExecState
    <2> HIDE DEF y
    <2>c. Local(y)
      BY <1>1, <2>a, <2>b, TimeFact DEF ExecState, Local, Shape, Tracks, Beats, Reacts
    <2>1. GiveUp(ex[e]) = y
      BY <1>1 DEF GiveUp, y
    <2> QED
      BY <2>1, <2>a, <2>b, <2>c
  <1>2. CASE ex[e].phase # "drive"
    <2> DEFINE y == [ex[e] EXCEPT !.phase = "close", !.quit = TRUE, !.tm = 0, !.tx = "none"]
    <2>a. y \in ExecState
      BY TimeFact DEF ExecState
    <2>b. /\ y.phase = "close" /\ y.fence = ex[e].fence /\ y.el = ex[e].el /\ y.dl = ex[e].dl
          /\ y.hb = ex[e].hb /\ y.hel = ex[e].hel /\ y.lost = ex[e].lost /\ y.quit = TRUE
          /\ y.tx = "none" /\ y.tm = 0 /\ y.cli = ex[e].cli /\ y.until = ex[e].until
          /\ y.late = ex[e].late
      BY TimeFact DEF ExecState
    <2> HIDE DEF y
    <2>c. Local(y)
      BY <1>2, <2>a, <2>b, TimeFact DEF ExecState, Local, Shape, Tracks, Beats, Reacts
    <2>1. GiveUp(ex[e]) = y
      BY <1>2 DEF GiveUp, y
    <2> QED
      BY <2>1, <2>a, <2>b, <2>c
  <1> QED
    BY <1>1, <1>2

(* check_fence keeps the invariant: a token equal to the row's is the      *)
(* owner's.                                                                *)
LEMMA CheckFenceInv == ASSUME LeaseInv, NEW e \in Exec, CheckFence(e) PROVE LeaseInv'
  <1>0. ex[e] \in ExecState /\ Local(ex[e]) /\ Fenced(e)
    BY ExecFact
  <1>1. ex[e].tx = "sent" /\ lock = NoExec /\ UNCHANGED <<lease, owner, zombie>>
    BY DEF CheckFence
  <1>2. CASE Current(e)
    <2> DEFINE y == [ex[e] EXCEPT !.tx = "locked"]
    <2>a. y \in ExecState
      BY <1>0, TimeFact DEF ExecState
    <2>b. /\ y.phase = ex[e].phase /\ y.fence = ex[e].fence /\ y.el = ex[e].el /\ y.dl = ex[e].dl
          /\ y.hb = ex[e].hb /\ y.hel = ex[e].hel /\ y.lost = ex[e].lost /\ y.quit = ex[e].quit
          /\ y.tx = "locked" /\ y.tm = ex[e].tm /\ y.cli = ex[e].cli /\ y.until = ex[e].until
          /\ y.late = ex[e].late
      BY <1>0, TimeFact DEF ExecState
    <2> HIDE DEF y
    <2>c. Local(y)
      BY <1>0, <1>1, <2>a, <2>b, TimeFact DEF ExecState, Local, Shape, Tracks, Beats, Reacts
    <2>1. SetExec(e, y) /\ lock' = e
      BY <1>2 DEF CheckFence, Locked, y
    <2>2. owner = e
      BY <1>0, <1>1, <1>2 DEF Current, Fenced, Local, Shape
    <2>3. lease' = lease /\ owner' = owner /\ zombie' = FALSE
      BY <1>1, ExecFact
    <2> QED
      BY <1>1, <2>1, <2>2, <2>3, <2>a, <2>b, <2>c, ExecFact, OwnStep
  <1>3. CASE ~Current(e)
    <2>1. SetExec(e, GiveUp(ex[e])) /\ UNCHANGED <<lease, lock, owner, zombie>>
      BY <1>1, <1>3 DEF CheckFence
    <2>2. /\ GiveUp(ex[e]) \in ExecState /\ Local(GiveUp(ex[e]))
          /\ GiveUp(ex[e]).fence = ex[e].fence /\ GiveUp(ex[e]).tx = "none"
      BY <1>0, <1>1, GiveUpFact
    <2> QED
      BY <2>1, <2>2, QuietStep
  <1> QED
    BY <1>2, <1>3

(* Releasing the row lock never takes another transaction's lock away.     *)
LEMMA UnlockStep ==
  ASSUME LeaseInv, NEW e \in Exec, NEW y \in ExecState, SetExec(e, y), Local(y), Unlock(e),
         UNCHANGED <<lease, owner>>, zombie' = FALSE, y.fence = ex[e].fence, y.tx = "none"
  PROVE  LeaseInv'
  <1>1. lock' \in {lock, NoExec} /\ (lock' # lock => lock = e)
    BY DEF Unlock
  <1>2. lease' = lease /\ owner' = owner
    OBVIOUS
  <1> QED
    BY <1>1, <1>2, ExecFact, OwnStep

(* A commit keeps the invariant: the row lock kept the owner in place.     *)
LEMMA CommitInv == ASSUME LeaseInv, NEW e \in Exec, Commit(e) PROVE LeaseInv'
  <1>0. ex[e] \in ExecState /\ Local(ex[e]) /\ Fenced(e)
    BY ExecFact
  <1>1. ex[e].tx = "locked" /\ Unlock(e) /\ UNCHANGED <<lease, owner>>
    BY DEF Commit
  <1>2. zombie' = FALSE
    BY <1>0, <1>1, ExecFact DEF Commit, Fenced
  <1>3. CASE ex[e].phase = "drive" /\ ex[e].lost
    <2>1. SetExec(e, GiveUp(ex[e]))
      BY <1>3 DEF Commit
    <2>2. /\ GiveUp(ex[e]) \in ExecState /\ Local(GiveUp(ex[e]))
          /\ GiveUp(ex[e]).fence = ex[e].fence /\ GiveUp(ex[e]).tx = "none"
      BY <1>0, <1>1, GiveUpFact
    <2> QED
      BY <1>1, <1>2, <2>1, <2>2, UnlockStep
  <1>4. CASE ~(ex[e].phase = "drive" /\ ex[e].lost)
    <2> DEFINE y == [ex[e] EXCEPT !.tx = "none", !.tm = 0]
    <2>a. y \in ExecState
      BY <1>0, TimeFact DEF ExecState
    <2>b. /\ y.phase = ex[e].phase /\ y.fence = ex[e].fence /\ y.el = ex[e].el /\ y.dl = ex[e].dl
          /\ y.hb = ex[e].hb /\ y.hel = ex[e].hel /\ y.lost = ex[e].lost /\ y.quit = ex[e].quit
          /\ y.tx = "none" /\ y.tm = 0 /\ y.cli = ex[e].cli /\ y.until = ex[e].until
          /\ y.late = ex[e].late
      BY <1>0, TimeFact DEF ExecState
    <2> HIDE DEF y
    <2>c. Local(y)
      BY <1>0, <1>1, <1>4, <2>a, <2>b, TimeFact DEF ExecState, Local, Shape, Tracks, Beats, Reacts
    <2>1. SetExec(e, y)
      BY <1>4 DEF Commit, y
    <2> QED
      BY <1>1, <1>2, <2>1, <2>a, <2>b, <2>c, UnlockStep
  <1> QED
    BY <1>3, <1>4

(* A failed write keeps the invariant.                                     *)
LEMMA WriteFailsInv == ASSUME LeaseInv, NEW e \in Exec, WriteFails(e) PROVE LeaseInv'
  <1>0. ex[e] \in ExecState /\ Local(ex[e]) /\ Fenced(e)
    BY ExecFact
  <1>1. /\ GiveUp(ex[e]) \in ExecState /\ Local(GiveUp(ex[e]))
        /\ GiveUp(ex[e]).fence = ex[e].fence /\ GiveUp(ex[e]).tx = "none"
    BY <1>0, GiveUpFact DEF WriteFails
  <1> QED
    BY <1>1, UnlockStep, ExecFact DEF WriteFails

(* Releasing keeps the invariant: the fence survives.                      *)
LEMMA ReleaseInv == ASSUME LeaseInv, NEW e \in Exec, Release(e) PROVE LeaseInv'
  <1>0. ex[e] \in ExecState /\ Local(ex[e]) /\ Fenced(e)
    BY ExecFact
  <1>1. ex[e].phase = "release" /\ UNCHANGED <<lock, owner, zombie>>
    BY DEF Release
  <1>2. /\ lease' \in [run : RunId \cup {NoExec}, fence : Nat, left : Int]
        /\ lease'.fence = lease.fence
    <2>1. Floor \in Int
      BY TimeFact DEF Floor, Overrun
    <2> QED
      BY <2>1, ExecFact DEF Release
  <1> DEFINE y == [ex[e] EXCEPT !.phase = "end"]
  <1>a. y \in ExecState
    BY <1>0, TimeFact DEF ExecState
  <1>b. /\ y.phase = "end" /\ y.fence = ex[e].fence /\ y.el = ex[e].el /\ y.dl = ex[e].dl
        /\ y.hb = ex[e].hb /\ y.hel = ex[e].hel /\ y.lost = ex[e].lost /\ y.quit = ex[e].quit
        /\ y.tx = ex[e].tx /\ y.tm = ex[e].tm /\ y.cli = ex[e].cli /\ y.until = ex[e].until
        /\ y.late = ex[e].late
    BY <1>0, TimeFact DEF ExecState
  <1> HIDE DEF y
  <1>c. Local(y)
    BY <1>0, <1>1, <1>a, <1>b, TimeFact DEF ExecState, Local, Shape, Tracks, Beats, Reacts
  <1>3. SetExec(e, y)
    BY DEF Release, y
  <1>4. y.tx = "locked" => lock' = e /\ owner = e
    BY <1>0, <1>1, <1>b DEF Fenced
  <1>5. lock' = lock /\ owner' = owner /\ zombie' = FALSE
    BY <1>1, ExecFact
  <1> QED
    BY <1>2, <1>3, <1>4, <1>5, <1>a, <1>b, <1>c, OwnStep

(* A crash keeps the invariant.                                            *)
LEMMA CrashInv == ASSUME LeaseInv, NEW e \in Exec, Crash(e) PROVE LeaseInv'
  <1>0. ex[e] \in ExecState /\ Local(ex[e]) /\ Fenced(e)
    BY ExecFact
  <1> DEFINE y == [Fresh EXCEPT !.phase = "end", !.fence = ex[e].fence]
  <1>1. y \in ExecState /\ y.fence = ex[e].fence /\ y.tx = "none"
    BY <1>0, FreshFact DEF ExecState, Fresh
  <1>2. Local(y)
    BY <1>0, TimeFact DEF Fresh, Local, Shape, Tracks, Beats, Reacts
  <1>3. SetExec(e, y)
    BY DEF Crash
  <1> HIDE DEF y
  <1> QED
    BY <1>1, <1>2, <1>3, ExecFact, UnlockStep DEF Crash

(* An acquisition keeps the invariant: it bumps the fence past every       *)
(* token, and no transaction holds the row.                                *)
LEMMA AcquireDbInv == ASSUME LeaseInv, NEW e \in Exec, AcquireDb(e) PROVE LeaseInv'
  <1>0. ex[e] \in ExecState /\ Local(ex[e]) /\ Fenced(e)
    BY ExecFact
  <1>1. ex[e].phase = "asking" /\ lock = NoExec /\ UNCHANGED <<lock, zombie>>
    BY DEF AcquireDb
  <1>00. lease.fence \in Nat /\ lease.left \in Int
    BY DEF LeaseInv, TypeOK
  <1>2. PICK d \in 0 .. ex[e].el :
          \/ /\ lease.left + d < 0
             /\ lease' = [run |-> RunOf[e], fence |-> NextFence, left |-> Ttl - d]
             /\ owner' = e
             /\ SetExec(e, [ex[e] EXCEPT !.phase = "granted", !.fence = NextFence,
                                         !.until = Ttl - d])
          \/ /\ lease.left + d >= 0
             /\ SetExec(e, [ex[e] EXCEPT !.phase = "idle", !.el = 0])
             /\ UNCHANGED <<lease, owner>>
    BY DEF AcquireDb
  <1>3. d \in Int /\ 0 <= d /\ d <= ex[e].el /\ Ttl - d \in Int
    BY <1>0, TimeFact DEF ExecState
  <1>4. CASE lease.left + d < 0
    <2>0. NextFence = lease.fence + 1 /\ NextFence \in Nat /\ lease.fence \in Nat
      BY <1>00 DEF NextFence
    <2> DEFINE y == [ex[e] EXCEPT !.phase = "granted", !.fence = NextFence, !.until = Ttl - d]
    <2>a. y \in ExecState
      BY <1>0, <1>3, <2>0 DEF ExecState
    <2>b. /\ y.phase = "granted" /\ y.fence = NextFence /\ y.el = ex[e].el /\ y.dl = ex[e].dl
          /\ y.hb = ex[e].hb /\ y.hel = ex[e].hel /\ y.lost = ex[e].lost /\ y.quit = ex[e].quit
          /\ y.tx = ex[e].tx /\ y.tm = ex[e].tm /\ y.cli = ex[e].cli /\ y.until = Ttl - d
          /\ y.late = ex[e].late
      BY <1>0, <1>3, <2>0 DEF ExecState
    <2> HIDE DEF y
    <2>c. Local(y)
      BY <1>0, <1>1, <1>3, <2>0, <2>a, <2>b, TimeFact DEF ExecState, Local, Shape, Tracks, Beats, Reacts
    <2>1. /\ lease' = [run |-> RunOf[e], fence |-> NextFence, left |-> Ttl - d]
          /\ owner' = e /\ SetExec(e, y)
      <3>1. ~(lease.left + d >= 0)
        BY <1>3, <1>4, <1>00
      <3> QED
        BY <1>2, <3>1 DEF y
    <2>2. /\ ex' \in [Exec -> ExecState] /\ ex'[e] = y
          /\ \A f \in Exec : f # e => ex'[f] = ex[f]
      BY <2>1, <2>a DEF SetExec, LeaseInv, TypeOK
    <2>3. TypeOK' /\ ~zombie'
      BY <1>1, <1>3, <2>0, <2>1, <2>2, ExecFact DEF LeaseInv, TypeOK
    <2>4. ASSUME NEW f \in Exec PROVE Local(ex'[f]) /\ Fenced(f)'
      <3>1. ex[f] \in ExecState /\ Local(ex[f]) /\ Fenced(f)
        BY ExecFact
      <3>2. CASE f = e
        BY <3>2, <3>1, <1>1, <2>0, <2>1, <2>2, <2>b, <2>c DEF Fenced, Local, Shape
      <3>3. CASE f # e
        <4>1. ex[f].tx # "locked"
          BY <3>1, <1>1, ExecAssumption DEF Fenced
        <4>2. ex[f].fence < NextFence
          BY <3>1, <2>0 DEF Fenced, ExecState
        <4> QED
          BY <3>3, <3>1, <4>1, <4>2, <2>0, <2>1, <2>2 DEF Fenced, ExecState
      <3> QED
        BY <3>2, <3>3
    <2> QED
      BY <2>3, <2>4 DEF LeaseInv
  <1>5. CASE ~(lease.left + d < 0)
    <2> DEFINE y == [ex[e] EXCEPT !.phase = "idle", !.el = 0]
    <2>a. y \in ExecState
      BY <1>0, TimeFact DEF ExecState
    <2>b. /\ y.phase = "idle" /\ y.fence = ex[e].fence /\ y.el = 0 /\ y.dl = ex[e].dl
          /\ y.hb = ex[e].hb /\ y.hel = ex[e].hel /\ y.lost = ex[e].lost /\ y.quit = ex[e].quit
          /\ y.tx = ex[e].tx /\ y.tm = ex[e].tm /\ y.cli = ex[e].cli /\ y.until = ex[e].until
          /\ y.late = ex[e].late
      BY <1>0, TimeFact DEF ExecState
    <2> HIDE DEF y
    <2>c. Local(y)
      BY <1>0, <1>1, <2>a, <2>b, TimeFact DEF ExecState, Local, Shape, Tracks, Beats, Reacts
    <2>1. SetExec(e, y) /\ UNCHANGED <<lease, lock, owner, zombie>>
      BY <1>1, <1>2, <1>5 DEF y
    <2> QED
      BY <2>1, <2>a, <2>b, <2>c, QuietStep
  <1> QED
    BY <1>4, <1>5

(* One tick of every clock keeps an execution's local invariant, as long   *)
(* as nobody has outlived a timeout.                                       *)
LEMMA LaterFact ==
  ASSUME NEW x \in ExecState, Local(x), MayWait(x)
  PROVE  Later(x) \in ExecState /\ Local(Later(x)) /\ Later(x).fence = x.fence
         /\ Later(x).tx = x.tx
  <1>0. Floor \in Int /\ Floor = -(Delay + Beat + React + WriteTime + StopTime)
    BY TimeFact DEF Floor, Overrun
  <1> DEFINE y == Later(x)
  <1>1. y \in ExecState
    <2>1. Down(x.dl) \in Int /\ Down(x.until) \in Int
      BY <1>0 DEF Down, ExecState
    <2>2. x.el + 1 \in Nat /\ x.hel + 1 \in Nat /\ x.tm + 1 \in Nat
      BY DEF ExecState
    <2> DEFINE el == IF x.phase \in {"asking", "granted"} THEN x.el + 1 ELSE x.el
               hel == IF x.hb # "off" THEN x.hel + 1 ELSE x.hel
               tm == IF Timed(x) THEN x.tm + 1 ELSE x.tm
               dl == IF x.hb # "off" \/ x.cli THEN Down(x.dl) ELSE 0
               until == IF x.phase = "granted" \/ x.hb # "off" \/ x.cli
                          THEN Down(x.until) ELSE 0
    <2>3. el \in Nat /\ hel \in Nat /\ tm \in Nat
      BY <2>2 DEF ExecState
    <2>4. dl \in Int /\ until \in Int
      BY <2>1
    <2>5. y = [x EXCEPT !.el = el, !.hel = hel, !.tm = tm, !.dl = dl, !.until = until]
      BY DEF Later
    <2> HIDE DEF el, hel, tm, dl, until
    <2> QED
      BY <2>3, <2>4, <2>5 DEF ExecState
  <1>2. /\ y.phase = x.phase /\ y.fence = x.fence /\ y.hb = x.hb /\ y.lost = x.lost
        /\ y.quit = x.quit /\ y.tx = x.tx /\ y.cli = x.cli /\ y.late = x.late
    BY DEF Later, ExecState
  <1>3. /\ y.el = IF x.phase \in {"asking", "granted"} THEN x.el + 1 ELSE x.el
        /\ y.hel = IF x.hb # "off" THEN x.hel + 1 ELSE x.hel
        /\ y.tm = IF Timed(x) THEN x.tm + 1 ELSE x.tm
        /\ y.dl = IF x.hb # "off" \/ x.cli THEN Down(x.dl) ELSE 0
        /\ y.until = IF x.phase = "granted" \/ x.hb # "off" \/ x.cli THEN Down(x.until) ELSE 0
    BY DEF Later, ExecState
  <1> HIDE DEF y
  <1>4. Shape(y)
    BY <1>2 DEF Local, Shape
  <1>5. Beats(y)
    BY <1>0, <1>1, <1>2, <1>3, TimeFact DEF Local, Beats, Down, MayWait, ExecState
  <1>6. Reacts(y)
    BY <1>0, <1>1, <1>2, <1>3, TimeFact DEF Local, Reacts, Beats, Shape, Down, MayWait, Timed, ExecState
  <1>7. x.hb # "off" \/ x.cli => x.dl > Floor + Delay
    BY <1>0, TimeFact DEF Local, Shape, Beats, Reacts, MayWait, ExecState
  <1>8. Tracks(y)
    BY <1>0, <1>1, <1>2, <1>3, <1>7, TimeFact DEF Local, Tracks, Shape, Down, MayWait, ExecState
  <1> QED
    BY <1>1, <1>2, <1>4, <1>5, <1>6, <1>8 DEF Local, y

(* The passage of time keeps the invariant.                                *)
LEMMA TickInv == ASSUME LeaseInv, Tick PROVE LeaseInv'
  <1>1. /\ lease' = [lease EXCEPT !.left = Down(lease.left)]
        /\ ex' = [e \in Exec |-> Later(ex[e])] /\ UNCHANGED <<lock, owner, zombie>>
        /\ \A e \in Exec : MayWait(ex[e])
    BY DEF Tick
  <1>2. ASSUME NEW e \in Exec
        PROVE  /\ ex'[e] \in ExecState /\ Local(ex'[e])
               /\ ex'[e].fence = ex[e].fence /\ ex'[e].tx = ex[e].tx
    BY <1>1, ExecFact, LaterFact
  <1>3. lease' \in [run : RunId \cup {NoExec}, fence : Nat, left : Int] /\ lease'.fence = lease.fence
    <2>1. Floor \in Int
      BY TimeFact DEF Floor, Overrun
    <2>2. lease \in [run : RunId \cup {NoExec}, fence : Nat, left : Int]
      BY DEF LeaseInv, TypeOK
    <2> QED
      BY <1>1, <2>1, <2>2 DEF Down
  <1>4. ex' \in [Exec -> ExecState]
    BY <1>1, <1>2
  <1>5. TypeOK' /\ ~zombie'
    BY <1>1, <1>3, <1>4 DEF LeaseInv, TypeOK
  <1>6. ASSUME NEW e \in Exec PROVE Fenced(e)'
    BY <1>1, <1>2, <1>3, ExecFact DEF Fenced
  <1> QED
    BY <1>2, <1>5, <1>6 DEF LeaseInv

(* Any step, or none, keeps the invariant.                                 *)
LEMMA NextInv == ASSUME LeaseInv, [Next]_vars PROVE LeaseInv'
  <1>1. CASE Tick
    BY <1>1, TickInv
  <1>2. ASSUME NEW e \in Exec, Step(e) PROVE LeaseInv'
    BY <1>2, AskInv, AcquireDbInv, EnterInv, BeatInv, RenewDbInv, LateRenewInv, DriveInv,
       CheckFenceInv, CommitInv, WriteFailsInv, EndDriveInv, ReleaseInv, CrashInv DEF Step
  <1>3. CASE UNCHANGED vars
    BY <1>3 DEF vars, LeaseInv, TypeOK, Fenced
  <1> QED
    BY <1>1, <1>2, <1>3 DEF Next

(* The strengthened invariant holds of every reachable state of the lease  *)
(* and its runs.                                                           *)
THEOREM LeaseInvariance == Spec => []LeaseInv
  <1>1. Init => LeaseInv
    BY InitInv
  <1>2. LeaseInv /\ [Next]_vars => LeaseInv'
    BY NextInv
  <1> QED
    BY <1>1, <1>2, PTL DEF Spec

(* No displaced execution ever commits a write, whatever the clocks,       *)
(* delays and losses (check_fence).                                        *)
THEOREM ZombieFenced == Spec => []NoZombieWrite
  <1>1. LeaseInv => NoZombieWrite
    BY DEF LeaseInv, NoZombieWrite
  <1> QED
    BY <1>1, LeaseInvariance, PTL

(* A CLI outlives the lease it runs under by at most Overrun (_heartbeat,  *)
(* _stream, _stop_adapter).                                                *)
THEOREM OverrunBounded == Spec => []CliStopsInTime
  <1>1. LeaseInv => CliStopsInTime
    <2> SUFFICES ASSUME LeaseInv, NEW e \in Exec, ex[e].cli PROVE ex[e].until >= -Overrun
      BY DEF CliStopsInTime
    <2>1. ex[e] \in ExecState /\ Local(ex[e])
      BY ExecFact
    <2>2. ex[e].dl >= 1 - Beat - React - WriteTime - StopTime
      BY <2>1, TimeFact DEF Local, Shape, Beats, Reacts, ExecState
    <2>3. ex[e].dl <= ex[e].until + Delay
      BY <2>1 DEF Local, Tracks
    <2> QED
      BY <2>1, <2>2, <2>3, TimeFact DEF Overrun, ExecState
  <1> QED
    BY <1>1, LeaseInvariance, PTL
=============================================================================
