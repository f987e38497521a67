-------------------------- MODULE AgentTurnsProofs --------------------------
(***************************************************************************)
(* That the shared Codex login is refreshed for its age only by the run    *)
(* that holds the gate's lease, for every number of runs, every setting    *)
(* and behaviours of any length; that a worker hears the nudge of every    *)
(* new run that reaches it; that a CLI is gone, and its record whole, when *)
(* others count on it; and what the handoff of tool calls promises a       *)
(* client, for any limits on calls, retries, reminders and quota waits,    *)
(* however posts, expiries, cancels, lost leases and dying workers         *)
(* interleave with the turn.                                               *)
(***************************************************************************)
EXTENDS MCAgentTurns, SequenceTheorems, FiniteSetTheorems, TLAPS

RunState ==
  [pc : {"queued", "wait", "start", "refresh", "going"}, before : Nat \cup {None},
   since : Nat, busy : 0 .. BusyMax]

Typed ==
  /\ now \in Nat /\ written \in Nat /\ holder \in Run \cup {0}
  /\ run \in [Run -> RunState]

(* What the broker reads, when it can read it, is the age of the token.    *)
FileTrue == written <= now /\ last \in {None, written}

(* The lease is held by a run that is starting up.                         *)
HolderStarts == holder # 0 => run[holder].pc \in {"start", "refresh"}

(* A start-up is over within StartUp of the decision or of the lease.      *)
StartsInTime ==
  \A r \in Run : run[r].pc \in {"start", "refresh"} => now - run[r].since <= StartUp

(* Why a run that was let through without the lease cannot find its token  *)
(* too old: it read a timestamp, the token is at least as new as that, and *)
(* at the decision it had a start-up's length left.                        *)
Young(r) ==
  /\ run[r].before # None /\ run[r].before <= written
  /\ run[r].since - run[r].before + StartUp < Interval

Ungated == \A r \in Run : run[r].pc = "start" /\ holder # r => Young(r)

GateInv ==
  Typed /\ FileTrue /\ HolderStarts /\ StartsInTime /\ Ungated /\ RefreshUnderLease

-----------------------------------------------------------------------------
(* Every initial state satisfies the invariant: all runs are queued.       *)
LEMMA GateInit == Init => GateInv
  BY GateAssumption
  DEF Init, GateInv, Typed, RunState, Queued, None, FileTrue, HolderStarts, StartsInTime,
      Ungated, RefreshUnderLease

(* A run decides on what it reads: let through, it has read a timestamp    *)
(* that leaves it a start-up's length.                                     *)
LEMMA DecideInv ==
  ASSUME GateInv, NEW r \in Run, Decide(r)
  PROVE  GateInv'
  <1> USE GateAssumption DEF GateInv, Decide, Set
  <1>1. Typed' /\ FileTrue' /\ HolderStarts'
    BY ZenonT(30) DEF Typed, RunState, FileTrue, HolderStarts, None
  <1>2. StartsInTime'
    BY DEF Typed, RunState, StartsInTime
  <1>3. Ungated'
    <2> SUFFICES ASSUME NEW s \in Run, run'[s].pc = "start", holder # s
                 PROVE  Young(s)'
      BY DEF Ungated
    <2>1. CASE s # r
      BY <2>1 DEF Ungated, Young, Typed
    <2>2. CASE s = r
      <3>0. run'[r].pc = IF refresh_due /\ ~covers THEN "wait" ELSE "start"
        BY DEF Typed, RunState
      <3>1. last # None /\ (now - last < DueAfter \/ now - last < ProofMaxAge)
        <4>1. ~refresh_due \/ covers
          BY <2>2, <3>0
        <4>2. last # None
          BY <4>1 DEF refresh_due, covers
        <4>3. now \in Int /\ last \in Int
          BY <4>2 DEF Typed, FileTrue
        <4> QED
          BY <4>1, <4>2, <4>3 DEF refresh_due, covers
      <3>2. run'[s].before = last /\ run'[s].since = now /\ last = written
        BY <2>2, <3>1 DEF Typed, RunState, FileTrue
      <3> QED
        BY <3>1, <3>2 DEF Young, Typed
    <2> QED
      BY <2>1, <2>2
  <1>4. RefreshUnderLease'
    BY DEF RefreshUnderLease, Typed, RunState
  <1> QED
    BY <1>1, <1>2, <1>3, <1>4

(* A run takes the free lease and starts.                                  *)
LEMMA AcquireInv ==
  ASSUME GateInv, NEW r \in Run, Acquire(r)
  PROVE  GateInv'
  <1> USE GateAssumption DEF GateInv, Acquire, Set
  <1>0. run' \in [Run -> RunState] /\ run'[r].pc = "start" /\ run'[r].since = now
        /\ \A s \in Run \ {r} : run'[s] = run[s]
    BY DEF Typed, RunState
  <1>1. Typed' /\ FileTrue' /\ HolderStarts' /\ StartsInTime'
    <2>1. Typed' /\ FileTrue'
      BY <1>0 DEF Typed, FileTrue
    <2>2. HolderStarts'
      BY <1>0 DEF HolderStarts
    <2>3. StartsInTime'
      BY <1>0 DEF Typed, StartsInTime
    <2> QED
      BY <2>1, <2>2, <2>3
  <1>2. Ungated' /\ RefreshUnderLease'
    BY DEF Ungated, RefreshUnderLease, Young, Typed, RunState
  <1> QED
    BY <1>1, <1>2

(* A run that gives up waiting holds nothing.                              *)
LEMMA GiveUpInv ==
  ASSUME GateInv, NEW r \in Run, GiveUp(r)
  PROVE  GateInv'
  <1> USE GateAssumption DEF GateInv, GiveUp, Set, Queued
  <1>1. PICK n \in 0 .. BusyMax : run' = [run EXCEPT ![r] = [Queued EXCEPT !.busy = n]]
    BY DEF Typed, RunState
  <1>2. Typed' /\ FileTrue'
    BY <1>1 DEF Typed, RunState, FileTrue, None
  <1>3. HolderStarts' /\ StartsInTime'
    BY <1>1 DEF Typed, RunState, HolderStarts, StartsInTime
  <1>4. Ungated' /\ RefreshUnderLease'
    BY <1>1 DEF Ungated, RefreshUnderLease, Young, Typed, RunState
  <1> QED
    BY <1>2, <1>3, <1>4

(* The heart of the proof: a token found too old is found so by the holder.*)
LEMMA RefreshInv ==
  ASSUME GateInv, NEW r \in Run, Refresh(r)
  PROVE  GateInv'
  <1> USE GateAssumption DEF GateInv, Refresh, Set
  <1>1. holder = r
    <2> SUFFICES ASSUME holder # r PROVE FALSE
      OBVIOUS
    <2>1. Young(r) /\ now - run[r].since <= StartUp
      BY DEF Ungated, StartsInTime
    <2>2. run[r].before \in Nat /\ run[r].since \in Nat
      BY <2>1 DEF Young, Typed, RunState
    <2>3. now - run[r].before < Interval
      BY <2>1, <2>2 DEF Young, Typed
    <2> QED
      BY <2>1, <2>2, <2>3 DEF Young, Typed
  <1>2. Typed' /\ FileTrue' /\ HolderStarts' /\ StartsInTime'
    BY DEF Typed, RunState, FileTrue, HolderStarts, StartsInTime
  <1>3. Ungated' /\ RefreshUnderLease'
    BY <1>1 DEF Ungated, RefreshUnderLease, Young, Typed, RunState
  <1> QED
    BY <1>2, <1>3

(* A refresh makes the token as new as it can be.                          *)
LEMMA RotatedInv ==
  ASSUME GateInv, NEW r \in Run, Rotated(r)
  PROVE  GateInv'
  <1> USE GateAssumption DEF GateInv, Rotated, Set
  <1>1. Typed' /\ FileTrue' /\ HolderStarts' /\ StartsInTime'
    BY DEF Typed, RunState, FileTrue, HolderStarts, StartsInTime
  <1>2. holder = r
    BY DEF RefreshUnderLease
  <1>3. Ungated'
    BY <1>2 DEF Ungated, Young, Typed, RunState, FileTrue, None
  <1>4. RefreshUnderLease'
    BY DEF RefreshUnderLease, Typed, RunState
  <1> QED
    BY <1>1, <1>3, <1>4

(* The first event opens the gate, and so does the end of a run: the slot  *)
(* is no longer starting, and others that start never counted on it.       *)
LEMMA LeaveInv ==
  ASSUME GateInv, NEW r \in Run, FirstEvent(r) \/ Finish(r)
  PROVE  GateInv'
  <1> USE GateAssumption DEF GateInv, FirstEvent, Finish, Set, Queued
  <1>1. /\ UNCHANGED <<now, written, last>>
        /\ run[r].pc \in {"start", "refresh", "going"}
        /\ holder' = IF holder = r THEN 0 ELSE holder
        /\ \E c \in {"queued", "going"} : run' = [run EXCEPT ![r] = [Queued EXCEPT !.pc = c]]
    OBVIOUS
  <1>2. Typed' /\ FileTrue'
    BY <1>1 DEF Typed, RunState, FileTrue, None
  <1>3. HolderStarts' /\ StartsInTime'
    BY <1>1 DEF Typed, RunState, HolderStarts, StartsInTime
  <1>4. Ungated' /\ RefreshUnderLease'
    BY <1>1 DEF Ungated, RefreshUnderLease, Young, Typed, RunState
  <1> QED
    BY <1>2, <1>3, <1>4

(* The operator's login only makes the token newer; an unreadable file     *)
(* makes later runs wait.                                                  *)
LEMMA FileInv ==
  ASSUME GateInv, FileChanges
  PROVE  GateInv'
  <1> USE GateAssumption DEF GateInv, FileChanges
  <1>1. Typed' /\ FileTrue' /\ HolderStarts' /\ StartsInTime' /\ RefreshUnderLease'
    BY DEF Typed, FileTrue, HolderStarts, StartsInTime, RefreshUnderLease
  <1>2. written <= written'
    BY DEF FileTrue, Typed
  <1>3. Ungated'
    <2> SUFFICES ASSUME NEW s \in Run, run[s].pc = "start", holder # s
                 PROVE  Young(s)'
      BY DEF Ungated
    <2>1. Young(s) /\ run[s].before \in Nat /\ written' \in Nat
      BY <1>1 DEF Ungated, Young, Typed, RunState
    <2> QED
      BY <1>2, <2>1 DEF Young, Typed
  <1> QED
    BY <1>1, <1>3

(* Time passes only while every start-up is within its length.             *)
LEMMA TickInv ==
  ASSUME GateInv, Tick
  PROVE  GateInv'
  <1> USE GateAssumption DEF GateInv, Tick
  <1>1. Typed' /\ FileTrue' /\ HolderStarts' /\ RefreshUnderLease'
    BY DEF Typed, FileTrue, HolderStarts, RefreshUnderLease
  <1>2. StartsInTime'
    BY DEF Typed, RunState, StartsInTime
  <1>3. Ungated'
    BY DEF Ungated, Young
  <1> QED
    BY <1>1, <1>2, <1>3

(* The invariant holds in every reachable state, for all constants.        *)
THEOREM GateInvariance == Spec => []GateInv
  <1>1. ASSUME GateInv, [Next]_vars
        PROVE  GateInv'
    <2>1. CASE UNCHANGED vars
      BY <1>1, <2>1
      DEF vars, GateInv, Typed, FileTrue, HolderStarts, StartsInTime, Ungated, Young,
          RefreshUnderLease
    <2>2. CASE \E r \in Run : Decide(r)
      BY <1>1, <2>2, DecideInv
    <2>3. CASE \E r \in Run : Acquire(r) \/ GiveUp(r)
      BY <1>1, <2>3, AcquireInv, GiveUpInv
    <2>4. CASE \E r \in Run : Refresh(r) \/ Rotated(r)
      BY <1>1, <2>4, RefreshInv, RotatedInv
    <2>5. CASE \E r \in Run : FirstEvent(r) \/ Finish(r)
      BY <1>1, <2>5, LeaveInv
    <2>6. CASE FileChanges \/ Tick
      BY <1>1, <2>6, FileInv, TickInv
    <2> QED
      BY <1>1, <2>1, <2>2, <2>3, <2>4, <2>5, <2>6 DEF Next
  <1> QED
    BY GateInit, <1>1, PTL DEF Spec

(* The age of the token makes only the holder of the gate's lease refresh  *)
(* it (the claim of codex_refresh_proof about max_age_s).                  *)
THEOREM RefreshGated == Spec => []RefreshUnderLease
  <1>1. GateInv => RefreshUnderLease
    BY DEF GateInv
  <1> QED
    BY GateInvariance, <1>1, PTL

(* Two CLIs never refresh the login at once: the second would present a    *)
(* refresh token the first has already spent.                              *)
OneRefresh ==
  \A r, s \in Run : run[r].pc = "refresh" /\ run[s].pc = "refresh" => r = s

(* At most one run is refreshing, however many were let through.           *)
THEOREM OneRefreshAtATime == Spec => []OneRefresh
  <1>1. RefreshUnderLease => OneRefresh
    BY DEF RefreshUnderLease, OneRefresh
  <1> QED
    BY RefreshGated, <1>1, PTL
-----------------------------------------------------------------------------
(***************************************************************************)
(* The other thing an agent worker waits for in the run `agent_turns': the *)
(* nudge that tells it of a new run.                                       *)
(***************************************************************************)
WakeTyped ==
  /\ wakeRun \in [WakeRun -> {"new", "pending", "running", "done"}]
  /\ wake \in BOOLEAN /\ failed \in BOOLEAN

(* From the claim to the end of the wait: a free slot and an event that is *)
(* not set mean that every pending run came after the claim, and that its  *)
(* nudge is still to arrive or was lost.                                   *)
HeardSinceClaim ==
  worker \in {"claimed", "wait"} /\ ~wake /\ Wake!Cardinality(Wake!Running) < Concurrency /\ ~failed
    => Wake!Pending \subseteq nudge \cup unheard

WakeInv == WakeTyped /\ HeardSinceClaim

(* The instance counts the way this module does.                           *)
LEMMA SameCount ==
  ASSUME NEW S
  PROVE  Wake!Cardinality(S) = Cardinality(S)
  BY Zenon DEF Wake!Cardinality, Cardinality

(* A claim fills the slots or takes all there is.                          *)
LEMMA ClaimHears ==
  ASSUME SlotsCounted, WakeInv, Wake!Claim
  PROVE  WakeInv'
  <1>1. CASE failed' = TRUE /\ UNCHANGED <<wakeRun, unheard>>
    BY <1>1 DEF Wake!Claim, WakeInv, WakeTyped, HeardSinceClaim
  <1>2. CASE /\ failed' = failed
             /\ \E taken \in SUBSET Wake!Pending:
                  /\ Wake!Cardinality(taken) + Wake!Cardinality(Wake!Running) <= Concurrency
                  /\ Wake!Cardinality(taken) + Wake!Cardinality(Wake!Running) < Concurrency
                       => taken = Wake!Pending
                  /\ wakeRun' = [r \in WakeRun |-> IF r \in taken THEN "running" ELSE wakeRun[r]]
                  /\ unheard' = unheard \ taken
    <2>1. PICK taken \in SUBSET Wake!Pending:
            /\ Wake!Cardinality(taken) + Wake!Cardinality(Wake!Running) <= Concurrency
            /\ Wake!Cardinality(taken) + Wake!Cardinality(Wake!Running) < Concurrency
                 => taken = Wake!Pending
            /\ wakeRun' = [r \in WakeRun |-> IF r \in taken THEN "running" ELSE wakeRun[r]]
            /\ unheard' = unheard \ taken
      BY <1>2
    <2>2. WakeTyped'
      BY <1>2, <2>1 DEF Wake!Claim, WakeInv, WakeTyped
    <2>3. /\ Wake!Running' = taken \cup Wake!Running /\ taken \cap Wake!Running = {}
          /\ Wake!Pending' = Wake!Pending \ taken
      BY <2>1 DEF Wake!Running, Wake!Pending, WakeInv, WakeTyped
    <2>4. IsFiniteSet(taken) /\ IsFiniteSet(Wake!Running)
      <3>1. taken \in SUBSET WakeRun /\ Wake!Running \in SUBSET WakeRun
        BY DEF Wake!Pending, Wake!Running
      <3> QED
        BY <3>1, FS_Subset DEF SlotsCounted
    <2>5. Wake!Cardinality(Wake!Running') = Wake!Cardinality(taken) + Wake!Cardinality(Wake!Running)
      <3>1. Cardinality(taken \cup Wake!Running)
              = Cardinality(taken) + Cardinality(Wake!Running) - Cardinality(taken \cap Wake!Running)
        BY <2>4, FS_Union
      <3>2. Cardinality(taken \cap Wake!Running) = 0
        BY <2>3, FS_EmptySet
      <3>3. Cardinality(taken) \in Nat /\ Cardinality(Wake!Running) \in Nat
        BY <2>4, FS_CardinalityType
      <3>4. Cardinality(taken \cup Wake!Running) = Cardinality(taken) + Cardinality(Wake!Running)
        BY <3>1, <3>2, <3>3
      <3> QED
        BY <2>3, <3>4, SameCount, Zenon
    <2>6. Wake!Cardinality(Wake!Running') < Concurrency => Wake!Pending' = {}
      BY <2>1, <2>3, <2>5
    <2> QED
      BY <2>2, <2>6 DEF WakeInv, HeardSinceClaim
  <1> QED
    BY <1>1, <1>2, Zenon DEF Wake!Claim

(* Every other step: a submit brings its nudge along, a nudge sets the     *)
(* event or is lost, and the end of a run sets the event.                  *)
LEMMA OthersHear ==
  ASSUME WakeInv, [Wake!Next]_(Wake!vars), ~Wake!Claim
  PROVE  WakeInv'
  <1> USE DEF WakeInv, WakeTyped
  <1>1. ASSUME NEW r \in WakeRun, Wake!Submit(r)
        PROVE  WakeInv'
    <2>1. /\ Wake!Running' = Wake!Running /\ Wake!Pending' = Wake!Pending \cup {r}
          /\ nudge' = nudge \cup {r} /\ UNCHANGED <<worker, wake, failed, unheard>>
      BY <1>1 DEF Wake!Submit, Wake!Running, Wake!Pending
    <2> QED
      BY <1>1, <2>1 DEF Wake!Submit, HeardSinceClaim
  <1>2. ASSUME NEW r \in WakeRun, Wake!wake_worker(r)
        PROVE  WakeInv'
    <2>1. /\ Wake!Running' = Wake!Running /\ Wake!Pending' = Wake!Pending
          /\ UNCHANGED <<wakeRun, worker, failed>>
          /\ \/ wake' = TRUE
             \/ wake' = wake /\ nudge' \cup unheard' = nudge \cup unheard
      BY <1>2 DEF Wake!wake_worker, Wake!_handle, Wake!Running, Wake!Pending
    <2> QED
      BY <2>1 DEF HeardSinceClaim
  <1>3. ASSUME NEW r \in WakeRun, Wake!RunEnds(r)
        PROVE  WakeInv'
    BY <1>3 DEF Wake!RunEnds, HeardSinceClaim
  <1>4. CASE \/ Wake!start_worker_rpc \/ Wake!Top \/ Wake!_wait_stop_or_wake
             \/ Wake!stop_worker_rpc \/ Wake!Crash
    BY <1>4 DEF Wake!start_worker_rpc, Wake!Top, Wake!_wait_stop_or_wake,
      Wake!stop_worker_rpc, Wake!Crash, HeardSinceClaim
  <1>5. CASE Wake!Sleep \/ Wake!Sigterm \/ UNCHANGED Wake!vars
    <2>1. /\ UNCHANGED <<wakeRun, nudge, unheard, wake, failed>>
          /\ worker' = worker \/ worker = "claimed"
      BY <1>5 DEF Wake!Sleep, Wake!TickEnd, Wake!Sigterm, Wake!vars
    <2>2. Wake!Running' = Wake!Running /\ Wake!Pending' = Wake!Pending
      BY <2>1 DEF Wake!Running, Wake!Pending
    <2> QED
      BY <2>1, <2>2 DEF HeardSinceClaim
  <1> QED
    BY <1>1, <1>2, <1>3, <1>4, <1>5 DEF Wake!Next

(* The invariant of the wait: it holds at first, every step keeps it, and  *)
(* it is enough.                                                           *)
LEMMA WakeFacts ==
  /\ Wake!Init => WakeInv
  /\ WakeInv /\ [Wake!Next]_(Wake!vars) => WakeInv'
  /\ WakeInv => Wake!NudgeHeard
  <1>1. Wake!Init => WakeInv
    BY DEF Wake!Init, WakeInv, WakeTyped, HeardSinceClaim
  <1>2. WakeInv /\ [Wake!Next]_(Wake!vars) => WakeInv'
    BY SlotAssumption, ClaimHears, OthersHear
  <1>3. WakeInv => Wake!NudgeHeard
    BY Zenon DEF WakeInv, HeardSinceClaim, Wake!NudgeHeard
  <1> QED
    BY <1>1, <1>2, <1>3

(* A worker never sleeps through a nudge that reached it, whatever is      *)
(* submitted, lost or finished between its claim and its wait (the event   *)
(* is cleared before the claim, agent/worker.py).                          *)
THEOREM NudgesHeard == SpecAll => []NudgeHeard
  <1> DEFINE Inv == which = "wake" => WakeInv
  <1>1. InitAll => Inv
    BY WakeFacts DEF InitAll
  <1>2. Inv /\ [NextAll]_allVars => Inv'
    <2> SUFFICES ASSUME Inv, [NextAll]_allVars, which' = "wake" PROVE WakeInv'
      OBVIOUS
    <2>1. which' = which /\ [Wake!Next]_(Wake!vars)
      BY DEF NextAll, Gating, ToolTurn, Streaming, Waking, allVars, wakeVars, Wake!vars
    <2> QED
      BY <2>1, WakeFacts
  <1>3. Inv => NudgeHeard
    BY WakeFacts DEF NudgeHeard
  <1> QED
    BY <1>1, <1>2, <1>3, PTL DEF SpecAll

-----------------------------------------------------------------------------
(* The CLI process                                                         *)

Item == {"session", "model", "completed", "failed", "end"}
Line ==
  {"session", "api_key", "message", "result", "failure", "turn", "error", "no_sandbox"}
Stopped == {"none", "lost", "gate_lost", "cancelled", "timed_out"}
CliState ==
  [vendor : {"claude", "codex"}, up : BOOLEAN, child : {"none", "quiet", "piped"},
   said : Seq(Line), due : Seq(Seq(Item)), rc : {0, 1}]
PumpState ==
  [pc : {"preflight", "read", "term", "done"}, read : Nat, turn : BOOLEAN, error : BOOLEAN]
StreamState ==
  [pc : {"loop", "stop", "join", "returned"}, gate : {"none", "held", "proved", "closed"},
   terminal : Stopped \cup {"completed", "failed"}, events : Seq(Item)]

CliTyped ==
  /\ cliCli \in CliState /\ pump \in PumpState /\ q \in Seq(Item) /\ ex \in StreamState
  /\ \A n \in 1 .. Len(cliCli.said) : cliCli.said[n] \in Cli!Lines(cliCli.vendor)
  /\ pump.read <= Len(cliCli.said)
  /\ pump.pc = "preflight" => ~ cliCli.up /\ pump.read = 0

(* feed, as a function of the vendor.                                      *)
Fed(v, l) == IF v = "claude" THEN Cli!ClaudeFeed(l) ELSE Cli!CodexFeed(l)

Begins(s, t) == Len(s) <= Len(t) /\ \A i \in 1 .. Len(s) : s[i] = t[i]

(* The history of the events due: what one more line adds to it, that it   *)
(* only grows, and that Codex says no word of its own about the end.       *)
DueGrows ==
  /\ Len(cliCli.due) = Len(cliCli.said) + 1 /\ cliCli.due[1] = <<>>
  /\ \A n \in 1 .. Len(cliCli.said) :
       cliCli.due[n + 1] = cliCli.due[n] \o Fed(cliCli.vendor, cliCli.said[n])
  /\ \A n \in 1 .. Len(cliCli.due) : Begins(cliCli.due[n], cliCli.due[Len(cliCli.due)])
  /\ cliCli.vendor = "codex" =>
       \A n \in 1 .. Len(cliCli.due) : \A i \in 1 .. Len(cliCli.due[n]) :
         cliCli.due[n][i] # "completed"

(* Behind a stop, or a gate that was never proved, no CLI is left and none *)
(* is about to start.                                                      *)
CliGone ==
  /\ ex.pc \in {"join", "returned"} /\ (ex.terminal \in Stopped \/ ex.gate = "held") =>
       ~ cliCli.up /\ pump.pc = "done"
  /\ ex.gate = "closed" => ex.pc = "returned" /\ ~ cliCli.up /\ pump.pc = "done"

(* What the generator adds after the events of the lines it read.          *)
Endings(n) ==
  {<<"end">>, <<"failed", "end">>} \cup
    IF cliCli.vendor = "codex" /\ n = Len(cliCli.due) THEN {<<"completed", "end">>} ELSE {}

(* What was recorded and what is queued are together the events of the     *)
(* lines read, then an ending.                                             *)
EventsFlow ==
  ex.pc = "loop" =>
    /\ ex.terminal = "none"
    /\ pump.pc # "done" => ex.events \o q = cliCli.due[pump.read + 1]
    /\ pump.pc = "done" =>
         /\ ~ cliCli.up
         /\ \E n \in 1 .. Len(cliCli.due) : \E t \in Endings(n) :
              ex.events \o q = cliCli.due[n] \o t

Recorded ==
  ex.terminal = "completed" =>
    IF cliCli.vendor = "codex"
    THEN ex.events = cliCli.due[Len(cliCli.due)] /\ ~ cliCli.up /\ pump.pc = "done"
    ELSE Begins(Append(ex.events, "completed"), cliCli.due[Len(cliCli.due)])

CliInv == CliTyped /\ DueGrows /\ CliGone /\ EventsFlow /\ Recorded

(* Taking an event moves it from the queue to the record.                  *)
LEMMA Moves ==
  ASSUME NEW e \in Seq(Item), NEW s \in Seq(Item), s # <<>>
  PROVE  Append(e, Head(s)) \o Tail(s) = e \o s
  <1>1. /\ Head(s) = s[1] /\ s[1] \in Item /\ Tail(s) \in Seq(Item) /\ Len(Tail(s)) = Len(s) - 1
        /\ \A i \in 1 .. Len(s) - 1 : Tail(s)[i] = s[i + 1]
        /\ Len(s) \in Nat /\ Len(e) \in Nat
    BY HeadTailProperties, LenProperties, EmptySeq, ElementOfSeq
  <1>2. /\ Append(e, s[1]) \in Seq(Item) /\ Len(Append(e, s[1])) = Len(e) + 1
        /\ Append(e, s[1])[Len(e) + 1] = s[1]
        /\ \A i \in 1 .. Len(e) : Append(e, s[1])[i] = e[i]
    BY <1>1, AppendProperties
  <1> DEFINE a == Append(e, s[1])
             t == Tail(s)
  <1>3. /\ a \in Seq(Item) /\ Len(a) = Len(e) + 1 /\ a[Len(e) + 1] = s[1]
        /\ \A i \in 1 .. Len(e) : a[i] = e[i]
        /\ t \in Seq(Item) /\ Len(t) = Len(s) - 1
        /\ \A i \in 1 .. Len(s) - 1 : t[i] = s[i + 1]
    BY <1>1, <1>2
  <1> HIDE DEF a, t
  <1>4. /\ a \o t \in Seq(Item) /\ Len(a \o t) = Len(e) + Len(s)
        /\ \A i \in 1 .. Len(e) + Len(s) :
             (a \o t)[i] = IF i <= Len(e) + 1 THEN a[i] ELSE t[i - (Len(e) + 1)]
    <2>1. /\ a \o t \in Seq(Item) /\ Len(a \o t) = Len(a) + Len(t)
          /\ \A i \in 1 .. Len(a) + Len(t) :
               (a \o t)[i] = IF i <= Len(a) THEN a[i] ELSE t[i - Len(a)]
      BY <1>3, ConcatProperties
    <2>2. Len(a) + Len(t) = Len(e) + Len(s) /\ Len(a) = Len(e) + 1
      BY <1>1, <1>3
    <2> QED
      BY <2>1, <2>2
  <1>5. /\ e \o s \in Seq(Item) /\ Len(e \o s) = Len(e) + Len(s)
        /\ \A i \in 1 .. Len(e) + Len(s) :
             (e \o s)[i] = IF i <= Len(e) THEN e[i] ELSE s[i - Len(e)]
    BY ConcatProperties
  <1>6. ASSUME NEW i \in 1 .. Len(a \o t) PROVE (a \o t)[i] = (e \o s)[i]
    <2>1. i \in 1 .. Len(e) + Len(s)
      BY <1>4
    <2>2. CASE i <= Len(e)
      BY <2>1, <2>2, <1>1, <1>3, <1>4, <1>5
    <2>3. CASE i = Len(e) + 1
      BY <2>1, <2>3, <1>1, <1>3, <1>4, <1>5
    <2>4. CASE i > Len(e) + 1
      <3>1. /\ i - (Len(e) + 1) \in 1 .. Len(s) - 1
            /\ (i - (Len(e) + 1)) + 1 = i - Len(e)
        BY <2>1, <2>4, <1>1
      <3>2. (a \o t)[i] = t[i - (Len(e) + 1)]
        BY <2>1, <2>4, <1>1, <1>4
      <3>3. (e \o s)[i] = s[i - Len(e)]
        BY <2>1, <2>4, <1>1, <1>5
      <3>4. t[i - (Len(e) + 1)] = s[(i - (Len(e) + 1)) + 1]
        BY <3>1, <1>3
      <3> QED
        BY <3>1, <3>2, <3>3, <3>4
    <2> QED
      BY <2>1, <2>2, <2>3, <2>4, <1>1
  <1>7. a \o t = e \o s
    BY <1>4, <1>5, <1>6, SeqEqual
  <1> QED
    BY <1>7, <1>1 DEF a, t

(* A beginning stays one when the sequence grows.                          *)
LEMMA BeginsGrows ==
  ASSUME NEW s \in Seq(Item), NEW t \in Seq(Item), NEW u \in Seq(Item), Begins(s, t)
  PROVE  Begins(s, t \o u)
  <1>1. /\ Len(t \o u) = Len(t) + Len(u)
        /\ \A i \in 1 .. Len(t) + Len(u) :
             (t \o u)[i] = IF i <= Len(t) THEN t[i] ELSE u[i - Len(t)]
    BY ConcatProperties
  <1>2. Len(s) \in Nat /\ Len(t) \in Nat /\ Len(u) \in Nat
    BY LenProperties
  <1> QED
    BY <1>1, <1>2 DEF Begins

(* A beginning is a prefix in the sense of the property.                   *)
LEMMA BeginsPrefix ==
  ASSUME NEW s \in Seq(Item), NEW t \in Seq(Item), Begins(s, t)
  PROVE  Cli!IsPrefix(s, t)
  <1>1. Len(s) \in Nat /\ Len(t) \in Nat /\ Len(s) <= Len(t)
    BY LenProperties DEF Begins
  <1>2. \A i \in 1 .. Len(s) : s[i] \in Item /\ t[i] \in Item /\ s[i] = t[i]
    BY <1>1, ElementOfSeq DEF Begins
  <1>3. /\ SubSeq(s, 1, Len(s)) \in Seq(Item)
        /\ Len(SubSeq(s, 1, Len(s))) = IF 1 <= Len(s) THEN Len(s) - 1 + 1 ELSE 0
        /\ \A i \in 1 .. Len(s) - 1 + 1 : SubSeq(s, 1, Len(s))[i] = s[1 + i - 1]
    BY <1>1, <1>2, SubSeqProperties
  <1>4. /\ SubSeq(t, 1, Len(s)) \in Seq(Item)
        /\ Len(SubSeq(t, 1, Len(s))) = IF 1 <= Len(s) THEN Len(s) - 1 + 1 ELSE 0
        /\ \A i \in 1 .. Len(s) - 1 + 1 : SubSeq(t, 1, Len(s))[i] = t[1 + i - 1]
    BY <1>1, <1>2, SubSeqProperties
  <1> DEFINE a == SubSeq(s, 1, Len(s))
             b == SubSeq(t, 1, Len(s))
  <1>5. /\ a \in Seq(Item) /\ b \in Seq(Item) /\ Len(a) = Len(s) /\ Len(b) = Len(s)
        /\ \A i \in 1 .. Len(s) : a[i] = s[i] /\ b[i] = t[i]
    BY <1>1, <1>3, <1>4
  <1> HIDE DEF a, b
  <1>6. a = b
    BY <1>1, <1>2, <1>5, SeqEqual
  <1> QED
    BY <1>1, <1>6 DEF a, b, Cli!IsPrefix

(* Concatenation of events is associative.                                 *)
LEMMA Regroup ==
  ASSUME NEW e \in Seq(Item), NEW s \in Seq(Item), NEW t \in Seq(Item)
  PROVE  (e \o s) \o t = e \o (s \o t)
  BY ConcatAssociative

(* A beginning of a beginning is a beginning.                              *)
LEMMA BeginsOn ==
  ASSUME NEW s \in Seq(Item), NEW t \in Seq(Item), NEW u \in Seq(Item), Begins(s, t), Begins(t, u)
  PROVE  Begins(s, u)
  <1>1. Len(s) \in Nat /\ Len(t) \in Nat /\ Len(u) \in Nat
    BY LenProperties
  <1> QED
    BY <1>1 DEF Begins

(* The next event is one of the lines', unless it is in the ending.        *)
LEMMA NextOfLines ==
  ASSUME NEW e \in Seq(Item), NEW s \in Seq(Item), s # <<>>, NEW d \in Seq(Item),
         NEW t \in Seq(Item), e \o s = d \o t, \A i \in 1 .. Len(t) : t[i] # Head(s)
  PROVE  Begins(Append(e, Head(s)), d)
  <1>1. /\ Head(s) = s[1] /\ s[1] \in Item /\ Len(s) \in Nat \ {0} /\ Len(e) \in Nat
        /\ Len(d) \in Nat /\ Len(t) \in Nat
    BY HeadTailProperties, LenProperties, EmptySeq, ElementOfSeq
  <1>2. /\ Len(Append(e, s[1])) = Len(e) + 1 /\ Append(e, s[1])[Len(e) + 1] = s[1]
        /\ \A i \in 1 .. Len(e) : Append(e, s[1])[i] = e[i]
    BY <1>1, AppendProperties
  <1> DEFINE all == e \o s
  <1>3. /\ Len(all) = Len(e) + Len(s)
        /\ \A i \in 1 .. Len(e) + Len(s) : all[i] = IF i <= Len(e) THEN e[i] ELSE s[i - Len(e)]
    BY ConcatProperties
  <1>4. /\ Len(all) = Len(d) + Len(t)
        /\ \A i \in 1 .. Len(d) + Len(t) : all[i] = IF i <= Len(d) THEN d[i] ELSE t[i - Len(d)]
    BY ConcatProperties
  <1> HIDE DEF all
  <1>5. Len(e) + 1 \in 1 .. Len(e) + Len(s) /\ all[Len(e) + 1] = s[1]
    <2>1. Len(e) + 1 \in 1 .. Len(e) + Len(s) /\ (Len(e) + 1) - Len(e) = 1
      BY <1>1
    <2>2. ~ (Len(e) + 1 <= Len(e))
      BY <1>1
    <2>3. all[Len(e) + 1] = s[(Len(e) + 1) - Len(e)]
      BY <2>1, <2>2, <1>3
    <2> QED
      BY <2>1, <2>3
  <1>6. Len(e) + 1 <= Len(d)
    <2>1. SUFFICES ASSUME Len(e) + 1 > Len(d) PROVE FALSE
      BY <1>1
    <2>2. (Len(e) + 1) - Len(d) \in 1 .. Len(t)
      BY <2>1, <1>1, <1>3, <1>4, <1>5
    <2>3. all[Len(e) + 1] = t[(Len(e) + 1) - Len(d)]
      <3>1. Len(e) + 1 \in 1 .. Len(d) + Len(t) /\ ~ (Len(e) + 1 <= Len(d))
        BY <2>1, <1>1, <1>3, <1>4, <1>5
      <3> QED
        BY <3>1, <1>4
    <2> QED
      BY <2>2, <2>3, <1>1, <1>5
  <1>7. ASSUME NEW i \in 1 .. Len(e) + 1 PROVE Append(e, s[1])[i] = d[i]
    <2>1. all[i] = d[i]
      BY <1>1, <1>3, <1>4, <1>6
    <2>2. CASE i = Len(e) + 1
      BY <2>1, <2>2, <1>2, <1>5
    <2>3. CASE i # Len(e) + 1
      <3>1. i \in 1 .. Len(e) /\ i \in 1 .. Len(e) + Len(s)
        BY <2>3, <1>1
      <3>2. all[i] = e[i]
        BY <3>1, <1>3
      <3> QED
        BY <2>1, <3>1, <3>2, <1>2
    <2> QED
      BY <2>2, <2>3
  <1> QED
    BY <1>1, <1>2, <1>6, <1>7 DEF Begins

(* If no line says so, "completed" is the ending of all that was due.      *)
LEMMA NextIsEnding ==
  ASSUME NEW e \in Seq(Item), NEW s \in Seq(Item), s # <<>>, NEW d \in Seq(Item),
         NEW t \in Seq(Item), e \o s = d \o t,
         \A i \in 1 .. Len(d) : d[i] # Head(s),
         \A i \in 1 .. Len(t) : t[i] = Head(s) => i = 1
  PROVE  e = d
  <1>1. /\ Head(s) = s[1] /\ s[1] \in Item /\ Len(s) \in Nat \ {0} /\ Len(e) \in Nat
        /\ Len(d) \in Nat /\ Len(t) \in Nat
    BY HeadTailProperties, LenProperties, EmptySeq, ElementOfSeq
  <1> DEFINE all == e \o s
  <1>3. /\ Len(all) = Len(e) + Len(s)
        /\ \A i \in 1 .. Len(e) + Len(s) : all[i] = IF i <= Len(e) THEN e[i] ELSE s[i - Len(e)]
    BY ConcatProperties
  <1>4. /\ Len(all) = Len(d) + Len(t)
        /\ \A i \in 1 .. Len(d) + Len(t) : all[i] = IF i <= Len(d) THEN d[i] ELSE t[i - Len(d)]
    BY ConcatProperties
  <1> HIDE DEF all
  <1>5. Len(e) + 1 \in 1 .. Len(e) + Len(s) /\ all[Len(e) + 1] = s[1]
    <2>1. Len(e) + 1 \in 1 .. Len(e) + Len(s) /\ (Len(e) + 1) - Len(e) = 1
      BY <1>1
    <2>2. ~ (Len(e) + 1 <= Len(e))
      BY <1>1
    <2>3. all[Len(e) + 1] = s[(Len(e) + 1) - Len(e)]
      BY <2>1, <2>2, <1>3
    <2> QED
      BY <2>1, <2>3
  <1>6. Len(e) = Len(d)
    <2>1. Len(e) + 1 > Len(d)
      BY <1>1, <1>3, <1>4, <1>5
    <2>2. (Len(e) + 1) - Len(d) \in 1 .. Len(t)
      BY <2>1, <1>1, <1>3, <1>4, <1>5
    <2>3. all[Len(e) + 1] = t[(Len(e) + 1) - Len(d)]
      <3>1. Len(e) + 1 \in 1 .. Len(d) + Len(t) /\ ~ (Len(e) + 1 <= Len(d))
        BY <2>1, <1>1, <1>3, <1>4, <1>5
      <3> QED
        BY <3>1, <1>4
    <2>4. (Len(e) + 1) - Len(d) = 1
      BY <2>2, <2>3, <1>1, <1>5
    <2> QED
      BY <2>4, <1>1
  <1>7. \A i \in 1 .. Len(e) : e[i] = d[i]
    BY <1>1, <1>3, <1>4, <1>6
  <1> QED
    BY <1>6, <1>7, SeqEqual

(* What a line becomes is a sequence of events, without "completed" for    *)
(* Codex.                                                                  *)
LEMMA FeedFacts ==
  ASSUME NEW v \in {"claude", "codex"}, NEW l \in Cli!Lines(v)
  PROVE  /\ l \in Line
         /\ Fed(v, l) \in Seq(Item)
         /\ v = "codex" => \A i \in 1 .. Len(Fed(v, l)) : Fed(v, l)[i] # "completed"
  <1>1. /\ <<>> \in Seq(Item) /\ Len(<<>>) = 0
        /\ <<"session">> \in Seq(Item) /\ Len(<<"session">>) = 1 /\ <<"session">>[1] = "session"
        /\ <<"model">> \in Seq(Item) /\ Len(<<"model">>) = 1 /\ <<"model">>[1] = "model"
        /\ <<"failed">> \in Seq(Item) /\ <<"model", "completed">> \in Seq(Item)
        /\ <<"model", "failed">> \in Seq(Item) /\ Len(<<"model", "failed">>) = 2
        /\ <<"model", "failed">>[1] = "model" /\ <<"model", "failed">>[2] = "failed"
    BY DEF Item
  <1>2. CASE v = "claude"
    <2>1. l \in {"session", "api_key", "message", "result", "failure"}
      BY <1>2 DEF Cli!Lines
    <2>2. Fed(v, l) \in {<<"session">>, <<"model">>, <<"model", "completed">>,
                          <<"model", "failed">>, <<"failed">>}
      BY <1>2, <2>1 DEF Fed, Cli!ClaudeFeed
    <2>3. Fed(v, l) \in Seq(Item)
      BY <1>1, <2>2
    <2> QED
      BY <1>2, <2>1, <2>3 DEF Line
  <1>3. CASE v = "codex"
    <2>1. l \in {"session", "message", "turn", "error", "no_sandbox"}
      BY <1>3 DEF Cli!Lines
    <2>2. Fed(v, l) \in {<<"session">>, <<"model">>, <<>>, <<"model", "failed">>}
      BY <1>3, <2>1 DEF Fed, Cli!CodexFeed
    <2> DEFINE s == Fed(v, l)
    <2>3. CASE s = <<"session">> \/ s = <<"model">>
      <3>1. s \in Seq(Item) /\ Len(s) = 1 /\ s[1] \in {"session", "model"}
        BY <1>1, <2>3
      <3> QED
        BY <2>1, <3>1 DEF Line
    <2>4. CASE s = <<>>
      BY <1>1, <2>1, <2>4 DEF Line
    <2>5. CASE s = <<"model", "failed">>
      <3>1. s \in Seq(Item) /\ Len(s) = 2 /\ s[1] = "model" /\ s[2] = "failed"
        BY <1>1, <2>5
      <3> QED
        BY <2>1, <3>1 DEF Line
    <2> QED
      BY <2>2, <2>3, <2>4, <2>5
  <1> QED
    BY <1>2, <1>3

(* An ending says "completed" first, once, and only for Codex.             *)
LEMMA EndingFacts ==
  ASSUME NEW n, NEW t \in Endings(n)
  PROVE  /\ t \in Seq(Item)
         /\ cliCli.vendor # "codex" => \A i \in 1 .. Len(t) : t[i] # "completed"
         /\ \A i \in 1 .. Len(t) : t[i] = "completed" => i = 1 /\ n = Len(cliCli.due)
  <1>1. /\ <<"end">> \in Seq(Item) /\ Len(<<"end">>) = 1 /\ <<"end">>[1] = "end"
        /\ \A x \in Item : /\ <<x, "end">> \in Seq(Item) /\ Len(<<x, "end">>) = 2
                           /\ <<x, "end">>[1] = x /\ <<x, "end">>[2] = "end"
    BY DEF Item
  <1>2. \/ t = <<"end">> \/ t = <<"failed", "end">>
        \/ t = <<"completed", "end">> /\ cliCli.vendor = "codex" /\ n = Len(cliCli.due)
    BY DEF Endings
  <1>3. CASE t = <<"end">>
    BY <1>1, <1>3
  <1>4. CASE t = <<"failed", "end">>
    BY <1>1, <1>4 DEF Item
  <1>5. CASE t = <<"completed", "end">> /\ cliCli.vendor = "codex" /\ n = Len(cliCli.due)
    BY <1>1, <1>5 DEF Item
  <1> QED
    BY <1>2, <1>3, <1>4, <1>5

(* What DueGrows says of one of the histories.                             *)
LEMMA DueFacts ==
  ASSUME CliTyped, DueGrows
  PROVE  /\ Len(cliCli.said) \in Nat /\ cliCli.vendor \in {"claude", "codex"}
         /\ \A n \in 1 .. Len(cliCli.due) : cliCli.due[n] \in Seq(Item)
         /\ pump.read + 1 \in 1 .. Len(cliCli.due)
  <1>1. /\ cliCli.said \in Seq(Line) /\ cliCli.due \in Seq(Seq(Item)) /\ pump.read \in Nat
        /\ cliCli.vendor \in {"claude", "codex"}
    BY DEF CliTyped, CliState, PumpState
  <1>2. Len(cliCli.said) \in Nat
    BY <1>1, LenProperties
  <1>3. \A n \in 1 .. Len(cliCli.due) : cliCli.due[n] \in Seq(Item)
    BY <1>1, ElementOfSeq
  <1>4. pump.read + 1 \in 1 .. Len(cliCli.due)
    <2>1. pump.read <= Len(cliCli.said)
      BY DEF CliTyped
    <2>2. Len(cliCli.due) = Len(cliCli.said) + 1
      BY DEF DueGrows
    <2> QED
      BY <1>1, <1>2, <2>1, <2>2
  <1> QED
    BY <1>1, <1>2, <1>3, <1>4

(* A step that only lets processes end.                                    *)
LEMMA CliQuiet ==
  ASSUME CliInv, cliCli' \in CliState, UNCHANGED <<pump, q, ex>>,
         cliCli'.vendor = cliCli.vendor, cliCli'.said = cliCli.said, cliCli'.due = cliCli.due,
         cliCli'.up => cliCli.up
  PROVE  CliInv'
  <1>1. Cli!Lines(cliCli.vendor)' = Cli!Lines(cliCli.vendor)
    BY DEF Cli!Lines
  <1>3. \A n : Endings(n)' = Endings(n)
    BY DEF Endings
  <1>4. CliTyped'
    BY <1>1 DEF CliInv, CliTyped, Cli!Lines
  <1>5. DueGrows'
    BY DEF CliInv, DueGrows
  <1>6. CliGone' /\ Recorded'
    BY DEF CliInv, CliGone, Recorded
  <1>7. EventsFlow'
    BY <1>3 DEF CliInv, EventsFlow
  <1> QED
    BY <1>4, <1>5, <1>6, <1>7 DEF CliInv

(* A step of the stream or the generator after which the CLI said the      *)
(* same, and what is to be shown of it.                                    *)
LEMMA CliSame ==
  ASSUME CliInv, cliCli' \in CliState, cliCli'.vendor = cliCli.vendor,
         cliCli'.said = cliCli.said, cliCli'.due = cliCli.due,
         pump' \in PumpState, q' \in Seq(Item), ex' \in StreamState,
         pump'.read <= Len(cliCli.said), pump'.pc # "preflight"
  PROVE  /\ CliTyped' /\ DueGrows'
         /\ \A n : Endings(n)' = Endings(n)
  <1>1. \A n \in 1 .. Len(cliCli'.said) : cliCli'.said[n] \in Cli!Lines(cliCli'.vendor)
    BY DEF CliInv, CliTyped
  <1>2. CliTyped'
    BY <1>1 DEF CliTyped, Cli!Lines
  <1>3. DueGrows'
    BY DEF CliInv, DueGrows
  <1>4. \A n : Endings(n)' = Endings(n)
    BY DEF Endings
  <1> QED
    BY <1>2, <1>3, <1>4

(* Killing the group leaves what was said and no leader.                   *)
LEMMA GroupFacts ==
  ASSUME cliCli \in CliState
  PROVE  LET c == Cli!_signal_group(cliCli)
         IN  /\ c \in CliState /\ ~ c.up
             /\ c.vendor = cliCli.vendor /\ c.said = cliCli.said /\ c.due = cliCli.due
  BY DEF Cli!_signal_group, CliState

(* The generator ends with the leader gone.                                *)
LEMMA GeneratorLeaves ==
  ASSUME CliInv, pump.pc \in {"read", "term"}, UNCHANGED ex,
         NEW items \in Seq(Item), Cli!Leave(items),
         NEW n \in 1 .. Len(cliCli.due), NEW t \in Endings(n),
         cliCli.due[pump.read + 1] \o (items \o <<"end">>) = cliCli.due[n] \o t
  PROVE  CliInv'
  <1>1. /\ cliCli \in CliState /\ pump \in PumpState /\ q \in Seq(Item) /\ ex \in StreamState
        /\ CliTyped /\ DueGrows /\ CliGone /\ EventsFlow /\ Recorded
    BY DEF CliInv, CliTyped
  <1>2. /\ cliCli' \in CliState /\ ~ cliCli'.up /\ cliCli'.vendor = cliCli.vendor
        /\ cliCli'.said = cliCli.said /\ cliCli'.due = cliCli.due
    BY <1>1, GroupFacts DEF Cli!Leave
  <1>3. pump' \in PumpState /\ pump'.pc = "done" /\ pump'.read = pump.read
    BY <1>1 DEF Cli!Leave, PumpState
  <1>4. <<"end">> \in Seq(Item)
    BY DEF Item
  <1>5. q' = q \o (items \o <<"end">>) /\ q' \in Seq(Item) /\ items \o <<"end">> \in Seq(Item)
    <2>1. q' = (q \o items) \o <<"end">>
      BY DEF Cli!Leave
    <2>2. (q \o items) \o <<"end">> = q \o (items \o <<"end">>)
      BY <1>1, <1>4, ConcatAssociative
    <2>3. items \o <<"end">> \in Seq(Item)
      BY <1>4, ConcatProperties
    <2>4. q \o (items \o <<"end">>) \in Seq(Item)
      BY <1>1, <2>3, ConcatProperties
    <2> QED
      BY <2>1, <2>2, <2>3, <2>4
  <1>6. CliTyped' /\ DueGrows' /\ \A m : Endings(m)' = Endings(m)
    <2>1. pump.read <= Len(cliCli.said)
      BY <1>1 DEF CliTyped
    <2> QED
      BY <1>1, <1>2, <1>3, <1>5, <2>1, CliSame
  <1>7. CliGone' /\ Recorded'
    BY <1>1, <1>2, <1>3 DEF CliGone, Recorded
  <1>8. EventsFlow'
    <2> SUFFICES ASSUME ex.pc = "loop"
                 PROVE  ex.terminal = "none" /\ ex.events \o q' = cliCli.due[n] \o t
      BY <1>2, <1>3, <1>6 DEF EventsFlow
    <2>1. ex.terminal = "none" /\ ex.events \o q = cliCli.due[pump.read + 1]
      BY <1>1 DEF EventsFlow
    <2>2. ex.events \in Seq(Item)
      BY <1>1 DEF StreamState
    <2> DEFINE u == items \o <<"end">>
    <2>3. u \in Seq(Item)
      BY <1>5
    <2> HIDE DEF u
    <2>5. q \in Seq(Item)
      BY <1>1
    <2>4. (ex.events \o q) \o u = ex.events \o (q \o u)
      BY <2>2, <2>3, <2>5, Regroup, Zenon
    <2> QED
      BY <1>5, <2>1, <2>4 DEF u
  <1> QED
    BY <1>6, <1>7, <1>8 DEF CliInv

(* The CLI says one more line.                                             *)
LEMMA SayInv ==
  ASSUME CliInv, Cli!Say PROVE CliInv'
  <1>1. /\ cliCli \in CliState /\ cliCli.up /\ UNCHANGED <<pump, q, ex>>
        /\ CliTyped /\ DueGrows /\ CliGone /\ EventsFlow /\ Recorded
    BY DEF CliInv, CliTyped, Cli!Say
  <1>2. PICK l \in Cli!Lines(cliCli.vendor) :
          cliCli' = [cliCli EXCEPT !.said = Append(@, l),
                                   !.due = Append(@, Cli!Last(@) \o Cli!feed(l))]
    BY Zenon DEF Cli!Say
  <1> DEFINE said == cliCli.said
             due == cliCli.due
             newest == due[Len(due)]
             new == newest \o Fed(cliCli.vendor, l)
  <1>3. /\ said \in Seq(Line) /\ due \in Seq(Seq(Item)) /\ cliCli.vendor \in {"claude", "codex"}
        /\ Len(said) \in Nat /\ Len(due) = Len(said) + 1 /\ newest \in Seq(Item)
        /\ \A n \in 1 .. Len(due) : due[n] \in Seq(Item)
    BY <1>1, DueFacts DEF CliState, DueGrows
  <1>4. /\ l \in Line /\ Fed(cliCli.vendor, l) \in Seq(Item)
        /\ cliCli.vendor = "codex" =>
             \A i \in 1 .. Len(Fed(cliCli.vendor, l)) : Fed(cliCli.vendor, l)[i] # "completed"
    BY <1>3, FeedFacts
  <1>5. new \in Seq(Item)
    BY <1>3, <1>4, ConcatProperties
  <1>6. /\ cliCli'.said = Append(said, l) /\ cliCli'.due = Append(due, new)
        /\ cliCli'.vendor = cliCli.vendor /\ cliCli'.up = cliCli.up /\ cliCli' \in CliState
    <2>1. Append(said, l) \in Seq(Line) /\ Append(due, new) \in Seq(Seq(Item))
      BY <1>3, <1>4, <1>5, AppendProperties
    <2>2. Cli!feed(l) = Fed(cliCli.vendor, l)
      BY DEF Cli!feed, Fed
    <2>3. cliCli' = [cliCli EXCEPT !.said = Append(said, l), !.due = Append(due, new)]
      BY <1>2, <2>2, Zenon DEF Cli!Last
    <2> HIDE DEF said, due, new
    <2> QED
      BY <1>1, <2>1, <2>3 DEF CliState
  <1>7. /\ Len(cliCli'.said) = Len(said) + 1 /\ cliCli'.said[Len(said) + 1] = l
        /\ \A n \in 1 .. Len(said) : cliCli'.said[n] = said[n]
    BY <1>3, <1>4, <1>6, AppendProperties
  <1>8. /\ Len(cliCli'.due) = Len(due) + 1 /\ cliCli'.due[Len(due) + 1] = new
        /\ \A n \in 1 .. Len(due) : cliCli'.due[n] = due[n]
    <2> HIDE DEF new
    <2> QED
      BY <1>3, <1>5, <1>6, AppendProperties
  <1>9. /\ due[1] = <<>>
        /\ \A n \in 1 .. Len(said) : due[n + 1] = due[n] \o Fed(cliCli.vendor, said[n])
        /\ \A n \in 1 .. Len(due) : Begins(due[n], newest)
        /\ cliCli.vendor = "codex" =>
             \A n \in 1 .. Len(due) : \A i \in 1 .. Len(due[n]) : due[n][i] # "completed"
    BY <1>1 DEF DueGrows
  <1>10. \A n \in 1 .. Len(due) : Begins(due[n], new)
    BY <1>3, <1>4, <1>9, BeginsGrows
  <1>11. cliCli.vendor = "codex" => \A i \in 1 .. Len(new) : new[i] # "completed"
    <2> DEFINE f == Fed(cliCli.vendor, l)
    <2>1. /\ Len(new) = Len(newest) + Len(f)
          /\ \A i \in 1 .. Len(newest) + Len(f) :
               new[i] = IF i <= Len(newest) THEN newest[i] ELSE f[i - Len(newest)]
      BY <1>3, <1>4, ConcatProperties
    <2>2. Len(newest) \in Nat /\ Len(f) \in Nat
      BY <1>3, <1>4, LenProperties
    <2>3. cliCli.vendor = "codex" =>
            /\ \A i \in 1 .. Len(newest) : newest[i] # "completed"
            /\ \A i \in 1 .. Len(f) : f[i] # "completed"
      <3>1. Len(due) \in 1 .. Len(due)
        BY <1>3
      <3> QED
        BY <3>1, <1>4, <1>9
    <2> HIDE DEF f, new, newest
    <2> QED
      BY <2>1, <2>2, <2>3
  <1>12. Begins(new, new)
    <2>1. Len(new) \in Nat
      BY <1>5, LenProperties
    <2> QED
      BY <2>1 DEF Begins
  <1> HIDE DEF said, due, newest, new
  <1>13. DueGrows'
    <2>1. Len(cliCli'.due) = Len(cliCli'.said) + 1 /\ cliCli'.due[1] = <<>>
      BY <1>3, <1>7, <1>8, <1>9
    <2>2. ASSUME NEW n \in 1 .. Len(cliCli'.said)
          PROVE  cliCli'.due[n + 1] = cliCli'.due[n] \o Fed(cliCli'.vendor, cliCli'.said[n])
      <3>1. CASE n \in 1 .. Len(said)
        <4>1. n + 1 \in 1 .. Len(due) /\ n \in 1 .. Len(due)
          BY <1>3, <3>1
        <4> QED
          BY <1>6, <1>7, <1>8, <1>9, <3>1, <4>1
      <3>2. CASE n = Len(said) + 1
        <4>1. n = Len(due) /\ n \in 1 .. Len(due)
          BY <1>3, <3>2
        <4> QED
          BY <1>6, <1>7, <1>8, <3>2, <4>1 DEF new, newest
      <3>3. n \in 1 .. Len(said) \/ n = Len(said) + 1
        BY <1>3, <1>7
      <3> QED
        BY <3>1, <3>2, <3>3
    <2>3. ASSUME NEW n \in 1 .. Len(cliCli'.due)
          PROVE  Begins(cliCli'.due[n], cliCli'.due[Len(cliCli'.due)])
      <3>1. n \in 1 .. Len(due) \/ n = Len(due) + 1
        BY <1>3, <1>8
      <3> QED
        BY <1>8, <1>10, <1>12, <3>1
    <2>4. ASSUME cliCli'.vendor = "codex", NEW n \in 1 .. Len(cliCli'.due),
                 NEW i \in 1 .. Len(cliCli'.due[n])
          PROVE  cliCli'.due[n][i] # "completed"
      <3>1. n \in 1 .. Len(due) \/ n = Len(due) + 1
        BY <1>3, <1>8
      <3> QED
        BY <1>6, <1>8, <1>9, <1>11, <2>4, <3>1
    <2> QED
      BY <2>1, <2>2, <2>3, <2>4 DEF DueGrows
  <1>14. CliTyped'
    <2>1. /\ pump \in PumpState /\ q \in Seq(Item) /\ ex \in StreamState
          /\ \A n \in 1 .. Len(said) : said[n] \in Cli!Lines(cliCli.vendor)
          /\ pump.read <= Len(said) /\ pump.pc # "preflight" /\ pump.read \in Nat
      BY <1>1 DEF CliTyped, PumpState, said
    <2>2. ASSUME NEW n \in 1 .. Len(cliCli'.said)
          PROVE  cliCli'.said[n] \in Cli!Lines(cliCli.vendor)
      <3>1. n \in 1 .. Len(said) \/ n = Len(said) + 1
        BY <1>3, <1>7
      <3>2. CASE n \in 1 .. Len(said)
        BY <1>7, <2>1, <3>2
      <3>3. CASE n = Len(said) + 1
        BY <1>2, <1>7, <3>3
      <3> QED
        BY <3>1, <3>2, <3>3
    <2>3. pump.read <= Len(cliCli'.said)
      BY <1>3, <1>7, <2>1
    <2> QED
      BY <1>1, <1>6, <2>1, <2>2, <2>3 DEF CliTyped, Cli!Lines
  <1>15. CliGone'
    BY <1>1, <1>6 DEF CliGone
  <1>16. EventsFlow'
    <2>1. pump.read + 1 \in 1 .. Len(due)
      BY <1>1, DueFacts DEF due
    <2>2. cliCli'.due[pump.read + 1] = cliCli.due[pump.read + 1]
      BY <2>1, <1>8 DEF due
    <2> QED
      BY <1>1, <1>6, <2>2 DEF EventsFlow
  <1>17. Recorded'
    <2> SUFFICES ASSUME ex.terminal = "completed"
                 PROVE  /\ cliCli.vendor # "codex"
                        /\ Begins(Append(ex.events, "completed"), new)
      BY <1>1, <1>3, <1>6, <1>8 DEF Recorded
    <2>1. cliCli.vendor # "codex" /\ Begins(Append(ex.events, "completed"), newest)
      BY <1>1 DEF Recorded, newest, due
    <2>2. Append(ex.events, "completed") \in Seq(Item)
      <3>1. ex.events \in Seq(Item) /\ "completed" \in Item
        BY <1>1 DEF CliTyped, StreamState, Item
      <3> QED
        BY <3>1, AppendProperties
    <2> QED
      BY <2>1, <2>2, <1>3, <1>4, BeginsGrows DEF new
  <1> QED
    BY <1>13, <1>14, <1>15, <1>16, <1>17 DEF CliInv

(* The generator reads a line.                                             *)
LEMMA ReadInv ==
  ASSUME CliInv, Cli!ReadLine PROVE CliInv'
  <1>1. /\ cliCli \in CliState /\ pump \in PumpState /\ q \in Seq(Item) /\ ex \in StreamState
        /\ CliTyped /\ DueGrows /\ CliGone /\ EventsFlow /\ Recorded
        /\ pump.pc = "read" /\ pump.read < Len(cliCli.said) /\ UNCHANGED ex
    BY DEF CliInv, CliTyped, Cli!ReadLine
  <1> DEFINE n == pump.read + 1
             l == cliCli.said[n]
             items == Cli!feed(l)
  <1>2. /\ pump.read \in Nat /\ Len(cliCli.said) \in Nat /\ n \in 1 .. Len(cliCli.said)
        /\ cliCli.vendor \in {"claude", "codex"}
    BY <1>1, DueFacts DEF PumpState
  <1>3. /\ items = Fed(cliCli.vendor, l) /\ items \in Seq(Item)
        /\ cliCli.due[n + 1] = cliCli.due[n] \o items
    <2>1. l \in Cli!Lines(cliCli.vendor)
      BY <1>1, <1>2 DEF CliTyped
    <2>2. items = Fed(cliCli.vendor, l)
      BY DEF Cli!feed, Fed
    <2> QED
      BY <1>1, <1>2, <2>1, <2>2, FeedFacts DEF DueGrows
  <1>4. /\ n \in 1 .. Len(cliCli.due) /\ n + 1 \in 1 .. Len(cliCli.due)
        /\ cliCli.due[n] \in Seq(Item) /\ cliCli.due[n + 1] \in Seq(Item)
    <2>1. n \in 1 .. Len(cliCli.due) /\ n + 1 \in 1 .. Len(cliCli.due)
      BY <1>1, <1>2 DEF DueGrows
    <2> QED
      BY <1>1, <2>1, DueFacts
  <1>5. \/ Cli!Leave(items)
        \/ /\ UNCHANGED cliCli /\ q' = q \o items
           /\ \/ pump' = [pump EXCEPT !.pc = "term", !.read = @ + 1]
              \/ pump' = [pump EXCEPT !.read = @ + 1,
                            !.turn = @ \/ (cliCli.vendor = "codex" /\ l = "turn"),
                            !.error = @ \/ l = "error"]
    BY Zenon DEF Cli!ReadLine
  <1> HIDE DEF items
  <1>6. CASE Cli!Leave(items)
    <2>1. <<"end">> \in Endings(n + 1) /\ <<"end">> \in Seq(Item)
      BY DEF Endings, Item
    <2>2. (cliCli.due[n] \o items) \o <<"end">> = cliCli.due[n] \o (items \o <<"end">>)
      BY <1>3, <1>4, <2>1, Regroup, Zenon
    <2>3. cliCli.due[n] \o (items \o <<"end">>) = cliCli.due[n + 1] \o <<"end">>
      BY <1>3, <2>2, Zenon
    <2>4. pump.pc \in {"read", "term"} /\ UNCHANGED ex
      BY <1>1
    <2> QED
      BY <1>3, <1>4, <1>6, <2>1, <2>3, <2>4, GeneratorLeaves, Zenon
  <1>7. CASE /\ UNCHANGED cliCli /\ q' = q \o items
             /\ \/ pump' = [pump EXCEPT !.pc = "term", !.read = @ + 1]
                \/ pump' = [pump EXCEPT !.read = @ + 1,
                              !.turn = @ \/ (cliCli.vendor = "codex" /\ l = "turn"),
                              !.error = @ \/ l = "error"]
    <2>1. pump' \in PumpState /\ pump'.pc \in {"read", "term"} /\ pump'.read = n
      <3>0. pump \in PumpState /\ pump.pc = "read" /\ n \in Nat
        BY <1>1, <1>2
      <3>1. CASE pump' = [pump EXCEPT !.pc = "term", !.read = @ + 1]
        <4>1. pump' = [pump EXCEPT !.pc = "term", !.read = n]
          BY <3>1
        <4> HIDE DEF n
        <4> QED
          BY <3>0, <4>1 DEF PumpState
      <3>2. CASE pump' = [pump EXCEPT !.read = @ + 1,
                            !.turn = @ \/ (cliCli.vendor = "codex" /\ l = "turn"),
                            !.error = @ \/ l = "error"]
        <4> DEFINE a == pump.turn \/ (cliCli.vendor = "codex" /\ l = "turn")
                   b == pump.error \/ l = "error"
        <4>1. a \in BOOLEAN /\ b \in BOOLEAN
          OBVIOUS
        <4>2. pump' = [pump EXCEPT !.read = n, !.turn = a, !.error = b]
          BY <3>2, Zenon
        <4> HIDE DEF a, b, n
        <4> QED
          BY <3>0, <4>1, <4>2 DEF PumpState
      <3> QED
        BY <1>7, <3>1, <3>2
    <2>2. q' \in Seq(Item)
      BY <1>1, <1>3, <1>7, ConcatProperties
    <2>3. CliTyped' /\ DueGrows' /\ \A m : Endings(m)' = Endings(m)
      BY <1>1, <1>2, <1>7, <2>1, <2>2, CliSame
    <2>4. CliGone' /\ Recorded'
      BY <1>1, <1>7, <2>1 DEF CliGone, Recorded
    <2>5. EventsFlow'
      <3> SUFFICES ASSUME ex.pc = "loop"
                   PROVE  ex.terminal = "none" /\ ex.events \o q' = cliCli.due[n + 1]
        BY <1>1, <1>7, <2>1 DEF EventsFlow
      <3>1. ex.terminal = "none" /\ ex.events \o q = cliCli.due[n]
        BY <1>1 DEF EventsFlow
      <3>2. ex.events \in Seq(Item) /\ q \in Seq(Item)
        BY <1>1 DEF StreamState
      <3>3. (ex.events \o q) \o items = ex.events \o (q \o items)
        BY <1>3, <3>2, Regroup, Zenon
      <3> QED
        BY <1>3, <1>7, <3>1, <3>3
    <2> QED
      BY <2>3, <2>4, <2>5 DEF CliInv
  <1> QED
    BY <1>5, <1>6, <1>7

(* The other steps of the generator.                                       *)
LEMMA GeneratorInv ==
  ASSUME CliInv,
         Cli!Refused \/ Cli!Spawn \/ Cli!Finish \/ Cli!StdinBroken \/ Cli!TermDone
  PROVE  CliInv'
  <1>1. /\ cliCli \in CliState /\ pump \in PumpState /\ q \in Seq(Item) /\ ex \in StreamState
        /\ CliTyped /\ DueGrows /\ CliGone /\ EventsFlow /\ Recorded
    BY DEF CliInv, CliTyped
  <1> DEFINE n == pump.read + 1
  <1>2. /\ Len(cliCli.said) \in Nat /\ n \in 1 .. Len(cliCli.due)
        /\ cliCli.due[n] \in Seq(Item) /\ pump.read \in Nat /\ ex.events \in Seq(Item)
        /\ Len(cliCli.due) = Len(cliCli.said) + 1 /\ cliCli.due[1] = <<>>
        /\ cliCli.vendor \in {"claude", "codex"}
    BY <1>1, DueFacts DEF PumpState, StreamState, DueGrows
  <1>3. /\ <<>> \in Seq(Item) /\ <<"end">> \in Seq(Item) /\ <<>> \o <<"end">> = <<"end">>
        /\ \A x \in {"completed", "failed"} :
             <<x>> \in Seq(Item) /\ <<x>> \o <<"end">> = <<x, "end">>
        /\ <<"failed", "end">> \in Seq(Item)
    <2>1. <<"end">> \in Seq(Item) /\ <<"failed", "end">> \in Seq(Item)
      BY DEF Item
    <2>2. <<>> \in Seq(Item) /\ <<>> \o <<"end">> = <<"end">>
      BY <2>1, EmptySeq, ConcatEmptySeq
    <2>3. ASSUME NEW x \in {"completed", "failed"}
          PROVE  <<x>> \in Seq(Item) /\ <<x>> \o <<"end">> = <<x, "end">>
      <3>1. x \in Item /\ "end" \in Item
        BY DEF Item
      <3> HIDE DEF Item
      <3> DEFINE a == <<x>>
                 b == <<"end">>
                 c == <<x, "end">>
      <3>2. /\ a \in Seq(Item) /\ Len(a) = 1 /\ a[1] = x
            /\ b \in Seq(Item) /\ Len(b) = 1 /\ b[1] = "end"
            /\ c \in Seq(Item) /\ Len(c) = 2 /\ c[1] = x /\ c[2] = "end"
        BY <3>1
      <3> HIDE DEF a, b, c
      <3>3. a \o b \in Seq(Item) /\ Len(a \o b) = 2 /\ (a \o b)[1] = x /\ (a \o b)[2] = "end"
        BY <3>2, ConcatProperties
      <3>4. a \o b = c
        BY <3>2, <3>3, SeqEqual
      <3> QED
        BY <3>2, <3>4 DEF a, b, c
    <2> QED
      BY <2>1, <2>2, <2>3
  <1>4. CASE Cli!Refused
    <2>1. /\ pump.pc = "preflight" /\ pump' = [pump EXCEPT !.pc = "done"]
          /\ q' = q \o <<"failed", "end">> /\ UNCHANGED <<cliCli, ex>>
      BY <1>4 DEF Cli!Refused
    <2>2. ~ cliCli.up /\ pump.read = 0
      BY <1>1, <2>1 DEF CliTyped
    <2>3. pump' \in PumpState /\ pump'.pc = "done" /\ pump'.read = 0
      BY <1>1, <2>1, <2>2 DEF PumpState
    <2>4. q' \in Seq(Item)
      BY <1>1, <1>3, <2>1, ConcatProperties
    <2>5. CliTyped' /\ DueGrows' /\ \A m : Endings(m)' = Endings(m)
      BY <1>1, <1>2, <2>1, <2>3, <2>4, CliSame
    <2>6. CliGone' /\ Recorded'
      BY <1>1, <2>1, <2>2, <2>3 DEF CliGone, Recorded
    <2>7. EventsFlow'
      <3> SUFFICES ASSUME ex.pc = "loop"
                   PROVE  /\ ex.terminal = "none"
                          /\ ex.events \o q' = cliCli.due[n] \o <<"failed", "end">>
        <4>1. <<"failed", "end">> \in Endings(n)
          BY DEF Endings
        <4> QED
          BY <1>2, <2>1, <2>2, <2>3, <2>5, <4>1 DEF EventsFlow
      <3>1. ex.terminal = "none" /\ ex.events \o q = cliCli.due[n]
        BY <1>1, <2>1 DEF EventsFlow
      <3> DEFINE t == <<"failed", "end">>
      <3>2. t \in Seq(Item) /\ q' = q \o t
        BY <1>3, <2>1
      <3> HIDE DEF t
      <3>3. (ex.events \o q) \o t = ex.events \o (q \o t)
        BY <1>1, <1>2, <3>2, Regroup, Zenon
      <3> QED
        BY <3>1, <3>2, <3>3 DEF t
    <2> QED
      BY <2>5, <2>6, <2>7 DEF CliInv
  <1>5. CASE Cli!Spawn
    <2>1. /\ pump.pc = "preflight" /\ pump' = [pump EXCEPT !.pc = "read"]
          /\ cliCli' = [cliCli EXCEPT !.up = TRUE] /\ UNCHANGED <<q, ex>>
      BY <1>5 DEF Cli!Spawn
    <2>2. pump' \in PumpState /\ pump'.pc = "read" /\ pump'.read = pump.read
      BY <1>1, <2>1 DEF PumpState
    <2>3. /\ cliCli' \in CliState /\ cliCli'.vendor = cliCli.vendor
          /\ cliCli'.said = cliCli.said /\ cliCli'.due = cliCli.due
      BY <1>1, <2>1 DEF CliState
    <2>4. CliTyped' /\ DueGrows'
      <3>1. pump.read <= Len(cliCli.said)
        BY <1>1 DEF CliTyped
      <3> QED
        BY <1>1, <2>1, <2>2, <2>3, <3>1, CliSame
    <2>5. CliGone' /\ EventsFlow' /\ Recorded'
      BY <1>1, <2>1, <2>2, <2>3 DEF CliGone, EventsFlow, Recorded
    <2> QED
      BY <2>4, <2>5 DEF CliInv
  <1>6. CASE Cli!Finish
    <2>1. /\ pump.pc = "read" /\ n = Len(cliCli.due) /\ Cli!Leave(<<Cli!finish>>) /\ UNCHANGED ex
      BY <1>2, <1>6 DEF Cli!Finish, Cli!Drained
    <2>2. PICK x \in {"completed", "failed"} :
            x = Cli!finish /\ (x = "completed" => cliCli.vendor = "codex")
      BY DEF Cli!finish
    <2>3. <<x, "end">> \in Endings(n) /\ <<x>> \in Seq(Item) /\ <<x>> \o <<"end">> = <<x, "end">>
      BY <1>3, <2>1, <2>2 DEF Endings
    <2>4. cliCli.due[n] \o (<<x>> \o <<"end">>) = cliCli.due[n] \o <<x, "end">> /\ Cli!Leave(<<x>>)
      BY <2>1, <2>2, <2>3
    <2> QED
      BY <1>2, <2>1, <2>3, <2>4, GeneratorLeaves
  <1>7. CASE Cli!StdinBroken
    <2>1. pump.pc = "read" /\ Cli!Leave(<<"failed">>) /\ UNCHANGED ex
      BY <1>7 DEF Cli!StdinBroken
    <2>2. <<"failed", "end">> \in Endings(n) /\ <<"failed">> \in Seq(Item)
          /\ <<"failed">> \o <<"end">> = <<"failed", "end">>
      BY <1>3 DEF Endings
    <2>3. cliCli.due[n] \o (<<"failed">> \o <<"end">>) = cliCli.due[n] \o <<"failed", "end">>
      BY <2>2
    <2> QED
      BY <1>2, <2>1, <2>2, <2>3, GeneratorLeaves
  <1>8. CASE Cli!TermDone
    <2>1. pump.pc = "term" /\ Cli!Leave(<<>>) /\ UNCHANGED ex
      BY <1>8 DEF Cli!TermDone
    <2>2. <<"end">> \in Endings(n)
      BY DEF Endings
    <2>3. cliCli.due[n] \o (<<>> \o <<"end">>) = cliCli.due[n] \o <<"end">>
      BY <1>3
    <2> QED
      BY <1>2, <1>3, <2>1, <2>2, <2>3, GeneratorLeaves
  <1> QED
    BY <1>4, <1>5, <1>6, <1>7, <1>8

(* task.cancel() lets a CLI end and starts none.                           *)
LEMMA CancelFacts ==
  ASSUME CliTyped, Cli!Cancelled
  PROVE  /\ cliCli' \in CliState /\ cliCli'.vendor = cliCli.vendor
         /\ cliCli'.said = cliCli.said /\ cliCli'.due = cliCli.due
         /\ cliCli'.up => cliCli.up
         /\ pump' \in PumpState /\ pump'.read = pump.read /\ pump'.pc \in {"term", "done"}
         /\ ~ cliCli.up \/ pump.pc = "done" => pump'.pc = "done"
  <1>1. /\ cliCli \in CliState /\ pump \in PumpState
        /\ pump.pc \in {"preflight", "read", "term", "done"}
    BY DEF CliTyped, PumpState
  <1>2. CASE pump.pc = "preflight"
    <2>1. pump' = [pump EXCEPT !.pc = "done"] /\ UNCHANGED cliCli
      BY <1>2 DEF Cli!Cancelled
    <2> QED
      BY <1>1, <2>1 DEF PumpState
  <1>3. CASE pump.pc = "read" /\ cliCli.up
    <2>1. pump' = [pump EXCEPT !.pc = "term"] /\ UNCHANGED cliCli
      BY <1>3 DEF Cli!Cancelled
    <2> QED
      BY <1>1, <1>3, <2>1 DEF PumpState
  <1>4. CASE pump.pc = "read" /\ ~ cliCli.up
    <2>1. pump' = [pump EXCEPT !.pc = "done"] /\ cliCli' = Cli!_signal_group(cliCli)
      BY <1>4 DEF Cli!Cancelled
    <2>2. pump' \in PumpState /\ pump'.read = pump.read /\ pump'.pc = "done"
      BY <1>1, <2>1 DEF PumpState
    <2> QED
      BY <1>1, <2>1, <2>2, GroupFacts
  <1>5. CASE pump.pc = "term"
    <2>1. pump' = [pump EXCEPT !.pc = "done"] /\ UNCHANGED cliCli
      BY <1>5 DEF Cli!Cancelled
    <2> QED
      BY <1>1, <2>1 DEF PumpState
  <1>6. CASE pump.pc = "done"
    <2>1. UNCHANGED <<pump, cliCli>>
      BY <1>6 DEF Cli!Cancelled
    <2> QED
      BY <1>1, <1>6, <2>1
  <1> QED
    BY <1>1, <1>2, <1>3, <1>4, <1>5, <1>6

(* The stream leaves its loop, with e as the state of the stream.          *)
LEMMA StreamLeaves ==
  ASSUME CliInv, NEW e \in StreamState, e.gate # "closed", Cli!Leaving(e), q' \in Seq(Item),
         e.terminal = "completed" =>
           IF cliCli.vendor = "codex"
           THEN e.events = cliCli.due[Len(cliCli.due)] /\ ~ cliCli.up /\ pump.pc = "done"
           ELSE Begins(Append(e.events, "completed"), cliCli.due[Len(cliCli.due)])
  PROVE  CliInv'
  <1>1. /\ cliCli \in CliState /\ pump \in PumpState /\ ex \in StreamState
        /\ CliTyped /\ DueGrows /\ pump.read <= Len(cliCli.said)
    BY DEF CliInv, CliTyped
  <1>2. CASE Cli!MustStop(e)
    <2>1. ex' = [e EXCEPT !.pc = "stop"] /\ UNCHANGED <<pump, cliCli>>
      BY <1>2 DEF Cli!Leaving
    <2>2. /\ ex' \in StreamState /\ ex'.pc = "stop" /\ ex'.gate = e.gate
          /\ ex'.terminal = e.terminal /\ ex'.events = e.events
      BY <2>1 DEF StreamState
    <2>3. CliTyped'
      BY <1>1, <2>1, <2>2 DEF CliTyped, Cli!Lines
    <2>4. DueGrows'
      BY <1>1, <2>1 DEF DueGrows
    <2>5. CliGone' /\ EventsFlow' /\ Recorded'
      BY <2>1, <2>2 DEF CliGone, EventsFlow, Recorded
    <2> QED
      BY <2>3, <2>4, <2>5 DEF CliInv
  <1>3. CASE ~ Cli!MustStop(e)
    <2>1. ex' = [e EXCEPT !.pc = "join"] /\ Cli!Cancelled
      BY <1>3 DEF Cli!Leaving
    <2>2. /\ ex' \in StreamState /\ ex'.pc = "join" /\ ex'.gate = e.gate
          /\ ex'.terminal = e.terminal /\ ex'.events = e.events
      BY <2>1 DEF StreamState
    <2>3. e.terminal \notin Stopped /\ e.gate # "held"
      BY <1>3 DEF Cli!MustStop, Stopped
    <2>4. /\ cliCli' \in CliState /\ cliCli'.vendor = cliCli.vendor
          /\ cliCli'.said = cliCli.said /\ cliCli'.due = cliCli.due
          /\ cliCli'.up => cliCli.up
          /\ pump' \in PumpState /\ pump'.read = pump.read /\ pump'.pc \in {"term", "done"}
          /\ pump.pc = "done" => pump'.pc = "done"
      BY <1>1, <2>1, CancelFacts
    <2>5. CliTyped' /\ DueGrows'
      BY <1>1, <2>2, <2>4, CliSame
    <2>6. CliGone' /\ EventsFlow' /\ Recorded'
      BY <2>2, <2>3, <2>4 DEF CliGone, EventsFlow, Recorded
    <2> QED
      BY <2>5, <2>6 DEF CliInv
  <1> QED
    BY <1>2, <1>3

(* The steps of the stream that take no event.                             *)
LEMMA StreamInv ==
  ASSUME CliInv,
         Cli!SeeLost \/ Cli!TimesOut \/ Cli!SeeCancel \/ Cli!StopDone \/ Cli!Return
  PROVE  CliInv'
  <1>1. /\ cliCli \in CliState /\ pump \in PumpState /\ q \in Seq(Item) /\ ex \in StreamState
        /\ CliTyped /\ DueGrows /\ CliGone /\ EventsFlow /\ Recorded
        /\ pump.read <= Len(cliCli.said)
    BY DEF CliInv, CliTyped
  <1>2. CASE Cli!SeeLost \/ Cli!TimesOut \/ Cli!SeeCancel
    <2>1. PICK w \in {"lost", "gate_lost", "timed_out", "cancelled"} :
            ex.pc = "loop" /\ Cli!Leaving([ex EXCEPT !.terminal = w]) /\ UNCHANGED q
      BY <1>2 DEF Cli!SeeLost, Cli!TimesOut, Cli!SeeCancel, Cli!LeaseGone, Cli!GateGone
    <2> DEFINE e == [ex EXCEPT !.terminal = w]
    <2>2. e \in StreamState /\ e.terminal # "completed" /\ e.gate = ex.gate
      BY <1>1 DEF StreamState, Stopped
    <2>3. ex.gate # "closed"
      BY <1>1, <2>1 DEF CliGone
    <2> HIDE DEF e
    <2>4. Cli!Leaving(e) /\ q' \in Seq(Item)
      BY <1>1, <2>1 DEF e
    <2> QED
      BY <2>2, <2>3, <2>4, StreamLeaves
  <1>3. CASE Cli!StopDone
    <2>1. /\ ex.pc = "stop" /\ ~ cliCli.up /\ Cli!Cancelled
          /\ ex' = [ex EXCEPT !.pc = "join"] /\ UNCHANGED q
      BY <1>3 DEF Cli!StopDone
    <2>2. /\ ex' \in StreamState /\ ex'.pc = "join" /\ ex'.gate = ex.gate
          /\ ex'.terminal = ex.terminal /\ ex'.events = ex.events
      BY <1>1, <2>1 DEF StreamState
    <2>3. /\ cliCli' \in CliState /\ cliCli'.vendor = cliCli.vendor
          /\ cliCli'.said = cliCli.said /\ cliCli'.due = cliCli.due
          /\ ~ cliCli'.up
          /\ pump' \in PumpState /\ pump'.read = pump.read /\ pump'.pc = "done"
      BY <1>1, <2>1, CancelFacts
    <2>4. CliTyped' /\ DueGrows'
      BY <1>1, <2>1, <2>2, <2>3, CliSame
    <2>5. CliGone' /\ EventsFlow' /\ Recorded'
      BY <1>1, <2>1, <2>2, <2>3 DEF CliGone, EventsFlow, Recorded
    <2> QED
      BY <2>4, <2>5 DEF CliInv
  <1>4. CASE Cli!Return
    <2>1. /\ ex.pc = "join" /\ pump.pc = "done" /\ UNCHANGED <<cliCli, pump, q>>
          /\ ex' = [Cli!Opened(ex) EXCEPT !.pc = "returned"]
      BY <1>4 DEF Cli!Return
    <2>2. /\ ex' \in StreamState /\ ex'.pc = "returned"
          /\ ex'.gate = IF ex.gate = "held" THEN "closed" ELSE ex.gate
          /\ ex'.terminal = ex.terminal /\ ex'.events = ex.events
      BY <1>1, <2>1 DEF StreamState, Cli!Opened
    <2>3. CliTyped' /\ DueGrows'
      BY <1>1, <2>1, <2>2, CliSame
    <2>4. CliGone' /\ EventsFlow' /\ Recorded'
      BY <1>1, <2>1, <2>2 DEF CliGone, EventsFlow, Recorded
    <2> QED
      BY <2>3, <2>4 DEF CliInv
  <1> QED
    BY <1>2, <1>3, <1>4

(* The stream takes an event.  "completed" is taken only behind all the    *)
(* events that are due before it.                                          *)
LEMMA TakeInv ==
  ASSUME CliInv, Cli!Take PROVE CliInv'
  <1>1. /\ cliCli \in CliState /\ pump \in PumpState /\ q \in Seq(Item) /\ ex \in StreamState
        /\ CliTyped /\ DueGrows /\ CliGone /\ EventsFlow /\ Recorded
        /\ pump.read <= Len(cliCli.said) /\ ex.pc = "loop" /\ q # <<>> /\ q' = Tail(q)
    BY DEF CliInv, CliTyped, Cli!Take
  <1> DEFINE i == Head(q)
             g == Cli!Proved(i)
             e == [ex EXCEPT !.gate = g]
  <1>2. /\ i \in Item /\ Tail(q) \in Seq(Item) /\ q' \in Seq(Item)
        /\ ex.events \in Seq(Item) /\ ex.terminal = "none" /\ ex.gate # "closed"
    BY <1>1, HeadTailProperties DEF StreamState, EventsFlow, CliGone
  <1>3. g \in {"none", "held", "proved"}
    BY <1>1, <1>2 DEF Cli!Proved, StreamState
  <1>4. \/ i = "end" /\ Cli!Leaving(e)
        \/ i \in {"completed", "failed"} /\ Cli!Leaving([e EXCEPT !.terminal = i])
        \/ ex' = [e EXCEPT !.events = Append(@, i)] /\ UNCHANGED <<pump, cliCli>>
        \/ Cli!Leaving(e)
    <2>1. CASE i = "end"
      BY <2>1 DEF Cli!Take, Cli!TerminalTypes
    <2>2. CASE i \in {"completed", "failed"}
      BY <2>2 DEF Cli!Take, Cli!TerminalTypes
    <2>3. CASE i # "end" /\ i \notin {"completed", "failed"}
      BY <2>3 DEF Cli!Take, Cli!TerminalTypes
    <2> QED
      BY <2>1, <2>2, <2>3
  <1> HIDE DEF g
  <1>5. /\ e \in StreamState /\ e.pc = "loop" /\ e.gate = g /\ e.terminal = "none"
        /\ e.events = ex.events
    BY <1>1, <1>2, <1>3 DEF StreamState
  <1> HIDE DEF e
  <1>6. CASE Cli!Leaving(e)
    BY <1>2, <1>3, <1>5, <1>6, StreamLeaves
  <1>7. CASE i \in {"completed", "failed"} /\ Cli!Leaving([e EXCEPT !.terminal = i])
    <2> DEFINE f == [e EXCEPT !.terminal = i]
    <2>1. f \in StreamState /\ f.gate = g /\ f.terminal = i /\ f.events = ex.events
      BY <1>5, <1>7 DEF StreamState
    <2>2. Cli!Leaving(f)
      BY <1>7
    <2> HIDE DEF f, i
    <2> DEFINE due == cliCli.due
    <2>3. PICK n \in 1 .. Len(due), t \in Seq(Item) :
            /\ ex.events \o q = due[n] \o t
            /\ due[n] \in Seq(Item)
            /\ cliCli.vendor # "codex" => \A j \in 1 .. Len(t) : t[j] # "completed"
            /\ \A j \in 1 .. Len(t) : t[j] = "completed" => j = 1 /\ n = Len(due)
            /\ (\E j \in 1 .. Len(t) : t[j] = "completed") => pump.pc = "done" /\ ~ cliCli.up
      <3>1. CASE pump.pc = "done"
        <4>5. PICK n \in 1 .. Len(due) : \E t \in Endings(n) : ex.events \o q = due[n] \o t
          BY <1>1, <3>1 DEF EventsFlow
        <4>1. PICK t \in Endings(n) : ex.events \o q = due[n] \o t
          BY <4>5
        <4>2. ~ cliCli.up
          BY <1>1, <3>1 DEF EventsFlow
        <4>3. due[n] \in Seq(Item)
          BY <1>1, DueFacts
        <4> QED
          BY <3>1, <4>1, <4>2, <4>3, EndingFacts
      <3>2. CASE pump.pc # "done"
        <4>1. ex.events \o q = due[pump.read + 1]
          BY <1>1, <3>2 DEF EventsFlow
        <4>2. pump.read + 1 \in 1 .. Len(due) /\ due[pump.read + 1] \in Seq(Item)
          BY <1>1, DueFacts
        <4>3. <<>> \in Seq(Item) /\ Len(<<>>) = 0 /\ due[pump.read + 1] \o <<>> = due[pump.read + 1]
          BY <4>2, EmptySeq, ConcatEmptySeq
        <4>4. ~ \E j \in 1 .. Len(<<>>) : TRUE
          BY <4>3
        <4> QED
          BY <4>1, <4>2, <4>3, <4>4
      <3> QED
        BY <3>1, <3>2
    <2>31. /\ ex.events \in Seq(Item) /\ q \in Seq(Item) /\ q # <<>> /\ due[n] \in Seq(Item)
           /\ ex.events \o q = due[n] \o t
      BY <1>1, <1>2, <2>3
    <2>4. cliCli.vendor \in {"claude", "codex"}
      BY <1>1 DEF CliState
    <2>5. ASSUME i = "completed", cliCli.vendor = "codex"
          PROVE  ex.events = due[Len(due)] /\ ~ cliCli.up /\ pump.pc = "done"
      <3>1. \A j \in 1 .. Len(due[n]) : due[n][j] # "completed"
        BY <1>1, <2>5 DEF DueGrows
      <3>0. Head(q) = "completed"
        BY <2>5 DEF i
      <3>2. ex.events = due[n]
        <4>1. /\ \A j \in 1 .. Len(due[n]) : due[n][j] # Head(q)
              /\ \A j \in 1 .. Len(t) : t[j] = Head(q) => j = 1
          BY <2>3, <3>0, <3>1
        <4> QED
          BY <2>31, <4>1, NextIsEnding, Zenon
      <3>3. \E j \in 1 .. Len(t) : t[j] = "completed"
        <4>1. SUFFICES ASSUME \A j \in 1 .. Len(t) : t[j] # "completed" PROVE FALSE
          OBVIOUS
        <4>2. Begins(Append(ex.events, "completed"), due[n])
          <5>1. \A j \in 1 .. Len(t) : t[j] # Head(q)
            BY <3>0, <4>1
          <5>2. Begins(Append(ex.events, Head(q)), due[n])
            BY <2>31, <5>1, NextOfLines, Zenon
          <5> QED
            BY <3>0, <5>2
        <4>3. Len(Append(ex.events, "completed")) = Len(ex.events) + 1 /\ Len(ex.events) \in Nat
          <5>1. "completed" \in Item
            BY DEF Item
          <5> QED
            BY <1>2, <5>1, AppendProperties, LenProperties
        <4> QED
          BY <3>2, <4>2, <4>3 DEF Begins
      <3> QED
        BY <2>3, <3>2, <3>3
    <2>6. ASSUME i = "completed", cliCli.vendor = "claude"
          PROVE  Begins(Append(ex.events, "completed"), due[Len(due)])
      <3>1. Begins(Append(ex.events, "completed"), due[n])
        <4>1. Head(q) = "completed"
          BY <2>6 DEF i
        <4>2. \A j \in 1 .. Len(t) : t[j] # Head(q)
          BY <2>3, <2>6, <4>1
        <4>3. Begins(Append(ex.events, Head(q)), due[n])
          BY <2>31, <4>2, NextOfLines, Zenon
        <4> QED
          BY <4>1, <4>3
      <3>2. Begins(due[n], due[Len(due)])
        BY <1>1 DEF DueGrows
      <3>3. due[n] \in Seq(Item) /\ due[Len(due)] \in Seq(Item)
        <4>1. Len(due) \in 1 .. Len(due)
          BY <1>1, DueFacts DEF DueGrows
        <4> QED
          BY <1>1, <4>1, DueFacts
      <3>4. Append(ex.events, "completed") \in Seq(Item)
        BY <1>2, <2>6, AppendProperties
      <3> QED
        BY <3>1, <3>2, <3>3, <3>4, BeginsOn
    <2> HIDE DEF due
    <2> QED
      BY <1>2, <1>3, <2>1, <2>2, <2>4, <2>5, <2>6, StreamLeaves DEF due
  <1>8. CASE ex' = [e EXCEPT !.events = Append(@, i)] /\ UNCHANGED <<pump, cliCli>>
    <2>1. Append(ex.events, i) \in Seq(Item)
      BY <1>2, AppendProperties
    <2> DEFINE a == Append(ex.events, i)
    <2>2. ex' = [e EXCEPT !.events = a]
      BY <1>5, <1>8
    <2> HIDE DEF a
    <2>3. /\ ex' \in StreamState /\ ex'.pc = "loop" /\ ex'.gate = g /\ ex'.terminal = "none"
          /\ ex'.events = a
      BY <1>5, <2>1, <2>2 DEF StreamState, a
    <2>4. CliTyped'
      BY <1>1, <1>2, <1>8, <2>3 DEF CliTyped, Cli!Lines
    <2>5. DueGrows' /\ \A n : Endings(n)' = Endings(n)
      BY <1>1, <1>8 DEF DueGrows, Endings
    <2>6. CliGone' /\ Recorded'
      BY <1>3, <2>3 DEF CliGone, Recorded
    <2>7. ex'.events \o q' = ex.events \o q
      BY <1>1, <1>2, <2>3, Moves DEF a
    <2>8. EventsFlow'
      BY <1>1, <1>8, <2>3, <2>5, <2>7 DEF EventsFlow
    <2> QED
      BY <2>4, <2>5, <2>6, <2>8 DEF CliInv
  <1> QED
    BY <1>4, <1>6, <1>7, <1>8

(* The invariant of one CLI: it holds at first, every step keeps it, and   *)
(* it is enough.                                                           *)
LEMMA CliFacts ==
  /\ Cli!Init => CliInv
  /\ CliInv /\ [Cli!Next]_(Cli!vars) => CliInv'
  /\ CliInv => Cli!GateAfterCli /\ Cli!StoppedCliGone /\ Cli!RecordComplete
  <1>1. ASSUME Cli!Init PROVE CliInv
    <2>1. PICK v \in {"claude", "codex"}, g \in {"none", "held"} :
            /\ cliCli = [vendor |-> v, up |-> FALSE, child |-> "none", said |-> <<>>,
                         due |-> <<<<>>>>, rc |-> 0]
            /\ ex = [pc |-> "loop", gate |-> g, terminal |-> "none", events |-> <<>>]
      BY <1>1 DEF Cli!Init
    <2>2. pump = [pc |-> "preflight", read |-> 0, turn |-> FALSE, error |-> FALSE] /\ q = <<>>
      BY <1>1 DEF Cli!Init
    <2>3. /\ <<>> \in Seq(Item) /\ Len(<<>>) = 0 /\ <<>> \in Seq(Line)
          /\ <<>> \o <<>> = <<>>
      BY EmptySeq, ConcatEmptySeq
    <2> DEFINE d == <<<<>>>>
    <2>4. d \in Seq(Seq(Item)) /\ Len(d) = 1 /\ d[1] = <<>>
      BY <2>3
    <2> HIDE DEF d
    <2>5. /\ cliCli \in CliState /\ cliCli.said = <<>> /\ cliCli.due = d /\ ~ cliCli.up
          /\ cliCli.vendor = v
      BY <2>1, <2>3, <2>4 DEF CliState, d
    <2>6. /\ ex \in StreamState /\ ex.pc = "loop" /\ ex.gate # "closed" /\ ex.terminal = "none"
          /\ ex.events = <<>>
      BY <2>1, <2>3 DEF StreamState, Stopped
    <2>7. pump \in PumpState /\ pump.pc = "preflight" /\ pump.read = 0
      BY <2>2 DEF PumpState
    <2>8. CliTyped
      BY <2>2, <2>3, <2>5, <2>6, <2>7 DEF CliTyped
    <2>9. DueGrows
      <3>1. Begins(<<>>, <<>>)
        BY <2>3 DEF Begins
      <3>2. \A n \in 1 .. Len(d) : n = 1
        BY <2>4
      <3>3. \A n \in 1 .. Len(cliCli.said) : FALSE
        BY <2>3, <2>5
      <3>4. \A n \in 1 .. Len(d[1]) : FALSE
        BY <2>3, <2>4
      <3>5. Len(d) = Len(cliCli.said) + 1
        BY <2>3, <2>4, <2>5
      <3> HIDE DEF Begins
      <3> QED
        BY <2>4, <2>5, <3>1, <3>2, <3>3, <3>4, <3>5 DEF DueGrows
    <2>10. CliGone /\ EventsFlow /\ Recorded
      BY <2>2, <2>3, <2>4, <2>5, <2>6, <2>7 DEF CliGone, EventsFlow, Recorded
    <2> QED
      BY <2>8, <2>9, <2>10 DEF CliInv
  <1>2. ASSUME CliInv, [Cli!Next]_(Cli!vars) PROVE CliInv'
    <2>1. cliCli \in CliState
      BY <1>2 DEF CliInv, CliTyped
    <2>2. CASE Cli!Fork \/ Cli!Exit
      <3>1. /\ cliCli' \in CliState /\ UNCHANGED <<pump, q, ex>>
            /\ cliCli'.vendor = cliCli.vendor /\ cliCli'.said = cliCli.said
            /\ cliCli'.due = cliCli.due /\ (cliCli'.up => cliCli.up)
        BY <2>1, <2>2 DEF Cli!Fork, Cli!Exit, CliState
      <3> QED
        BY <1>2, <3>1, CliQuiet
    <2>3. CASE Cli!TermGrace \/ Cli!StopGrace
      <3>1. UNCHANGED <<pump, q, ex>> /\ cliCli' = Cli!_signal_group(cliCli)
        BY <2>3 DEF Cli!TermGrace, Cli!StopGrace
      <3>2. /\ cliCli' \in CliState /\ cliCli'.vendor = cliCli.vendor
            /\ cliCli'.said = cliCli.said /\ cliCli'.due = cliCli.due /\ ~ cliCli'.up
        BY <2>1, <3>1, GroupFacts
      <3> QED
        BY <1>2, <3>1, <3>2, CliQuiet
    <2>4. CASE Cli!Others \/ UNCHANGED Cli!vars
      <3>1. UNCHANGED <<cliCli, pump, q, ex>>
        BY <2>4 DEF Cli!Others, Cli!vars
      <3> QED
        BY <1>2, <2>1, <3>1, CliQuiet
    <2> QED
      BY <1>2, <2>2, <2>3, <2>4, SayInv, ReadInv, GeneratorInv, StreamInv, TakeInv DEF Cli!Next
  <1>3. ASSUME CliInv PROVE Cli!GateAfterCli /\ Cli!StoppedCliGone /\ Cli!RecordComplete
    <2>1. Cli!GateAfterCli /\ Cli!StoppedCliGone
      BY <1>3 DEF CliInv, CliGone, Cli!GateAfterCli, Cli!StoppedCliGone, Stopped
    <2>2. ASSUME ex.terminal = "completed", cliCli.vendor # "codex"
          PROVE  Cli!IsPrefix(Append(ex.events, "completed"), cliCli.due[Len(cliCli.due)])
      <3>1. Begins(Append(ex.events, "completed"), cliCli.due[Len(cliCli.due)])
        BY <1>3, <2>2 DEF CliInv, Recorded
      <3>2. ex.events \in Seq(Item) /\ "completed" \in Item
        BY <1>3 DEF CliInv, CliTyped, StreamState, Item
      <3>3. Append(ex.events, "completed") \in Seq(Item)
        BY <3>2, AppendProperties
      <3>4. Len(cliCli.due) \in 1 .. Len(cliCli.due)
        BY <1>3, DueFacts DEF CliInv, DueGrows
      <3>5. cliCli.due[Len(cliCli.due)] \in Seq(Item)
        BY <1>3, <3>4, DueFacts DEF CliInv
      <3> QED
        BY <3>1, <3>3, <3>5, BeginsPrefix
    <2>3. Cli!RecordComplete
      BY <1>3, <2>2 DEF CliInv, Recorded, Cli!RecordComplete, Cli!Last
    <2> QED
      BY <2>1, <2>3
  <1> QED
    BY <1>1, <1>2, <1>3

(* A CLI is gone when others act on it being gone, and a completed run has *)
(* recorded all that is due, however the CLI, its children, the generator, *)
(* the limits and the leases interleave (agent/executor.py, _stream;       *)
(* agent/real_cli.py).                                                     *)
THEOREM CliIsSound == SpecAll => []CliSound
  <1> DEFINE Inv == which = "cli" => CliInv
  <1>1. InitAll => Inv
    BY CliFacts DEF InitAll
  <1>2. Inv /\ [NextAll]_allVars => Inv'
    <2> SUFFICES ASSUME Inv, [NextAll]_allVars, which' = "cli" PROVE CliInv'
      OBVIOUS
    <2>1. which' = which /\ [Cli!Next]_(Cli!vars)
      BY DEF NextAll, Gating, ToolTurn, Streaming, Waking, allVars, cliVars, Cli!vars
    <2> QED
      BY <2>1, CliFacts
  <1>3. Inv => CliSound
    BY CliFacts DEF CliSound, GateAfterCli, StoppedCliGone, RecordComplete
  <1> QED
    BY <1>1, <1>2, <1>3, PTL DEF SpecAll

-----------------------------------------------------------------------------
(***************************************************************************)
(* The client's tools: the inductive invariant.                            *)
(***************************************************************************)

Told == [id : Nat, result : Tools!Result]
Tool == Tools!Declared \cup {"other"}
Text == {"none", "empty", "answer"}
Why == {"none", "cancelled", "refused", "quota", "not running", "UnknownToolCall",
        "UnexpectedToolCall", "InvalidToolArguments", "repeated", "call after terminal",
        "duplicate", "stopped", "changed", "expired", "interrupt", "unconfirmed",
        "required tool was not called", "cli", "ended", "worker_lost"}
LeaseState == {"none", "held", "lost", "stolen"}
Waiting == [id : Nat, tool : Tool, state : {"waiting"}, open : BOOLEAN]
Ready == [id : Nat, tool : Tool, state : {"ready"}, open : BOOLEAN, result : Tools!Result]

Status == {"pending", "running", "done", "error", "cancelled"}
JobRow ==
  [status : Status, cancel : BOOLEAN, call : {Tools!NoCall} \cup Waiting \cup Ready,
   history : SUBSET Told, waits : Nat, text : Text, why : Why]

Pc == {"idle", "read", "wait", "lost", "withdrawn", "gone", "end"}
Turn ==
  [pc : Pc, lease : LeaseState, id : Nat, seq : Nat, seen : SUBSET Nat, calls : Nat,
   rejected : 0 .. ArgRetries, reminded : 0 .. Reminders, stop : BOOLEAN, confirmed : BOOLEAN]

ToolTyped ==
  /\ job \in JobRow /\ turn \in Turn
  /\ asked \in SUBSET (Nat \ {0}) /\ accepted \in SUBSET Told

(* A call is on the row only while the run is running and the turn is not  *)
(* reading, and it is the one the turn waits for.                          *)
CallPlaced ==
  /\ job.status # "running" => job.call = Tools!NoCall
  /\ turn.pc \in {"idle", "read"} => job.call = Tools!NoCall
  /\ turn.pc = "wait" /\ job.status = "running" => job.call # Tools!NoCall /\ job.call.id = turn.id

(* Nothing was asked but what is answered or waited for.                   *)
AskedFollowed ==
  /\ turn.pc \in {"idle", "read"} => asked \subseteq Tools!Answered
  /\ turn.pc = "wait" /\ job.status = "running" => asked \subseteq Tools!Answered \cup {turn.id}

(* The history answers every call once, the one on the row not yet.        *)
HistoryOnce ==
  /\ IsFiniteSet(job.history) /\ Cardinality(job.history) <= MAX_CALLS
  /\ \A g, h \in job.history : g.id = h.id => g = h
  /\ job.call # Tools!NoCall =>
       /\ job.call.id # 0 /\ job.call.id \notin Tools!Answered
       /\ Cardinality(job.history) < MAX_CALLS

(* An accepted result is in the history or on the row.                     *)
Kept(a) ==
  \/ a \in job.history
  \/ job.call.state = "ready" /\ a = [id |-> job.call.id, result |-> job.call.result]
ResultsKept == job.status \in {"pending", "running"} => \A a \in accepted : Kept(a)

(* A turn that has counted a call, or is to stop, has an answer behind it. *)
CallsAnswered == turn.pc = "read" /\ (turn.calls > 0 \/ turn.stop) => job.history # {}

ToolsInv ==
  /\ ToolTyped /\ CallPlaced /\ AskedFollowed /\ HistoryOnce /\ ResultsKept /\ CallsAnswered
  /\ Tools!RequiredToolAnswered /\ Tools!WithdrawnStaysWithdrawn

(* What a step owes.                                                       *)
StepOK == ToolsInv' /\ Tools!NewId /\ Tools!EndsOnTerminal

-----------------------------------------------------------------------------
(* The locals of a turn that begins, or that is over.                      *)
LEMMA FreshFacts ==
  ASSUME ToolLimits, NEW l \in LeaseState, NEW p \in Pc
  PROVE  /\ Tools!Fresh(l) \in Turn /\ Tools!Fresh(l).pc = "read" /\ Tools!Fresh(l).calls = 0 /\ Tools!Fresh(l).stop = FALSE
         /\ Tools!Off(p) \in Turn /\ Tools!Off(p).pc = p /\ Tools!Off(p).calls = 0 /\ Tools!Off(p).stop = FALSE
  <1>1. ASSUME NEW k \in LeaseState
        PROVE  Tools!Fresh(k) \in Turn /\ Tools!Fresh(k).pc = "read" /\ Tools!Fresh(k).calls = 0 /\ Tools!Fresh(k).stop = FALSE
    BY DEF ToolLimits, Tools!Fresh, Turn, Pc
  <1>2. ASSUME NEW x \in Turn, x.calls = 0, x.stop = FALSE
        PROVE  /\ [x EXCEPT !.pc = p] \in Turn /\ [x EXCEPT !.pc = p].pc = p
               /\ [x EXCEPT !.pc = p].calls = 0 /\ [x EXCEPT !.pc = p].stop = FALSE
    BY <1>2 DEF Turn
  <1>3. "none" \in LeaseState
    BY DEF LeaseState
  <1> QED
    BY <1>1, <1>2, <1>3 DEF Tools!Off

(* No call.                                                                *)
LEMMA NoCallFacts == Tools!NoCall.id = 0 /\ Tools!NoCall.state = "none"
  BY DEF Tools!NoCall

(* What a call on the row can be.                                          *)
LEMMA CallFacts ==
  ASSUME ToolTyped, job.call # Tools!NoCall
  PROVE  /\ job.call.id \in Nat /\ job.call.open \in BOOLEAN /\ job.call.tool \in Tool
         /\ \/ job.call \in Waiting /\ job.call.state = "waiting"
            \/ job.call \in Ready /\ job.call.state = "ready" /\ job.call.result \in Tools!Result
  BY DEF ToolTyped, JobRow, Waiting, Ready

(* Only a call on the row has another state than none.                     *)
LEMMA StateFacts ==
  ASSUME ToolTyped
  PROVE  job.call = Tools!NoCall <=> job.call.state \notin {"waiting", "ready"}
  BY CallFacts, NoCallFacts DEF ToolTyped

(* The fields of a closed row.                                             *)
LEMMA ClosedFacts ==
  ASSUME ToolTyped, NEW st \in Status, NEW tx \in Text, NEW w \in Why
  PROVE  /\ Tools!Closed(st, tx, w) \in JobRow /\ Tools!Closed(st, tx, w).status = st
         /\ Tools!Closed(st, tx, w).text = tx /\ Tools!Closed(st, tx, w).call = Tools!NoCall
         /\ Tools!Closed(st, tx, w).history = job.history
  BY DEF ToolTyped, JobRow, Tools!Closed

-----------------------------------------------------------------------------
(* A turn that ends, whether or not its last write closes the run.         *)
LEMMA EndInv ==
  ASSUME ToolLimits, ToolsInv, NEW p \in {"end", "gone", "lost"}, turn' = Tools!Off(p),
         UNCHANGED <<choice, asked, accepted>>,
         \/ job' = job
         \/ \E st \in {"done", "error", "cancelled"}, tx \in Text, w \in Why :
              /\ job' = Tools!Closed(st, tx, w)
              /\ st = "done" =>
                   /\ Tools!Required => job.history # {}
                   /\ IF turn.stop THEN turn.confirmed /\ tx = "empty" ELSE tx = "answer"
  PROVE  StepOK
  <1>1. turn' \in Turn /\ turn'.pc = p
    <2>1. p \in Pc /\ "none" \in LeaseState
      BY DEF Pc, LeaseState
    <2> QED
      BY <2>1, FreshFacts
  <1>2. /\ job' \in JobRow /\ job'.history = job.history
        /\ job'.call \in {job.call, Tools!NoCall} /\ job'.status \in {job.status, "done", "error", "cancelled"}
        /\ job' = job \/ (job'.call = Tools!NoCall /\ job'.status \in {"done", "error", "cancelled"})
        /\ job' # job /\ job'.status = "done" =>
             /\ Tools!Required => job.history # {}
             /\ IF turn.stop THEN turn.confirmed /\ job'.text = "empty" ELSE job'.text = "answer"
    <2>1. CASE job' = job
      BY <2>1 DEF ToolsInv, ToolTyped
    <2>2. CASE job' # job
      <3>1. PICK st \in {"done", "error", "cancelled"}, tx \in Text, w \in Why :
              /\ job' = Tools!Closed(st, tx, w)
              /\ st = "done" =>
                   /\ Tools!Required => job.history # {}
                   /\ IF turn.stop THEN turn.confirmed /\ tx = "empty" ELSE tx = "answer"
        BY <2>2
      <3>2. st \in Status
        BY DEF Status
      <3> QED
        BY <3>1, <3>2, ClosedFacts DEF ToolsInv
    <2> QED
      BY <2>1, <2>2
  <1>3. ToolTyped' /\ CallPlaced' /\ AskedFollowed' /\ CallsAnswered' /\ Tools!WithdrawnStaysWithdrawn'
    BY <1>1, <1>2 DEF ToolsInv, ToolTyped, CallPlaced, AskedFollowed, CallsAnswered, Tools!WithdrawnStaysWithdrawn
  <1>4. Tools!Answered' = Tools!Answered
    BY <1>2 DEF Tools!Answered
  <1>5. HistoryOnce'
    BY <1>2, <1>4 DEF ToolsInv, HistoryOnce
  <1>6. ResultsKept'
    BY <1>2 DEF ToolsInv, ResultsKept, Kept
  <1>7. Tools!RequiredToolAnswered'
    BY <1>2 DEF ToolsInv, Tools!RequiredToolAnswered, Tools!Required
  <1>8. Tools!NewId
    BY <1>1 DEF Tools!NewId
  <1>9. Tools!EndsOnTerminal
    BY <1>2 DEF Tools!EndsOnTerminal
  <1> QED
    BY <1>3, <1>5, <1>6, <1>7, <1>8, <1>9 DEF StepOK, ToolsInv

USE DEF Text, Why, LeaseState

(* The instance counts the way this module does.                           *)
LEMMA ToolsCount ==
  ASSUME NEW S
  PROVE  Tools!Cardinality(S) = Cardinality(S)
  BY Zenon DEF Tools!Cardinality, Cardinality

(* Finish with an outcome other than done.                                 *)
LEMMA FailInv ==
  ASSUME ToolLimits, ToolsInv, UNCHANGED <<choice, asked, accepted>>,
         NEW st \in {"error", "cancelled"}, NEW tx \in Text, NEW w \in Why, Tools!Finish(st, tx, w)
  PROVE  StepOK
  <1>1. turn' = Tools!Off("gone") \/ turn' = Tools!Off("end")
    BY DEF Tools!Finish
  <1>2. job' = job \/ job' = Tools!Closed(st, tx, w)
    BY DEF Tools!Finish
  <1>3. PICK p \in {"end", "gone", "lost"} : turn' = Tools!Off(p)
    BY <1>1
  <1>4. \/ job' = job
        \/ \E s \in {"done", "error", "cancelled"}, x \in Text, y \in Why :
             /\ job' = Tools!Closed(s, x, y)
             /\ s = "done" =>
                  /\ Tools!Required => job.history # {}
                  /\ IF turn.stop THEN turn.confirmed /\ x = "empty" ELSE x = "answer"
    <2>1. st \in {"done", "error", "cancelled"} /\ st # "done"
      OBVIOUS
    <2> HIDE DEF Text, Why
    <2> QED
      BY <1>2, <2>1, Zenon
  <1> QED
    BY <1>3, <1>4, EndInv, Zenon

(* Finish with a text: the run is done.                                    *)
LEMMA DoneInv ==
  ASSUME ToolLimits, ToolsInv, UNCHANGED <<choice, asked, accepted>>,
         NEW tx \in Text, Tools!Finish("done", tx, "none"),
         Tools!Required => job.history # {},
         IF turn.stop THEN turn.confirmed /\ tx = "empty" ELSE tx = "answer"
  PROVE  StepOK
  <1>1. turn' = Tools!Off("gone") \/ turn' = Tools!Off("end")
    BY DEF Tools!Finish
  <1>2. job' = job \/ job' = Tools!Closed("done", tx, "none")
    BY DEF Tools!Finish
  <1> QED
    BY <1>1, <1>2, EndInv

(* A step of a reading turn that touches its counters only.                *)
LEMMA ToolReadInv ==
  ASSUME ToolsInv, turn.pc = "read", UNCHANGED <<choice, job, asked, accepted>>,
         turn' \in Turn, turn'.pc = "read", turn'.calls = turn.calls, turn'.stop = turn.stop
  PROVE  StepOK
  <1>1. /\ ToolTyped' /\ CallPlaced' /\ AskedFollowed' /\ CallsAnswered' /\ Tools!WithdrawnStaysWithdrawn'
        /\ Tools!RequiredToolAnswered'
    BY DEF ToolsInv, ToolTyped, CallPlaced, AskedFollowed, CallsAnswered, Tools!Answered,
           Tools!WithdrawnStaysWithdrawn, Tools!RequiredToolAnswered, Tools!Required
  <1>2. HistoryOnce' /\ ResultsKept'
    BY DEF ToolsInv, HistoryOnce, ResultsKept, Kept, Tools!Answered
  <1>3. Tools!NewId /\ Tools!EndsOnTerminal
    BY DEF Tools!NewId, Tools!EndsOnTerminal
  <1> QED
    BY <1>1, <1>2, <1>3 DEF StepOK, ToolsInv

(* park_for_quota: the row keeps what the client answered.                 *)
LEMMA ParkInv ==
  ASSUME ToolLimits, ToolsInv, turn.pc = "read", UNCHANGED <<choice, asked, accepted>>, Tools!park_for_quota
  PROVE  StepOK
  <1>1. CASE Tools!Fenced \/ job.status # "running"
    BY <1>1, EndInv DEF Tools!park_for_quota
  <1>2. CASE ~ (Tools!Fenced \/ job.status # "running") /\ job.waits = MaxWaits
    BY <1>2, FailInv DEF Tools!park_for_quota, Tools!Fail
  <1>3. CASE ~ (Tools!Fenced \/ job.status # "running") /\ job.waits # MaxWaits
    <2>1. /\ job' = [job EXCEPT !.status = "pending", !.waits = @ + 1] /\ turn' = Tools!Off("idle")
      BY <1>3 DEF Tools!park_for_quota
    <2>2. /\ job' \in JobRow /\ job'.status = "pending" /\ job'.call = job.call
          /\ job'.history = job.history
      <3>0. job.waits \in Nat
        BY DEF ToolsInv, ToolTyped, JobRow
      <3>1. job.waits + 1 \in Nat /\ "pending" \in Status
        BY <3>0 DEF Status
      <3>2. job' = [job EXCEPT !.status = "pending", !.waits = job.waits + 1]
        BY <2>1
      <3> QED
        BY <3>1, <3>2 DEF ToolsInv, ToolTyped, JobRow
    <2>3. turn' \in Turn /\ turn'.pc = "idle"
      BY <2>1, FreshFacts DEF Pc
    <2>4. job.call = Tools!NoCall /\ asked \subseteq Tools!Answered /\ job.status = "running"
      BY <1>3 DEF ToolsInv, CallPlaced, AskedFollowed
    <2>5. Tools!Answered' = Tools!Answered
      BY <2>2 DEF Tools!Answered
    <2>6. ToolTyped' /\ CallPlaced' /\ AskedFollowed' /\ CallsAnswered' /\ Tools!WithdrawnStaysWithdrawn'
          /\ Tools!RequiredToolAnswered'
      BY <2>2, <2>3, <2>4, <2>5 DEF ToolsInv, ToolTyped, CallPlaced, AskedFollowed, CallsAnswered,
             Tools!WithdrawnStaysWithdrawn, Tools!RequiredToolAnswered
    <2>7. HistoryOnce' /\ ResultsKept'
      BY <2>2, <2>4, <2>5 DEF ToolsInv, HistoryOnce, ResultsKept, Kept
    <2>8. Tools!NewId /\ Tools!EndsOnTerminal
      BY <2>2, <2>3 DEF Tools!NewId, Tools!EndsOnTerminal
    <2> QED
      BY <2>6, <2>7, <2>8 DEF StepOK, ToolsInv
  <1> QED
    BY <1>1, <1>2, <1>3

-----------------------------------------------------------------------------
(* The actions.                                                            *)

(* A claim: refused, cancelled or started.                                 *)
LEMMA ExecuteInv ==
  ASSUME ToolLimits, ToolsInv, Tools!execute_run
  PROVE  StepOK
  <1>1. UNCHANGED <<choice, asked, accepted>> /\ turn.pc = "idle" /\ job.status = "pending"
    BY DEF Tools!execute_run
  <1>2. CASE job' = Tools!Closed("error", "none", "refused") /\ turn' = Tools!Off("end")
    BY <1>1, <1>2, EndInv
  <1>3. CASE job' = Tools!Closed("cancelled", "none", "cancelled") /\ turn' = Tools!Off("end")
    BY <1>1, <1>3, EndInv
  <1>4. ASSUME NEW l \in {"none", "held"}, turn' = Tools!Fresh(l), job' = [job EXCEPT !.status = "running"]
        PROVE  StepOK
    <2>1. /\ job' \in JobRow /\ job'.status = "running" /\ job'.call = job.call
          /\ job'.history = job.history
      BY <1>4 DEF ToolsInv, ToolTyped, JobRow, Status
    <2>2. turn' \in Turn /\ turn'.pc = "read" /\ turn'.calls = 0 /\ turn'.stop = FALSE
      BY <1>4, FreshFacts DEF Pc
    <2>3. job.call = Tools!NoCall /\ asked \subseteq Tools!Answered
      BY <1>1 DEF ToolsInv, CallPlaced, AskedFollowed
    <2>4. Tools!Answered' = Tools!Answered
      BY <2>1 DEF Tools!Answered
    <2>5. ToolTyped' /\ CallPlaced' /\ AskedFollowed' /\ CallsAnswered' /\ Tools!WithdrawnStaysWithdrawn'
          /\ Tools!RequiredToolAnswered'
      BY <1>1, <2>1, <2>2, <2>3, <2>4 DEF ToolsInv, ToolTyped, CallPlaced, AskedFollowed, CallsAnswered,
             Tools!WithdrawnStaysWithdrawn, Tools!RequiredToolAnswered
    <2>6. HistoryOnce' /\ ResultsKept'
      BY <1>1, <2>1, <2>3, <2>4 DEF ToolsInv, HistoryOnce, ResultsKept, Kept
    <2>7. Tools!NewId /\ Tools!EndsOnTerminal
      BY <1>1, <2>1, <2>2 DEF Tools!NewId, Tools!EndsOnTerminal
    <2> QED
      BY <2>5, <2>6, <2>7 DEF StepOK, ToolsInv
  <1> QED
    BY <1>2, <1>3, <1>4 DEF Tools!execute_run

(* A call is published under an id that was never asked.                   *)
LEMMA PublishInv ==
  ASSUME ToolLimits, ToolsInv, turn.pc = "read", UNCHANGED <<choice, accepted>>,
         NEW tool \in Tool, NEW id \in Nat \ {0}, ~ Tools!Repeated(id), job.status = "running",
         Tools!Published(tool, id)
  PROVE  StepOK
  <1>1. /\ job' = [job EXCEPT !.call = [id |-> id, tool |-> tool, state |-> "waiting", open |-> TRUE]]
        /\ asked' = asked \cup {id}
        /\ turn' = [turn EXCEPT !.pc = "wait", !.id = id, !.seq = id, !.seen = @ \cup {id},
                                !.calls = @ + 1]
    BY DEF Tools!Published
  <1> DEFINE c == [id |-> id, tool |-> tool, state |-> "waiting", open |-> TRUE]
  <1>2. c \in Waiting /\ c.id = id /\ c.state = "waiting" /\ c # Tools!NoCall
    BY NoCallFacts DEF Waiting
  <1>3. job' = [job EXCEPT !.call = c]
    BY <1>1
  <1> HIDE DEF c
  <1>4. /\ job' \in JobRow /\ job'.status = "running" /\ job'.call = c
        /\ job'.history = job.history
    BY <1>2, <1>3 DEF ToolsInv, ToolTyped, JobRow
  <1>5. turn' \in Turn /\ turn'.pc = "wait" /\ turn'.id = id
    <2>1. turn.calls + 1 \in Nat /\ turn.seen \cup {id} \in SUBSET Nat /\ "wait" \in Pc
      BY DEF ToolsInv, ToolTyped, Turn, Pc
    <2>2. turn' = [turn EXCEPT !.pc = "wait", !.id = id, !.seq = id, !.seen = turn.seen \cup {id},
                               !.calls = turn.calls + 1]
      BY <1>1
    <2> QED
      BY <2>1, <2>2 DEF ToolsInv, ToolTyped, Turn
  <1>6. id \notin Tools!Answered /\ asked \subseteq Tools!Answered /\ job.call = Tools!NoCall
    BY DEF Tools!Repeated, ToolsInv, AskedFollowed, CallPlaced
  <1>7. Cardinality(job.history) < MAX_CALLS
    <2>1. Cardinality(job.history) \in Nat
      BY FS_CardinalityType DEF ToolsInv, HistoryOnce
    <2> QED
      BY <2>1, ToolsCount DEF Tools!Repeated, ToolLimits
  <1>8. Tools!Answered' = Tools!Answered
    BY <1>4 DEF Tools!Answered
  <1>9. ToolTyped' /\ CallPlaced' /\ AskedFollowed' /\ CallsAnswered' /\ Tools!WithdrawnStaysWithdrawn'
        /\ Tools!RequiredToolAnswered'
    BY <1>1, <1>2, <1>4, <1>5, <1>6, <1>8 DEF ToolsInv, ToolTyped, CallPlaced, AskedFollowed,
           CallsAnswered, Tools!WithdrawnStaysWithdrawn, Tools!RequiredToolAnswered
  <1>10. HistoryOnce'
    BY <1>2, <1>4, <1>6, <1>7, <1>8 DEF ToolsInv, HistoryOnce
  <1>11. ResultsKept'
    BY <1>4, <1>6, NoCallFacts DEF ToolsInv, ResultsKept, Kept
  <1>12. Tools!NewId
    BY <1>5, <1>6 DEF Tools!NewId
  <1>13. Tools!EndsOnTerminal
    BY <1>4 DEF Tools!EndsOnTerminal
  <1> QED
    BY <1>9, <1>10, <1>11, <1>12, <1>13 DEF StepOK, ToolsInv

(* A line with a call: published, told to the model, or the end.           *)
LEMMA ToolCallInv ==
  ASSUME ToolLimits, ToolsInv, Tools!ToolCall
  PROVE  StepOK
  <1>1. turn.pc = "read" /\ UNCHANGED <<choice, accepted>>
    BY DEF Tools!ToolCall
  <1>2. PICK id \in Tools!NextIds, tool \in Tools!Declared \cup {"other"}, good \in BOOLEAN :
          LET refusal == Tools!publish_call(tool, good, id) IN
          IF turn.stop THEN Tools!Fail("call after terminal") /\ UNCHANGED asked
          ELSE IF toolsCli = "codex" /\ id \in turn.seen THEN Tools!Fail("duplicate") /\ UNCHANGED asked
          ELSE IF Tools!Fenced THEN turn' = Tools!Off("gone") /\ UNCHANGED <<job, asked>>
          ELSE IF refusal = "none" THEN Tools!Published(tool, id)
          ELSE IF refusal = "InvalidToolArguments" /\ turn.rejected < ArgRetries THEN Tools!Rejected(id)
          ELSE Tools!Fail(refusal) /\ UNCHANGED asked
    BY DEF Tools!ToolCall
  <1>3. id \in Nat \ {0}
    <2>1. turn.seq \in Nat /\ MaxId \in Nat
      BY DEF ToolsInv, ToolTyped, Turn, ToolLimits
    <2>2. id \in {turn.seq + 1} \/ id \in 1 .. MaxId
      BY <1>2 DEF Tools!NextIds
    <2> QED
      BY <2>1, <2>2
  <1>4. tool \in Tool
    BY DEF Tool
  <1> DEFINE refusal == Tools!publish_call(tool, good, id)
  <1>5. refusal \in Why
    BY DEF Tools!publish_call, Tools!validate_result, Why
  <1>6. refusal = "none" => job.status = "running" /\ ~ Tools!Repeated(id)
    BY DEF Tools!publish_call, Tools!validate_result
  <1> HIDE DEF refusal
  <1>7. CASE \E w \in Why : Tools!Fail(w) /\ UNCHANGED asked
    BY <1>1, <1>7, FailInv DEF Tools!Fail
  <1>8. CASE turn' = Tools!Off("gone") /\ UNCHANGED <<job, asked>>
    BY <1>1, <1>8, EndInv
  <1>9. CASE refusal = "none" /\ Tools!Published(tool, id)
    BY <1>1, <1>3, <1>4, <1>6, <1>9, PublishInv
  <1>10. CASE turn.rejected < ArgRetries /\ Tools!Rejected(id)
    <2>1. turn' = [turn EXCEPT !.seq = id, !.seen = @ \cup {id}, !.rejected = @ + 1]
          /\ UNCHANGED <<job, asked>>
      BY <1>10 DEF Tools!Rejected
    <2>2. turn' \in Turn /\ turn'.pc = "read" /\ turn'.calls = turn.calls /\ turn'.stop = turn.stop
      <3>1. turn.rejected + 1 \in 0 .. ArgRetries
        BY <1>10 DEF ToolsInv, ToolTyped, Turn, ToolLimits
      <3>2. turn.seen \cup {id} \in SUBSET Nat
        BY <1>3 DEF ToolsInv, ToolTyped, Turn
      <3>3. turn' = [turn EXCEPT !.seq = id, !.seen = turn.seen \cup {id},
                                 !.rejected = turn.rejected + 1]
        BY <2>1
      <3> QED
        BY <1>1, <1>3, <3>1, <3>2, <3>3 DEF ToolsInv, ToolTyped, Turn
    <2> QED
      BY <1>1, <2>1, <2>2, ToolReadInv
  <1> QED
    BY <1>2, <1>5, <1>7, <1>8, <1>9, <1>10 DEF refusal

(* take_result: a ready result moves to the history.                       *)
LEMMA DeliverInv ==
  ASSUME ToolLimits, ToolsInv, turn.pc = "wait", job.status = "running", job.call.state = "ready",
         UNCHANGED <<choice, asked, accepted>>, Tools!Delivered
  PROVE  StepOK
  <1> DEFINE h == [id |-> job.call.id, result |-> job.call.result]
  <1>1. job.call # Tools!NoCall /\ job.call.id = turn.id
    BY DEF ToolsInv, CallPlaced
  <1>2. h \in Told /\ h.id = job.call.id /\ job.call.result \in Tools!Result
    BY <1>1, CallFacts DEF ToolsInv, Told
  <1>3. /\ job' = [job EXCEPT !.call = Tools!NoCall, !.history = @ \cup {h}]
        /\ turn' = [turn EXCEPT !.pc = "read", !.id = 0, !.stop = job.call.result.terminal]
    BY DEF Tools!Delivered
  <1>3a. Kept(h) /\ (\A a : Kept(a) <=> a \in job.history \cup {h})
    BY DEF Kept
  <1> HIDE DEF h
  <1>4. /\ job' \in JobRow /\ job'.status = "running" /\ job'.call = Tools!NoCall
        /\ job'.history = job.history \cup {h}
    BY <1>2, <1>3 DEF ToolsInv, ToolTyped, JobRow
  <1>5. job.call.result.terminal \in BOOLEAN
    BY <1>2 DEF Tools!Result
  <1>6. turn' \in Turn /\ turn'.pc = "read"
    BY <1>3, <1>5 DEF ToolsInv, ToolTyped, Turn, Pc
  <1>7. Tools!Answered' = Tools!Answered \cup {turn.id}
    BY <1>1, <1>2, <1>4 DEF Tools!Answered
  <1>8. ToolTyped' /\ CallPlaced' /\ AskedFollowed' /\ CallsAnswered' /\ Tools!WithdrawnStaysWithdrawn'
        /\ Tools!RequiredToolAnswered'
    BY <1>4, <1>6, <1>7 DEF ToolsInv, ToolTyped, CallPlaced, AskedFollowed,
           CallsAnswered, Tools!WithdrawnStaysWithdrawn, Tools!RequiredToolAnswered
  <1>9. job.call.id \notin Tools!Answered /\ h \notin job.history
    BY <1>1, <1>2 DEF ToolsInv, HistoryOnce, Tools!Answered
  <1>10. IsFiniteSet(job'.history) /\ Cardinality(job'.history) <= MAX_CALLS
    <2>1. IsFiniteSet(job.history) /\ Cardinality(job.history) < MAX_CALLS
      BY <1>1 DEF ToolsInv, HistoryOnce
    <2>2. Cardinality(job.history) \in Nat
      BY <2>1, FS_CardinalityType
    <2>3. IsFiniteSet(job'.history) /\ Cardinality(job'.history) = Cardinality(job.history) + 1
      BY <1>4, <1>9, <2>1, FS_AddElement
    <2> QED
      BY <2>1, <2>2, <2>3 DEF ToolLimits
  <1>11. \A f, g \in job'.history : f.id = g.id => f = g
    BY <1>2, <1>4, <1>9 DEF ToolsInv, HistoryOnce, Tools!Answered
  <1>12. HistoryOnce'
    BY <1>4, <1>10, <1>11 DEF HistoryOnce
  <1>13. ResultsKept'
    BY <1>3a, <1>4 DEF ToolsInv, ResultsKept, Kept
  <1>14. Tools!NewId /\ Tools!EndsOnTerminal
    BY <1>4, <1>6 DEF Tools!NewId, Tools!EndsOnTerminal
  <1> QED
    BY <1>8, <1>12, <1>13, <1>14 DEF StepOK, ToolsInv

(* A poll for the result.                                                  *)
LEMMA ToolTakeInv ==
  ASSUME ToolLimits, ToolsInv, Tools!take_result
  PROVE  StepOK
  <1>1. turn.pc = "wait" /\ UNCHANGED <<choice, asked, accepted>>
    BY DEF Tools!take_result
  <1>2. CASE turn' = Tools!Off("gone") /\ UNCHANGED job
    BY <1>1, <1>2, EndInv
  <1>3. CASE \E w \in Why : Tools!Fail(w)
    BY <1>1, <1>3, FailInv DEF Tools!Fail
  <1>4. CASE Tools!Finish("cancelled", "none", "cancelled")
    BY <1>1, <1>4, FailInv
  <1>5. CASE job.status = "running" /\ job.call.state = "ready" /\ Tools!Delivered
    BY <1>1, <1>5, DeliverInv
  <1> QED
    BY <1>2, <1>3, <1>4, <1>5 DEF Tools!take_result

(* The answer to the interrupt.                                            *)
LEMMA ConfirmInv ==
  ASSUME ToolLimits, ToolsInv, Tools!Confirm
  PROVE  StepOK
  <1>1. turn.pc = "read" /\ UNCHANGED <<choice, asked, accepted>>
    BY DEF Tools!Confirm
  <1>2. CASE Tools!Fail("interrupt")
    BY <1>1, <1>2, FailInv DEF Tools!Fail
  <1>3. CASE turn' = [turn EXCEPT !.confirmed = TRUE] /\ UNCHANGED job
    <2>1. turn' \in Turn /\ turn'.pc = "read" /\ turn'.calls = turn.calls /\ turn'.stop = turn.stop
      BY <1>1, <1>3 DEF ToolsInv, ToolTyped, Turn
    <2> QED
      BY <1>1, <1>3, <2>1, ToolReadInv
  <1> QED
    BY <1>2, <1>3 DEF Tools!Confirm

(* The end of a turn, stopped or of itself.                                *)
LEMMA TurnEndsInv ==
  ASSUME ToolLimits, ToolsInv, Tools!TurnEnds
  PROVE  StepOK
  <1>1. turn.pc = "read" /\ UNCHANGED <<choice, asked, accepted>>
    BY DEF Tools!TurnEnds
  <1>2. CASE Tools!park_for_quota
    BY <1>1, <1>2, ParkInv
  <1>3. CASE \E w \in Why : Tools!Fail(w)
    BY <1>1, <1>3, FailInv DEF Tools!Fail
  <1>4. CASE turn.stop /\ turn.confirmed /\ Tools!Finish("done", "empty", "none")
    <2>1. job.history # {}
      BY <1>1, <1>4 DEF ToolsInv, CallsAnswered
    <2> QED
      BY <1>1, <1>4, <2>1, DoneInv
  <1>5. CASE ~turn.stop /\ Tools!Answer
    <2>1. CASE turn.calls > 0 \/ ~Tools!Required
      <3>1. Tools!Finish("done", "answer", "none")
        BY <1>5, <2>1 DEF Tools!Answer
      <3>2. Tools!Required => job.history # {}
        BY <1>1, <2>1 DEF ToolsInv, CallsAnswered
      <3> QED
        BY <1>1, <1>5, <3>1, <3>2, DoneInv
    <2>2. CASE ~ (turn.calls > 0 \/ ~Tools!Required) /\ turn.reminded < Reminders
      <3>1. turn' = [turn EXCEPT !.reminded = @ + 1] /\ UNCHANGED job
        BY <1>5, <2>2 DEF Tools!Answer
      <3>2. turn' \in Turn /\ turn'.pc = "read" /\ turn'.calls = turn.calls /\ turn'.stop = turn.stop
        BY <1>1, <2>2, <3>1 DEF ToolsInv, ToolTyped, Turn, ToolLimits
      <3> QED
        BY <1>1, <3>1, <3>2, ToolReadInv
    <2>3. CASE ~ (turn.calls > 0 \/ ~Tools!Required) /\ ~ (turn.reminded < Reminders)
      BY <1>3, <1>5, <2>3 DEF Tools!Answer
    <2> QED
      BY <2>1, <2>2, <2>3
  <1> QED
    BY <1>2, <1>3, <1>4, <1>5 DEF Tools!TurnEnds, Tools!Stopped

(* Lease loss: the turn's other locals stay.                               *)
LEMMA LeaseInv ==
  ASSUME ToolLimits, ToolsInv, Tools!LeaseLost
  PROVE  StepOK
  <1>1. UNCHANGED <<choice, job, asked, accepted>>
    BY DEF Tools!LeaseLost
  <1>2. PICK l \in {"lost", "stolen"} : turn' = [turn EXCEPT !.lease = l]
    BY DEF Tools!LeaseLost
  <1>3. /\ turn' \in Turn /\ turn'.pc = turn.pc /\ turn'.calls = turn.calls
        /\ turn'.stop = turn.stop /\ turn'.id = turn.id
    BY <1>2 DEF ToolsInv, ToolTyped, Turn
  <1>4. /\ ToolTyped' /\ CallPlaced' /\ AskedFollowed' /\ CallsAnswered' /\ Tools!WithdrawnStaysWithdrawn'
        /\ Tools!RequiredToolAnswered'
    BY <1>1, <1>3 DEF ToolsInv, ToolTyped, CallPlaced, AskedFollowed, CallsAnswered, Tools!Answered,
           Tools!WithdrawnStaysWithdrawn, Tools!RequiredToolAnswered, Tools!Required
  <1>5. HistoryOnce' /\ ResultsKept'
    BY <1>1 DEF ToolsInv, HistoryOnce, ResultsKept, Kept, Tools!Answered
  <1>6. Tools!NewId /\ Tools!EndsOnTerminal
    BY <1>1, <1>3 DEF Tools!NewId, Tools!EndsOnTerminal
  <1> QED
    BY <1>4, <1>5, <1>6 DEF StepOK, ToolsInv

(* A change of the row that leaves the turn alone: what becomes of the     *)
(* call on it.                                                             *)
LEMMA RowInv ==
  ASSUME ToolsInv, UNCHANGED <<choice, asked>>,
         turn' = turn \/ (turn.pc = "lost" /\ turn' = Tools!Off("withdrawn") /\ ToolLimits),
         job' \in JobRow, accepted' \in SUBSET Told, job'.history = job.history,
         job'.status = "running", job.status = "running",
         \/ job'.call = Tools!NoCall /\ turn.pc = "lost" /\ job.call.state # "ready"
         \/ /\ job'.call.id = job.call.id
            /\ job'.call = Tools!NoCall <=> job.call = Tools!NoCall
            /\ turn' # turn => job'.call.state # "waiting"
            /\ job'.call.state = "waiting" => job.call.state = "waiting",
         \A a \in accepted' : Kept(a)'
  PROVE  StepOK
  <1>2. turn' \in Turn /\ (turn' = turn \/ (turn'.pc = "withdrawn" /\ turn.pc = "lost"))
    BY FreshFacts DEF ToolsInv, ToolTyped, Pc
  <1>3. Tools!Answered' = Tools!Answered
    BY DEF Tools!Answered
  <1>4. ToolTyped' /\ CallPlaced' /\ AskedFollowed' /\ CallsAnswered'
    BY <1>2, <1>3 DEF ToolsInv, ToolTyped, CallPlaced, AskedFollowed, CallsAnswered
  <1>5. Tools!WithdrawnStaysWithdrawn' /\ Tools!RequiredToolAnswered'
    BY <1>2, NoCallFacts DEF ToolsInv, Tools!WithdrawnStaysWithdrawn, Tools!RequiredToolAnswered
  <1>6. HistoryOnce'
    BY <1>3 DEF ToolsInv, HistoryOnce
  <1>7. ResultsKept'
    BY DEF ResultsKept
  <1>8. Tools!NewId /\ Tools!EndsOnTerminal
    BY <1>2 DEF Tools!NewId, Tools!EndsOnTerminal
  <1> QED
    BY <1>4, <1>5, <1>6, <1>7, <1>8 DEF StepOK, ToolsInv

(* clear_pending_call withdraws a call nobody answered, and no other.      *)
LEMMA ClearInv ==
  ASSUME ToolLimits, ToolsInv, Tools!clear_pending_call
  PROVE  StepOK
  <1>1. /\ turn.pc = "lost" /\ turn' = Tools!Off("withdrawn") /\ UNCHANGED <<choice, asked, accepted>>
        /\ accepted \in SUBSET Told
    BY DEF Tools!clear_pending_call, ToolsInv, ToolTyped
  <1>2. CASE job.status = "running" /\ job.call.state = "waiting"
    <2>1. job' = [job EXCEPT !.call = Tools!NoCall]
      BY <1>2 DEF Tools!clear_pending_call
    <2>2. /\ job' \in JobRow /\ job'.history = job.history /\ job'.status = "running"
          /\ job'.call = Tools!NoCall
      BY <1>2, <2>1 DEF ToolsInv, ToolTyped, JobRow
    <2>3. \A a \in accepted' : Kept(a)'
      BY <1>1, <1>2, <2>2 DEF ToolsInv, ResultsKept, Kept
    <2> QED
      BY <1>1, <1>2, <2>2, <2>3, RowInv
  <1>3. CASE job.status = "running" /\ job.call.state # "waiting"
    <2>1. job' = job /\ job \in JobRow
      BY <1>3 DEF Tools!clear_pending_call, ToolsInv, ToolTyped
    <2>3. \A a \in accepted' : Kept(a)'
      BY <1>1, <1>3, <2>1 DEF ToolsInv, ResultsKept, Kept
    <2> QED
      BY <1>1, <1>3, <2>1, <2>3, RowInv
  <1>4. CASE job.status # "running"
    <2>1. job' = job
      BY <1>4 DEF Tools!clear_pending_call
    <2>2. turn' \in Turn /\ turn'.pc = "withdrawn"
      BY <1>1, FreshFacts DEF Pc
    <2>3. job.call = Tools!NoCall /\ job.call.state # "waiting"
      BY <1>4, NoCallFacts DEF ToolsInv, CallPlaced
    <2>4. /\ ToolTyped' /\ CallPlaced' /\ AskedFollowed' /\ CallsAnswered' /\ Tools!WithdrawnStaysWithdrawn'
          /\ Tools!RequiredToolAnswered'
      BY <1>1, <2>1, <2>2, <2>3 DEF ToolsInv, ToolTyped, CallPlaced, AskedFollowed, CallsAnswered,
             Tools!WithdrawnStaysWithdrawn, Tools!RequiredToolAnswered, Tools!Required
    <2>5. HistoryOnce' /\ ResultsKept'
      BY <1>1, <2>1 DEF ToolsInv, HistoryOnce, ResultsKept, Kept, Tools!Answered
    <2>6. Tools!NewId /\ Tools!EndsOnTerminal
      BY <1>1, <2>1, <2>2 DEF Tools!NewId, Tools!EndsOnTerminal
    <2> QED
      BY <2>4, <2>5, <2>6 DEF StepOK, ToolsInv
  <1> QED
    BY <1>2, <1>3, <1>4

(* submit_result accepts what answers the call on the row.                 *)
LEMMA SubmitInv ==
  ASSUME ToolLimits, ToolsInv, Tools!submit_result
  PROVE  StepOK
  <1>1. PICK id \in asked, r \in Tools!Result :
          /\ Tools!Reply(id, r) = "new"
          /\ job' = [job EXCEPT !.call = [id |-> id, tool |-> @.tool, state |-> "ready",
                                          open |-> @.open, result |-> r]]
          /\ accepted' = accepted \cup {[id |-> id, result |-> r]}
    BY DEF Tools!submit_result
  <1>2. UNCHANGED <<choice, turn, asked>>
    BY DEF Tools!submit_result
  <1>3. job.status = "running" /\ job.call.id = id /\ job.call.state # "ready"
    BY <1>1 DEF Tools!Reply
  <1>4. id \in Nat \ {0} /\ job.call # Tools!NoCall
    BY <1>1, <1>3, NoCallFacts DEF ToolsInv, ToolTyped
  <1>5. job.call.state = "waiting" /\ job.call.tool \in Tool /\ job.call.open \in BOOLEAN
    BY <1>3, <1>4, CallFacts DEF ToolsInv
  <1> DEFINE c == [id |-> id, tool |-> job.call.tool, state |-> "ready",
                   open |-> job.call.open, result |-> r]
             a == [id |-> id, result |-> r]
  <1>6. c \in Ready /\ c.id = id /\ c.state = "ready" /\ c.result = r /\ c # Tools!NoCall
    BY <1>4, <1>5, NoCallFacts DEF Ready
  <1>7. a \in Told
    BY <1>4 DEF Told
  <1>8. job' = [job EXCEPT !.call = c] /\ accepted' = accepted \cup {a}
    BY <1>1
  <1>9. a = [id |-> c.id, result |-> c.result]
    BY <1>6
  <1> HIDE DEF c, a
  <1>10. /\ job' \in JobRow /\ job'.history = job.history /\ job'.status = "running"
         /\ job'.call = c
    BY <1>3, <1>6, <1>8 DEF ToolsInv, ToolTyped, JobRow
  <1>11. \A b \in accepted' : Kept(b)'
    BY <1>3, <1>5, <1>6, <1>8, <1>9, <1>10 DEF ToolsInv, ResultsKept, Kept
  <1>12. accepted' \in SUBSET Told
    BY <1>7, <1>8 DEF ToolsInv, ToolTyped
  <1> QED
    BY <1>2, <1>3, <1>4, <1>5, <1>6, <1>10, <1>11, <1>12, RowInv

(* The deadline of the call on the row passes.                             *)
LEMMA ExpireInv ==
  ASSUME ToolLimits, ToolsInv, Tools!Expire
  PROVE  StepOK
  <1>1. /\ UNCHANGED <<choice, turn, asked, accepted>> /\ job.call # Tools!NoCall
        /\ job' = [job EXCEPT !.call = [job.call EXCEPT !.open = FALSE]]
    BY DEF Tools!Expire
  <1>2. job.status = "running"
    BY <1>1 DEF ToolsInv, CallPlaced
  <1> DEFINE c == [job.call EXCEPT !.open = FALSE]
  <1>3. /\ c \in Waiting \cup Ready /\ c.id = job.call.id /\ c.state = job.call.state
        /\ c.state = "ready" => c.result = job.call.result
    <2>1. CASE job.call \in Waiting
      BY <2>1 DEF Waiting
    <2>2. CASE job.call \in Ready
      BY <2>2 DEF Ready
    <2> QED
      BY <1>1, <2>1, <2>2, CallFacts DEF ToolsInv
  <1>4. job' = [job EXCEPT !.call = c]
    BY <1>1
  <1> HIDE DEF c
  <1>5. /\ job' \in JobRow /\ job'.history = job.history /\ job'.status = "running"
        /\ job'.call = c /\ c # Tools!NoCall
    <2>1. c # Tools!NoCall
      BY <1>3, NoCallFacts DEF Waiting, Ready
    <2> QED
      BY <1>2, <1>3, <1>4, <2>1 DEF ToolsInv, ToolTyped, JobRow
  <1>6. \A b \in accepted' : Kept(b)'
    BY <1>1, <1>2, <1>3, <1>5 DEF ToolsInv, ResultsKept, Kept
  <1>7. accepted' \in SUBSET Told
    BY <1>1 DEF ToolsInv, ToolTyped
  <1> QED
    BY <1>1, <1>2, <1>3, <1>5, <1>6, <1>7, RowInv

(* The row is closed under the turn: by a sweep, or by a cancel.           *)
LEMMA CloseInv ==
  ASSUME ToolsInv, UNCHANGED <<choice, turn, asked, accepted>>,
         NEW st \in {"error", "cancelled"}, NEW w \in Why, job' = Tools!Closed(st, "none", w)
  PROVE  StepOK
  <1>1. /\ job' \in JobRow /\ job'.history = job.history /\ job'.status = st /\ job'.call = Tools!NoCall
    <2>1. st \in Status /\ "none" \in Text
      BY DEF Status
    <2> HIDE DEF Why, Text
    <2> QED
      BY <2>1, ClosedFacts DEF ToolsInv
  <1>2. Tools!Answered' = Tools!Answered
    BY <1>1 DEF Tools!Answered
  <1>3. ToolTyped' /\ CallPlaced' /\ AskedFollowed' /\ CallsAnswered' /\ Tools!RequiredToolAnswered'
    BY <1>1, <1>2 DEF ToolsInv, ToolTyped, CallPlaced, AskedFollowed, CallsAnswered,
           Tools!RequiredToolAnswered
  <1>4. Tools!WithdrawnStaysWithdrawn'
    BY <1>1, NoCallFacts DEF Tools!WithdrawnStaysWithdrawn
  <1>5. HistoryOnce' /\ ResultsKept'
    BY <1>1, <1>2 DEF ToolsInv, HistoryOnce, ResultsKept
  <1>6. Tools!NewId /\ Tools!EndsOnTerminal
    BY <1>1 DEF Tools!NewId, Tools!EndsOnTerminal
  <1> QED
    BY <1>3, <1>4, <1>5, <1>6 DEF StepOK, ToolsInv

(* A cancel closes a pending run and flags a running one.                  *)
LEMMA CancelInv ==
  ASSUME ToolLimits, ToolsInv, Tools!cancel_run
  PROVE  StepOK
  <1>1. UNCHANGED <<choice, turn, asked, accepted>> /\ job.status \in {"pending", "running"}
    BY DEF Tools!cancel_run
  <1>2. CASE job.status = "pending"
    <2>1. job' = Tools!Closed("cancelled", "none", "cancelled")
      BY <1>2 DEF Tools!cancel_run
    <2> QED
      BY <1>1, <2>1, CloseInv
  <1>3. CASE job.status = "running"
    <2>1. job' = [job EXCEPT !.cancel = TRUE]
      BY <1>3 DEF Tools!cancel_run
    <2>2. /\ job' \in JobRow /\ job'.history = job.history /\ job'.status = "running"
          /\ job'.call = job.call
      BY <1>3, <2>1 DEF ToolsInv, ToolTyped, JobRow
    <2>3. \A b \in accepted' : Kept(b)'
      BY <1>1, <1>3, <2>2 DEF ToolsInv, ResultsKept, Kept
    <2>4. accepted' \in SUBSET Told
      BY <1>1 DEF ToolsInv, ToolTyped
    <2> QED
      BY <1>1, <1>3, <2>2, <2>3, <2>4, RowInv
  <1> QED
    BY <1>1, <1>2, <1>3

(* Every step of the worker, the client and the sweeps.                    *)
LEMMA ToolsStep ==
  ASSUME ToolLimits, ToolsInv, [Tools!Next]_(Tools!vars)
  PROVE  ToolsInv' /\ [Tools!NewId]_(Tools!vars) /\ [Tools!EndsOnTerminal]_(Tools!vars)
  <1>1. CASE Tools!Ends
    BY <1>1, FailInv DEF Tools!Ends, Tools!Fail, StepOK
  <1>2. CASE Tools!CancelSeen
    BY <1>2, FailInv DEF Tools!CancelSeen, StepOK
  <1>3. CASE Tools!Notice
    BY <1>3, EndInv DEF Tools!Notice, StepOK
  <1>4. CASE Tools!Crash
    BY <1>4, EndInv DEF Tools!Crash, StepOK
  <1>5. CASE Tools!Reap
    BY <1>5, CloseInv DEF Tools!Reap, StepOK
  <1>6. CASE UNCHANGED Tools!vars
    BY <1>6 DEF Tools!vars, ToolsInv, ToolTyped, CallPlaced, AskedFollowed, HistoryOnce, ResultsKept, Kept,
       CallsAnswered, Tools!RequiredToolAnswered, Tools!WithdrawnStaysWithdrawn, Tools!Answered, Tools!Required
  <1> QED
    BY <1>1, <1>2, <1>3, <1>4, <1>5, <1>6, ExecuteInv, ToolCallInv, ToolTakeInv, ConfirmInv,
       TurnEndsInv, LeaseInv, ClearInv, SubmitInv, ExpireInv, CancelInv DEF Tools!Next, Tools!Finished, StepOK

(* The run before anything was asked.                                      *)
LEMMA ToolsInit ==
  ASSUME ToolLimits, Tools!Init
  PROVE  ToolsInv
  <1>1. job = [status |-> "pending", cancel |-> FALSE, call |-> Tools!NoCall, history |-> {},
               waits |-> 0, text |-> "none", why |-> "none"]
        /\ turn = Tools!Off("idle") /\ asked = {} /\ accepted = {}
    BY DEF Tools!Init
  <1>2. turn \in Turn /\ turn.pc = "idle"
    BY <1>1, FreshFacts DEF Pc
  <1>3. job \in JobRow
    BY <1>1 DEF JobRow, Status
  <1>4. job.status = "pending" /\ job.call = Tools!NoCall /\ job.history = {}
    BY <1>1
  <1>5. IsFiniteSet({}) /\ Cardinality({}) = 0
    BY FS_EmptySet
  <1>6. HistoryOnce
    BY <1>4, <1>5 DEF HistoryOnce, ToolLimits
  <1> QED
    BY <1>1, <1>2, <1>3, <1>4, <1>6 DEF ToolsInv, ToolTyped, CallPlaced, AskedFollowed, ResultsKept,
       CallsAnswered, Tools!RequiredToolAnswered, Tools!WithdrawnStaysWithdrawn

(* A repeated post of an accepted result is answered as a repeat.          *)
LEMMA KeptAnswered ==
  ASSUME ToolsInv
  PROVE  Tools!AcceptedKept
  <1> SUFFICES ASSUME job.status = "running", NEW a \in accepted
               PROVE  /\ ~job.cancel => Tools!Reply(a.id, a.result) = "again"
                      /\ \A b \in accepted : a.id = b.id => a = b
    BY DEF Tools!AcceptedKept
  <1>1. a \in Told /\ a = [id |-> a.id, result |-> a.result] /\ Kept(a)
    BY DEF ToolsInv, ToolTyped, Told, ResultsKept
  <1>2. ASSUME ~job.cancel PROVE Tools!Reply(a.id, a.result) = "again"
    <2>1. CASE a \in job.history
      BY <1>1, <1>2, <2>1 DEF Tools!Reply
    <2>2. CASE a \notin job.history
      <3>1. job.call.state = "ready" /\ job.call.id = a.id /\ job.call.result = a.result
        BY <1>1, <2>2 DEF Kept
      <3> QED
        BY <1>1, <1>2, <2>2, <3>1 DEF Tools!Reply
    <2> QED
      BY <2>1, <2>2
  <1>3. ASSUME NEW b \in accepted, a.id = b.id PROVE a = b
    <2>1. Kept(b)
      BY DEF ToolsInv, ResultsKept
    <2>2. job.call.state = "ready" => job.call.id \notin Tools!Answered
      BY NoCallFacts DEF ToolsInv, HistoryOnce
    <2> QED
      BY <1>1, <1>3, <2>1, <2>2 DEF Kept, ToolsInv, HistoryOnce, Tools!Answered
  <1> QED
    BY <1>2, <1>3

(* The invariant along a behaviour of the run `agent_turns'.               *)
LEMMA ToolsAlong ==
  /\ InitAll => (which = "tools" => ToolsInv)
  /\ (which = "tools" => ToolsInv) /\ [NextAll]_allVars
       => /\ (which = "tools" => ToolsInv)'
          /\ [which = "tools" => Tools!NewId]_toolsVars
          /\ [which = "tools" => Tools!EndsOnTerminal]_toolsVars
  <1>1. InitAll => (which = "tools" => ToolsInv)
    BY ToolAssumption, ToolsInit DEF InitAll
  <1>2. ASSUME which = "tools" => ToolsInv, [NextAll]_allVars
        PROVE  /\ (which = "tools" => ToolsInv)'
               /\ [which = "tools" => Tools!NewId]_toolsVars
               /\ [which = "tools" => Tools!EndsOnTerminal]_toolsVars
    <2>1. which' = which
      BY <1>2 DEF NextAll, Gating, ToolTurn, Streaming, Waking, allVars
    <2>2. which = "tools" => [Tools!Next]_(Tools!vars)
      BY <1>2 DEF NextAll, Gating, ToolTurn, Streaming, Waking, allVars, toolsVars, Tools!vars
    <2>3. CASE which = "tools"
      <3>1. ToolsInv' /\ [Tools!NewId]_(Tools!vars) /\ [Tools!EndsOnTerminal]_(Tools!vars)
        BY <1>2, <2>2, <2>3, ToolAssumption, ToolsStep
      <3> QED
        BY <2>1, <3>1 DEF toolsVars, Tools!vars
    <2> QED
      BY <2>1, <2>3
  <1> QED
    BY <1>1, <1>2

(* Every reachable state satisfies the inductive invariant.                *)
THEOREM ToolsInvariance == SpecAll => [](which = "tools" => ToolsInv)
  BY ToolsAlong, PTL DEF SpecAll

(* publish_call, submit_result, take_result and clear_pending_call: what   *)
(* a client was told is accepted is kept, a required tool is answered, and *)
(* a withdrawn call takes no result.                                       *)
THEOREM ClientToolsSound == SpecAll => []ToolsSound
  <1>1. ToolsInv => Tools!TypeOK
    <2> SUFFICES ASSUME ToolsInv PROVE Tools!TypeOK
      OBVIOUS
    <2>1. job.call.state \in {"none", "waiting", "ready"}
      BY CallFacts, NoCallFacts DEF ToolsInv
    <2> QED
      BY <2>1, ToolsCount DEF ToolsInv, ToolTyped, JobRow, Status, Turn, Pc, CallPlaced, HistoryOnce,
        Tools!TypeOK
  <1>2. (which = "tools" => ToolsInv) => ToolsSound
    BY <1>1, KeptAnswered DEF ToolsInv, Tools!ToolsSound, ToolsSound
  <1> QED
    BY <1>2, ToolsInvariance, PTL

(* publish_call and both run_tool_turn loops: no id is published twice,    *)
(* and the run is done with the text of its last turn.                     *)
THEOREM ToolStepsSound == SpecAll => ToolSteps
  BY ToolsAlong, PTL DEF SpecAll, ToolSteps, NeverAskedTwice, TerminalIsLast
=============================================================================
