--------------------------- MODULE CostGuardProofs ---------------------------
(***************************************************************************)
(* That the counters answer for the money and a project with a cap of 0    *)
(* spends nothing on paid keys, for every number of attempts, every set of *)
(* keys, all caps and costs; that the breakers (Circuit) answer by what    *)
(* happened, for every set of providers, keys and scopes; and that the     *)
(* local vision model's slot (LocalVision) is neither shared nor lost, for *)
(* every number of calls and all timeouts.                                 *)
(***************************************************************************)
EXTENDS MCCallPath, Sequences, Sums

(* The project may use free providers only.                                *)
FreeOnly == \E w \in ProjWin : ProjCap[w] = 0

(* What an attempt of such a project may be doing on a paid key: a model   *)
(* known to be free before and during the call, and nothing to book.       *)
Clean(a) ==
  a.key \in Key /\ Tier[a.key] = "paid" =>
    /\ a.cost = 0
    /\ a.phase \in {"reserve", "project", "projectM", "global", "undo", "call"} => a.free

Typed ==
  /\ plan \in Plan
  /\ now \in [Window -> Nat]
  /\ spent \in Money
  /\ att \in [Slot -> AttState]

(* The inductive invariant: the log is empty and stays so.                 *)
ZeroInv ==
  /\ Typed
  /\ FreeOnly => /\ \A k \in Key : Tier[k] = "paid" => spent[k] = NoWindow
                 /\ \A s \in Slot : Clean(att[s])

-----------------------------------------------------------------------------
(* What the plan says is well typed.                                       *)
LEMMA PlanFacts ==
  ASSUME plan \in Plan
  PROVE  /\ plan.keys \subseteq Key
         /\ Tier \in [Key -> {"free", "trial", "paid"}]
         /\ KeyWin \in [Key -> SUBSET Window] /\ KeyCap \in [Key -> [Window -> Nat]]
         /\ ProjWin \subseteq Window /\ ProjCap \in [Window -> Nat]
         /\ GlobalCap \in Nat /\ Attempts \in Nat \ {0} /\ MaxCost \in Nat /\ MaxDay \in Nat \ {0}
  BY DEF Plan, Tier, KeyWin, KeyCap, ProjWin, ProjCap, GlobalCap, Attempts, MaxCost, MaxDay

(* The state of a finished attempt is well typed.                          *)
LEMMA OverType == Over \in AttState /\ NoWindow \in [Window -> Nat]
  BY CapAssumption DEF Over, AttState, Phase, NoWindow, Window

(* Sending a statement and booking a refusal keep the type.                *)
LEMMA SendType ==
  ASSUME Typed, NEW a \in AttState, NEW p \in Phase
  PROVE  /\ Send(a, p) \in AttState
         /\ a.key \in Key => ToBook(a) \in AttState
  <1>1. "record" \in Phase
    BY DEF Phase
  <1>2. ASSUME NEW b \in AttState, NEW q \in Phase
        PROVE  Send(b, q) \in AttState
    BY <1>2 DEF Send, AttState, Typed
  <1>3. [a EXCEPT !.hold = NoWindow] \in AttState
    BY OverType DEF AttState
  <1>4. a.key \in Key => [Over EXCEPT !.key = a.key, !.out = "error"] \in AttState
    BY OverType DEF AttState
  <1> QED
    BY <1>1, <1>2, <1>3, <1>4 DEF ToBook

(* What is booked of an attempt without cost has no cost.                  *)
LEMMA BookClean ==
  ASSUME Typed, NEW a \in AttState, a.key \in Key,
         Tier[a.key] = "paid" => a.cost = 0
  PROVE  Clean(ToBook(a))
  <1>1. CASE a.out \in {"ok", "rejected"}
    BY <1>1 DEF ToBook, Send, Clean, AttState
  <1>2. CASE a.out \notin {"ok", "rejected"}
    BY <1>2, OverType DEF ToBook, Send, Clean, Over
  <1> QED
    BY <1>1, <1>2

(* A finished attempt has nothing to book.                                 *)
LEMMA OverClean == Clean(Over)
  BY DEF Clean, Over

(* Changing one attempt and leaving the log alone keeps the invariant.     *)
LEMMA OneAttempt ==
  ASSUME ZeroInv, NEW s \in Slot, NEW a \in AttState,
         FreeOnly => Clean(a),
         att' = [att EXCEPT ![s] = a], UNCHANGED <<plan, now, spent>>
  PROVE  ZeroInv'
  <1>1. att' \in [Slot -> AttState]
    BY DEF ZeroInv, Typed
  <1>2. ASSUME FreeOnly PROVE \A t \in Slot : Clean(att'[t])
    BY <1>2 DEF ZeroInv, Typed
  <1>3. (FreeOnly' <=> FreeOnly) /\ Tier' = Tier
    BY DEF FreeOnly, Tier, ProjWin, ProjCap
  <1>4. ASSUME FreeOnly PROVE \A k \in Key : Tier[k] = "paid" => spent'[k] = NoWindow
    BY <1>4 DEF ZeroInv
  <1> QED
    BY <1>1, <1>2, <1>3, <1>4 DEF ZeroInv, Typed, Clean
(* An attempt that is under way has a key.                                 *)
HasKey == \A s \in Slot : att[s].phase # "idle" => att[s].key \in Key

KeyedInv == ZeroInv /\ HasKey

(* The same for the pair of invariants.                                    *)
LEMMA OneStep ==
  ASSUME KeyedInv, plan' = plan, NEW s \in Slot, NEW a \in AttState,
         FreeOnly => Clean(a), a.phase # "idle" => a.key \in Key,
         att' = [att EXCEPT ![s] = a], UNCHANGED <<plan, now, spent>>
  PROVE  KeyedInv'
  <1>1. ZeroInv'
    BY OneAttempt DEF KeyedInv
  <1>2. HasKey'
    BY DEF KeyedInv, HasKey, ZeroInv, Typed
  <1> QED
    BY <1>1, <1>2 DEF KeyedInv

(* Picking a key: on a paid one only a model known to be free goes on.     *)
LEMMA PickStep ==
  ASSUME KeyedInv, plan' = plan, NEW s \in Slot, Pick(s)
  PROVE  KeyedInv'
  <1>1. PICK k \in plan.keys, est \in 0 .. MaxCost, nocost \in BOOLEAN :
          LET a == [Over EXCEPT !.key = k, !.est = est, !.free = nocost]
              exempt == Tier[k] = "free" /\ est = 0
              refused == Tier[k] = "paid" /\ ~nocost /\ ZeroCap(k)
          IN /\ \A w \in KeyWin[k] : Fresh(k, w, now) < KeyCap[k][w]
             /\ nocost => est = 0
             /\ \/ exempt /\ SetAtt(s, [a EXCEPT !.phase = "call"])
                \/ refused /\ SetAtt(s, ToBook(a))
                \/ /\ ~exempt /\ ~refused
                   /\ SetAtt(s, IF KeyWin[k] = {} THEN [a EXCEPT !.phase = "project"]
                                ELSE Send(a, "reserve"))
    BY DEF Pick
  <1> DEFINE a == [Over EXCEPT !.key = k, !.est = est, !.free = nocost]
  <1>0. k \in Key /\ est \in Nat
    BY PlanFacts DEF KeyedInv, ZeroInv, Typed
  <1>2. a \in AttState
    BY <1>0, OverType DEF AttState
  <1>3. a.key = k /\ a.cost = 0 /\ a.free = nocost
    BY OverType DEF Over, AttState
  <1>4. UNCHANGED <<plan, now, spent>> /\ Typed
    BY DEF Pick, KeyedInv, ZeroInv
  <1>5. FreeOnly => ZeroCap(k)
    BY DEF FreeOnly, ZeroCap
  <1> HIDE DEF a
  <1>6. ASSUME NEW p \in Phase, FreeOnly /\ Tier[k] = "paid" => nocost,
               NEW b \in AttState, b.key = k, b.cost = 0, b.free = nocost, b.phase = p,
               att' = [att EXCEPT ![s] = b]
        PROVE  KeyedInv'
    <2>1. FreeOnly => Clean(b)
      BY <1>6 DEF Clean
    <2> QED
      BY <1>0, <2>1, <1>4, <1>6, OneStep
  <1>7. CASE Tier[k] = "free" /\ SetAtt(s, [a EXCEPT !.phase = "call"])
    <2> DEFINE b == [a EXCEPT !.phase = "call"]
    <2>1. b \in AttState /\ b.key = k /\ b.cost = 0 /\ b.free = nocost /\ b.phase = "call"
      BY <1>2, <1>3 DEF AttState, Phase
    <2>2. "call" \in Phase
      BY DEF Phase
    <2> QED
      BY <1>6, <1>7, <2>1, <2>2 DEF SetAtt
  <1>8. CASE SetAtt(s, ToBook(a))
    <2>1. ToBook(a) \in AttState
      BY <1>0, <1>2, <1>3, <1>4, SendType DEF Phase
    <2>2. Clean(ToBook(a))
      BY <1>0, <1>2, <1>3, <1>4, BookClean
    <2>3. ToBook(a).key \in Key
      BY <1>0, <1>2, <1>3, OverType DEF ToBook, Send, AttState
    <2> QED
      BY <1>4, <1>8, <2>1, <2>2, <2>3, OneStep DEF SetAtt
  <1>9. CASE ~(Tier[k] = "paid" /\ ~nocost /\ ZeroCap(k)) /\ SetAtt(s, [a EXCEPT !.phase = "project"])
    <2> DEFINE b == [a EXCEPT !.phase = "project"]
    <2>1. b \in AttState /\ b.key = k /\ b.cost = 0 /\ b.free = nocost /\ b.phase = "project"
      BY <1>2, <1>3 DEF AttState, Phase
    <2>2. "project" \in Phase
      BY DEF Phase
    <2> QED
      BY <1>5, <1>6, <1>9, <2>1, <2>2 DEF SetAtt
  <1>10. CASE ~(Tier[k] = "paid" /\ ~nocost /\ ZeroCap(k)) /\ SetAtt(s, Send(a, "reserve"))
    <2> DEFINE b == Send(a, "reserve")
    <2>1. "reserve" \in Phase
      BY DEF Phase
    <2>2. b \in AttState
      BY <1>2, <1>4, <2>1, SendType
    <2>3. b.key = k /\ b.cost = 0 /\ b.free = nocost /\ b.phase = "reserve"
      BY <1>2, <1>3 DEF Send, AttState
    <2> QED
      BY <1>5, <1>6, <1>10, <2>1, <2>2, <2>3 DEF SetAtt
  <1> QED
    BY <1>1, <1>7, <1>8, <1>9, <1>10 DEF a
(* The phases in which an attempt has not been answered yet.               *)
Early == {"reserve", "project", "projectM", "global", "undo", "call"}

(* What is known of the attempt in a slot.                                 *)
LEMMA AttemptFacts ==
  ASSUME KeyedInv, NEW s \in Slot
  PROVE  /\ Typed
         /\ att[s] \in AttState
         /\ att[s].phase # "idle" => att[s].key \in Key
         /\ FreeOnly => Clean(att[s])
  BY DEF KeyedInv, ZeroInv, Typed, HasKey

(* An attempt ends, remembered or forgotten.                               *)
LEMMA EndStep ==
  ASSUME KeyedInv, plan' = plan, NEW s \in Slot, UNCHANGED <<plan, now, spent>>,
         SetAtt(s, Over) \/ SetAtt(s, Forgotten(att[s]))
  PROVE  KeyedInv'
  <1>1. Forgotten(att[s]) \in AttState /\ Clean(Forgotten(att[s]))
    BY OverType DEF Forgotten, AttState, Clean, Over
  <1>2. Forgotten(att[s]).phase = "idle" /\ Over.phase = "idle"
    BY OverType DEF Forgotten, Over
  <1> QED
    BY <1>1, <1>2, OverType, OverClean, OneStep DEF SetAtt

(* An attempt without cost goes on to its booking.                         *)
LEMMA ToBookStep ==
  ASSUME KeyedInv, plan' = plan, NEW s \in Slot, UNCHANGED <<plan, now, spent>>,
         NEW a \in AttState, a.key \in Key, FreeOnly /\ Tier[a.key] = "paid" => a.cost = 0,
         SetAtt(s, ToBook(a))
  PROVE  KeyedInv'
  <1>1. Typed
    BY AttemptFacts
  <1>2. ToBook(a) \in AttState
    BY <1>1, SendType DEF Phase
  <1>3. FreeOnly => Clean(ToBook(a))
    BY <1>1, BookClean
  <1>4. ToBook(a).key \in Key
    BY OverType DEF ToBook, Send, AttState
  <1> QED
    BY <1>2, <1>3, <1>4, OneStep DEF SetAtt

(* A refusal is booked.                                                    *)
LEMMA RefusalStep ==
  ASSUME KeyedInv, plan' = plan, NEW s \in Slot, UNCHANGED <<plan, now, spent>>,
         att[s].phase # "idle", SetAtt(s, ToBook(att[s]))
  PROVE  KeyedInv'
  <1>1. att[s] \in AttState /\ att[s].key \in Key /\ (FreeOnly => Clean(att[s]))
    BY AttemptFacts
  <1> QED
    BY <1>1, ToBookStep DEF Clean

(* An attempt moves between the phases before the answer.                  *)
LEMMA EarlyStep ==
  ASSUME KeyedInv, plan' = plan, NEW s \in Slot, UNCHANGED <<plan, now, spent>>, NEW p \in Early,
         att[s].phase \in Early, SetAtt(s, [att[s] EXCEPT !.phase = p])
  PROVE  KeyedInv'
  <1> DEFINE b == [att[s] EXCEPT !.phase = p]
  <1>1. att[s] \in AttState /\ att[s].key \in Key /\ (FreeOnly => Clean(att[s]))
    BY AttemptFacts DEF Early
  <1>2. b \in AttState /\ b.key = att[s].key /\ b.cost = att[s].cost /\ b.free = att[s].free
    BY <1>1 DEF AttState, Phase, Early
  <1>3. FreeOnly => Clean(b)
    BY <1>1, <1>2 DEF Clean, Early
  <1> HIDE DEF b
  <1> QED
    BY <1>1, <1>2, <1>3, OneStep DEF SetAtt, b

(* The windows a statement may see are windows.                            *)
LEMMA ViewType ==
  ASSUME KeyedInv, NEW s \in Slot, NEW tx \in Start(s)
  PROVE  tx \in [Window -> Nat] /\ View(att[s].at, tx) \in [Window -> Nat]
  <1>1. att[s] \in AttState /\ now \in [Window -> Nat]
    BY AttemptFacts DEF Typed
  <1> QED
    BY <1>1 DEF Start, View, AttState, Window

(* The reservation and its failures.                                       *)
LEMMA ReserveStep ==
  ASSUME KeyedInv, plan' = plan, NEW s \in Slot, Reserve(s) \/ ReserveRefused(s) \/ ReserveDies(s)
  PROVE  KeyedInv'
  <1>1. CASE Reserve(s)
    <2>1. PICK tx \in Start(s) :
            LET view == View(att[s].at, tx)
            IN /\ ReserveDb(s, view)
               /\ SetAtt(s, [att[s] EXCEPT !.phase = "project", !.at = NoWindow,
                                           !.hold = Debited(s, view)])
      BY <1>1 DEF Reserve
    <2> DEFINE view == View(att[s].at, tx)
               d == Debited(s, view)
               b == [att[s] EXCEPT !.phase = "project", !.at = NoWindow, !.hold = d]
    <2>2. att[s].phase = "reserve" /\ UNCHANGED <<plan, now, spent>>
      BY <2>1 DEF ReserveDb
    <2>3. att[s] \in AttState /\ att[s].key \in Key /\ (FreeOnly => Clean(att[s]))
      BY <2>2, AttemptFacts
    <2>4. d \in [Window -> Nat]
      BY ViewType DEF Debited
    <2> HIDE DEF d
    <2>5. b \in AttState /\ b.key = att[s].key /\ b.cost = att[s].cost /\ b.free = att[s].free
      BY <2>3, <2>4, OverType DEF AttState, Phase
    <2>6. FreeOnly => Clean(b)
      BY <2>2, <2>3, <2>5 DEF Clean
    <2>7. att' = [att EXCEPT ![s] = b]
      BY <2>1 DEF SetAtt, d
    <2> HIDE DEF b
    <2> QED
      BY <2>2, <2>3, <2>5, <2>6, <2>7, OneStep
  <1>2. CASE ReserveRefused(s)
    BY <1>2, RefusalStep DEF ReserveRefused
  <1>3. CASE ReserveDies(s)
    BY <1>3, EndStep DEF ReserveDies, ReserveDb
  <1> QED
    BY <1>1, <1>2, <1>3

(* The checks of the project and global caps and the refund they may need. *)
LEMMA CheckStep ==
  ASSUME KeyedInv, plan' = plan, NEW s \in Slot,
         CheckProject(s) \/ CheckGlobal(s) \/ Undo(s) \/ CheckDies(s)
  PROVE  KeyedInv'
  <1>1. CASE CheckProject(s)
    <2>1. \E p \in Early : SetAtt(s, [att[s] EXCEPT !.phase = p])
      BY <1>1 DEF CheckProject, Early
    <2> QED
      BY <1>1, <2>1, EarlyStep DEF CheckProject, Early
  <1>2. CASE CheckGlobal(s)
    <2>1. \E p \in Early : SetAtt(s, [att[s] EXCEPT !.phase = p])
      BY <1>2 DEF CheckGlobal, Early
    <2> QED
      BY <1>2, <2>1, EarlyStep DEF CheckGlobal, Early
  <1>3. CASE Undo(s)
    BY <1>3, RefusalStep DEF Undo
  <1>4. CASE CheckDies(s)
    BY <1>4, EndStep DEF CheckDies
  <1> QED
    BY <1>1, <1>2, <1>3, <1>4
(* The call: a model known to be free costs nothing.                       *)
LEMMA CallStep ==
  ASSUME KeyedInv, plan' = plan, NEW s \in Slot, Call(s)
  PROVE  KeyedInv'
  <1> DEFINE x == att[s]
  <1>1. x \in AttState /\ x.key \in Key /\ (FreeOnly => Clean(x)) /\ x.phase = "call"
    BY AttemptFacts DEF Call
  <1>2. UNCHANGED <<plan, now, spent>>
    BY DEF Call
  <1>3. FreeOnly /\ Tier[x.key] = "paid" => x.free /\ x.cost = 0
    BY <1>1 DEF Clean
  <1>4. ASSUME NEW a \in AttState, a.key = x.key,
               FreeOnly /\ Tier[a.key] = "paid" => a.cost = 0,
               SetAtt(s, AfterCall(a))
        PROVE  KeyedInv'
    <2>1. CASE a.est > 0
      <3> DEFINE b == [a EXCEPT !.phase = "release"]
      <3>1. b \in AttState /\ b.key = a.key /\ b.cost = a.cost /\ b.phase = "release"
        BY DEF AttState, Phase
      <3>2. FreeOnly => Clean(b)
        BY <1>4, <3>1 DEF Clean
      <3>3. att' = [att EXCEPT ![s] = b]
        BY <1>4, <2>1 DEF SetAtt, AfterCall
      <3> HIDE DEF b
      <3> QED
        BY <1>1, <1>2, <1>4, <3>1, <3>2, <3>3, OneStep
    <2>2. CASE ~(a.est > 0) /\ a.out = "cancel"
      BY <1>2, <1>4, <2>2, EndStep DEF AfterCall
    <2>3. CASE ~(a.est > 0) /\ a.out # "cancel"
      BY <1>1, <1>2, <1>4, <2>3, ToBookStep DEF AfterCall
    <2> QED
      BY <2>1, <2>2, <2>3
  <1>5. CASE \E c \in 0 .. MaxCost : \E out \in {"ok", "rejected"} :
               /\ Billed(x) \/ c = 0
               /\ SetAtt(s, AfterCall([x EXCEPT !.cost = c, !.out = out, !.free = FALSE]))
    <2>1. PICK c \in 0 .. MaxCost, out \in {"ok", "rejected"} :
             /\ Billed(x) \/ c = 0
             /\ SetAtt(s, AfterCall([x EXCEPT !.cost = c, !.out = out, !.free = FALSE]))
      BY <1>5
    <2> DEFINE a == [x EXCEPT !.cost = c, !.out = out, !.free = FALSE]
    <2>0. c \in Nat
      BY AttemptFacts, PlanFacts DEF Typed
    <2>2. a \in AttState /\ a.key = x.key /\ a.cost = c
      BY <1>1, <2>0 DEF AttState
    <2>3. FreeOnly /\ Tier[a.key] = "paid" => a.cost = 0
      BY <1>3, <2>1, <2>2 DEF Billed
    <2>4. SetAtt(s, AfterCall(a))
      BY <2>1
    <2> HIDE DEF a
    <2> QED
      BY <1>4, <2>2, <2>3, <2>4
  <1>6. CASE \E out \in {"error", "cancel"} :
               SetAtt(s, AfterCall([x EXCEPT !.out = out, !.free = FALSE]))
    <2>1. PICK out \in {"error", "cancel"} :
             SetAtt(s, AfterCall([x EXCEPT !.out = out, !.free = FALSE]))
      BY <1>6
    <2> DEFINE a == [x EXCEPT !.out = out, !.free = FALSE]
    <2>2. a \in AttState /\ a.key = x.key /\ a.cost = x.cost
      BY <1>1 DEF AttState
    <2>3. FreeOnly /\ Tier[a.key] = "paid" => a.cost = 0
      BY <1>3, <2>2
    <2>4. SetAtt(s, AfterCall(a))
      BY <2>1
    <2> HIDE DEF a
    <2> QED
      BY <1>4, <2>2, <2>3, <2>4
  <1> QED
    BY <1>5, <1>6 DEF Call

(* The refund.                                                             *)
LEMMA ReleaseStep ==
  ASSUME KeyedInv, plan' = plan, NEW s \in Slot, Release(s) \/ ReleaseCancelled(s)
  PROVE  KeyedInv'
  <1>1. CASE Release(s)
    BY <1>1, RefusalStep, EndStep DEF Release
  <1>2. CASE ReleaseCancelled(s)
    <2> DEFINE b == [att[s] EXCEPT !.out = "cancel"]
    <2>1. att[s] \in AttState /\ att[s].key \in Key /\ (FreeOnly => Clean(att[s]))
      BY <1>2, AttemptFacts DEF ReleaseCancelled
    <2>2. b \in AttState /\ b.key = att[s].key /\ b.cost = att[s].cost /\ b.phase = att[s].phase
          /\ b.free = att[s].free
      BY <2>1 DEF AttState
    <2>3. FreeOnly => Clean(b)
      BY <2>1, <2>2 DEF Clean
    <2>4. att' = [att EXCEPT ![s] = b] /\ UNCHANGED <<plan, now, spent>>
      BY <1>2 DEF ReleaseCancelled, SetAtt
    <2> HIDE DEF b
    <2> QED
      BY <2>1, <2>2, <2>3, <2>4, OneStep
  <1> QED
    BY <1>1, <1>2

(* A repeated booking is the same booking.                                 *)
LEMMA RetryFacts ==
  ASSUME KeyedInv, NEW s \in Slot, att[s].phase = "record", NEW done \in BOOLEAN
  PROVE  LET r == Retried(att[s], done)
         IN /\ r \in AttState
            /\ r.phase # "idle" => r.key \in Key
            /\ FreeOnly => Clean(r)
  <1> DEFINE x == att[s]
             b == [x EXCEPT !.tries = x.tries + 1, !.dup = (x.dup \/ done)]
             r == Retried(x, done)
  <1>1. x \in AttState /\ x.key \in Key /\ (FreeOnly => Clean(x)) /\ Typed
    BY AttemptFacts
  <1>2. CASE x.tries + 1 < Attempts
    <2>1. x.tries \in Nat /\ x.dup \in BOOLEAN
      BY <1>1 DEF AttState
    <2>2. x.tries + 1 \in Nat /\ (x.dup \/ done) \in BOOLEAN
      BY <2>1
    <2>3. b \in AttState /\ b.key = x.key /\ b.cost = x.cost
      BY <1>1, <2>2 DEF AttState
    <2>4. r = Send(b, "record")
      BY <1>2 DEF Retried
    <2> HIDE DEF b
    <2>5. r \in AttState
      BY <1>1, <2>3, <2>4, SendType DEF Phase
    <2>6. r.key = x.key /\ r.cost = x.cost /\ r.phase = "record"
      BY <2>3, <2>4 DEF Send, AttState
    <2>7. FreeOnly => Clean(r)
      BY <1>1, <2>6 DEF Clean
    <2> HIDE DEF r
    <2> QED
      BY <1>1, <2>5, <2>6, <2>7 DEF r
  <1>3. CASE ~(x.tries + 1 < Attempts)
    <2>1. r = Over
      BY <1>3 DEF Retried
    <2> QED
      BY <2>1, OverType, OverClean DEF Over
  <1> QED
    BY <1>2, <1>3

(* Booking nothing leaves the log of a paid key empty.                     *)
LEMMA BookDbStep ==
  ASSUME KeyedInv, plan' = plan, NEW s \in Slot, NEW a \in AttState, FreeOnly => Clean(a),
         a.phase # "idle" => a.key \in Key, BookDb(s, a), UNCHANGED now
  PROVE  KeyedInv'
  <1>1. att[s] \in AttState /\ att[s].key \in Key /\ (FreeOnly => Clean(att[s])) /\ Typed
    BY AttemptFacts DEF BookDb
  <1> DEFINE k == att[s].key
             c == att[s].cost
  <1>2. PICK tx \in Start(s) :
          spent' = [spent EXCEPT ![k] =
                     [w \in Window |-> @[w] + (IF tx[w] = now[w] THEN c ELSE 0)]]
    BY DEF BookDb
  <1>3. c \in Nat
    BY <1>1, CapAssumption DEF AttState
  <1>4. spent' \in Money
    BY <1>1, <1>2, <1>3 DEF Typed, Money
  <1>5. ASSUME FreeOnly, NEW p \in Key, Tier[p] = "paid" PROVE spent'[p] = NoWindow
    <2>1. spent[p] = NoWindow
      BY <1>5 DEF KeyedInv, ZeroInv
    <2>2. CASE p = k
      <3>1. c = 0
        BY <1>1, <1>5, <2>2 DEF Clean
      <3>2. spent'[p] = [w \in Window |-> spent[p][w] + (IF tx[w] = now[w] THEN c ELSE 0)]
        BY <1>1, <1>2, <2>2 DEF Typed, Money
      <3> QED
        BY <2>1, <3>1, <3>2 DEF NoWindow
    <2>3. CASE p # k
      BY <1>1, <1>2, <2>1, <2>3 DEF Typed, Money
    <2> QED
      BY <2>2, <2>3
  <1>6. att' = [att EXCEPT ![s] = a]
    BY DEF BookDb, SetAtt
  <1>7. att' \in [Slot -> AttState]
    BY <1>1, <1>6 DEF Typed
  <1>8. FreeOnly => \A t \in Slot : Clean(att'[t])
    BY <1>1, <1>6 DEF Typed, KeyedInv, ZeroInv
  <1>9. HasKey'
    BY <1>1, <1>6 DEF HasKey, KeyedInv, Typed
  <1>10. (FreeOnly' <=> FreeOnly) /\ Tier' = Tier
    BY DEF FreeOnly, Tier, ProjWin, ProjCap
  <1> QED
    BY <1>1, <1>4, <1>5, <1>7, <1>8, <1>9, <1>10 DEF KeyedInv, ZeroInv, Typed, Clean

(* Bookings, repeated, failed and abandoned.                               *)
LEMMA BookStep ==
  ASSUME KeyedInv, plan' = plan, NEW s \in Slot,
         Book(s) \/ BookUnacked(s) \/ BookFails(s) \/ BookCancelled(s)
  PROVE  KeyedInv'
  <1>1. CASE Book(s)
    <2>1. BookDb(s, Over) /\ UNCHANGED now
      BY <1>1 DEF Book
    <2>2. Over.phase = "idle"
      BY DEF Over
    <2> QED
      BY <2>1, <2>2, OverType, OverClean, BookDbStep
  <1>2. CASE BookUnacked(s)
    <2>1. BookDb(s, Retried(att[s], TRUE)) /\ att[s].phase = "record" /\ UNCHANGED now
      BY <1>2 DEF BookUnacked, BookDb
    <2> QED
      BY <2>1, RetryFacts, BookDbStep
  <1>3. CASE BookFails(s)
    <2>1. SetAtt(s, Retried(att[s], FALSE)) /\ att[s].phase = "record" /\ UNCHANGED <<plan, now, spent>>
      BY <1>3 DEF BookFails
    <2> QED
      BY <2>1, RetryFacts, OneStep DEF SetAtt
  <1>4. CASE BookCancelled(s)
    BY <1>4, EndStep DEF BookCancelled
  <1> QED
    BY <1>1, <1>2, <1>3, <1>4
(* A boundary empties the log of the new window.                           *)
LEMMA RollStep ==
  ASSUME KeyedInv, plan' = plan, Roll
  PROVE  KeyedInv'
  <1>1. PICK ws \in {{"daily"}, Window} :
          /\ now' = [w \in Window |-> IF w \in ws THEN now[w] + 1 ELSE now[w]]
          /\ spent' = [k \in Key |-> [w \in Window |-> IF w \in ws THEN 0 ELSE spent[k][w]]]
    BY DEF Roll
  <1>2. Typed
    BY DEF KeyedInv, ZeroInv
  <1>3. now' \in [Window -> Nat] /\ spent' \in Money
    BY <1>1, <1>2 DEF Typed, Money
  <1>4. ASSUME FreeOnly, NEW k \in Key, Tier[k] = "paid" PROVE spent'[k] = NoWindow
    <2>1. spent[k] = NoWindow
      BY <1>4 DEF KeyedInv, ZeroInv
    <2>2. spent'[k] = [w \in Window |-> IF w \in ws THEN 0 ELSE spent[k][w]]
      BY <1>1
    <2> QED
      BY <2>1, <2>2 DEF NoWindow
  <1>5. att' = att
    BY DEF Roll
  <1>6. (FreeOnly' <=> FreeOnly) /\ Tier' = Tier
    BY DEF FreeOnly, Tier, ProjWin, ProjCap
  <1> QED
    BY <1>2, <1>3, <1>4, <1>5, <1>6 DEF KeyedInv, ZeroInv, Typed, HasKey, Clean

(* At the start nothing is spent and nothing runs.                         *)
LEMMA StartClean == Init => KeyedInv
  <1> SUFFICES ASSUME Init PROVE KeyedInv
    OBVIOUS
  <1>1. Typed
    BY OverType, CapAssumption DEF Init, Typed, Money, NoMoney, Window
  <1>2. \A k \in Key : spent[k] = NoWindow
    BY DEF Init, NoMoney, NoWindow
  <1>3. \A s \in Slot : att[s] = Over
    BY DEF Init
  <1>4. Over.phase = "idle"
    BY DEF Over
  <1> QED
    BY <1>1, <1>2, <1>3, <1>4, OverClean DEF KeyedInv, ZeroInv, HasKey

(* A project whose daily or monthly cap is 0 never has a cost booked on a  *)
(* paid key: not for a model without a price, whose estimate is 0 as well, *)
(* and not through retries, cancels or a boundary (reserve_cost).          *)
THEOREM ZeroCapHolds == Spec => []ZeroCapSpendsNothing
  <1>1. Init => KeyedInv
    BY StartClean
  <1>2. KeyedInv /\ [Next]_vars => KeyedInv'
    <2> SUFFICES ASSUME KeyedInv, [Next]_vars PROVE KeyedInv'
      OBVIOUS
    <2>0. plan' = plan
      BY DEF Next, vars
    <2>1. CASE Roll
      BY <2>0, <2>1, RollStep
    <2>2. CASE CacheExpires
      BY <2>0, <2>2 DEF CacheExpires, KeyedInv, ZeroInv, Typed, HasKey, Clean, FreeOnly, Tier, ProjWin, ProjCap
    <2>3. ASSUME NEW s \in Slot, Step(s) PROVE KeyedInv'
      BY <2>0, <2>3, PickStep, ReserveStep, CheckStep, CallStep, ReleaseStep, BookStep DEF Step
    <2>4. CASE UNCHANGED vars
      BY <2>4 DEF vars, KeyedInv, ZeroInv, Typed, HasKey, Clean, FreeOnly, Tier, ProjWin, ProjCap
    <2> QED
      BY <2>1, <2>2, <2>3, <2>4 DEF Next
  <1>3. KeyedInv => ZeroCapSpendsNothing
    BY DEF KeyedInv, ZeroInv, ZeroCapSpendsNothing, FreeOnly
  <1> QED
    BY <1>1, <1>2, <1>3, PTL DEF Spec
-----------------------------------------------------------------------------
(***************************************************************************)
(* The circuit breaker in front of the same call.                          *)
(***************************************************************************)
HungEntry == [key : Key, age : Nat]
StormEntry == [prov : Provider, scope : Scope, key : Key, age : Nat]
EmptyEntry == [prov : Provider, key : Key, age : Nat]
Event == [what : {"timeout", "empty"}, scope : Scope \cup {"any"}, key : Key, age : Nat]

CircuitTyped ==
  /\ timeouts \in SUBSET HungEntry /\ storms \in SUBSET StormEntry
  /\ empties \in SUBSET EmptyEntry /\ happened \in SUBSET Event

Hung(k, a) == [key |-> k, age |-> a]
Stormy(p, s, k, a) == [prov |-> p, scope |-> s, key |-> k, age |-> a]
Emptied(p, k, a) == [prov |-> p, key |-> k, age |-> a]
Ev(w, s, k, a) == [what |-> w, scope |-> s, key |-> k, age |-> a]

(* As long as it is remembered, an entry stands for an event, and an event *)
(* has its entry.                                                          *)
StormsTrue ==
  \A p \in Provider, s \in Scope, k \in Key, a \in Nat :
    a < TimeoutMemory =>
      (Stormy(p, s, k, a) \in storms <=> p = ProviderOf[k] /\ Ev("timeout", s, k, a) \in happened)

EmptiesTrue ==
  \A p \in Provider, k \in Key, a \in Nat :
    a < EmptyMemory =>
      (Emptied(p, k, a) \in empties <=> p = ProviderOf[k] /\ Ev("empty", "any", k, a) \in happened)

(* A key has one time for all scopes: that of the latest.                  *)
HungTrue ==
  /\ \A k \in Key, a \in Nat :
       a < TimeoutMemory /\ Hung(k, a) \in timeouts =>
         \E s \in Scope : Ev("timeout", s, k, a) \in happened
  /\ \A s \in Scope, k \in Key, a \in Nat :
       a < TimeoutMemory /\ Ev("timeout", s, k, a) \in happened =>
         \E b \in Nat : b <= a /\ Hung(k, b) \in timeouts

CircuitInv ==
  /\ CircuitTyped /\ StormsTrue /\ EmptiesTrue /\ HungTrue
  /\ Circ!StormExact /\ Circ!HungExact

-----------------------------------------------------------------------------
(* A record of an entry is its fields.                                     *)
LEMMA EntryFields ==
  /\ \A e \in HungEntry : /\ e.key \in Key /\ e.age \in Nat /\ e = Hung(e.key, e.age)
                          /\ \A n \in Nat : [e EXCEPT !.age = n] = Hung(e.key, n)
  /\ \A e \in StormEntry : /\ e.prov \in Provider /\ e.scope \in Scope /\ e.key \in Key
                           /\ e.age \in Nat /\ e = Stormy(e.prov, e.scope, e.key, e.age)
                           /\ \A n \in Nat : [e EXCEPT !.age = n] = Stormy(e.prov, e.scope, e.key, n)
  /\ \A e \in EmptyEntry : /\ e.prov \in Provider /\ e.key \in Key
                           /\ e.age \in Nat /\ e = Emptied(e.prov, e.key, e.age)
                           /\ \A n \in Nat : [e EXCEPT !.age = n] = Emptied(e.prov, e.key, n)
  /\ \A e \in Event : /\ e.what \in {"timeout", "empty"} /\ e.scope \in Scope \cup {"any"}
                      /\ e.key \in Key /\ e.age \in Nat
                      /\ e = Ev(e.what, e.scope, e.key, e.age)
                      /\ \A n \in Nat : [e EXCEPT !.age = n] = Ev(e.what, e.scope, e.key, n)
  <1>1. ASSUME NEW e \in HungEntry, NEW n \in Nat
        PROVE  /\ e.key \in Key /\ e.age \in Nat /\ e = Hung(e.key, e.age)
               /\ [e EXCEPT !.age = n] = Hung(e.key, n)
    BY DEF HungEntry, Hung
  <1>2. ASSUME NEW e \in StormEntry, NEW n \in Nat
        PROVE  /\ e.prov \in Provider /\ e.scope \in Scope /\ e.key \in Key
               /\ e.age \in Nat /\ e = Stormy(e.prov, e.scope, e.key, e.age)
               /\ [e EXCEPT !.age = n] = Stormy(e.prov, e.scope, e.key, n)
    BY DEF StormEntry, Stormy
  <1>3. ASSUME NEW e \in EmptyEntry, NEW n \in Nat
        PROVE  /\ e.prov \in Provider /\ e.key \in Key
               /\ e.age \in Nat /\ e = Emptied(e.prov, e.key, e.age)
               /\ [e EXCEPT !.age = n] = Emptied(e.prov, e.key, n)
    BY DEF EmptyEntry, Emptied
  <1>4. ASSUME NEW e \in Event, NEW n \in Nat
        PROVE  /\ e.what \in {"timeout", "empty"} /\ e.scope \in Scope \cup {"any"}
               /\ e.key \in Key /\ e.age \in Nat
               /\ e = Ev(e.what, e.scope, e.key, e.age)
               /\ [e EXCEPT !.age = n] = Ev(e.what, e.scope, e.key, n)
    BY DEF Event, Ev
  <1> QED
    BY <1>1, <1>2, <1>3, <1>4

(* Records are equal when their fields are.                                *)
LEMMA FieldsEqual ==
  /\ \A k, a, l, b : Hung(k, a) = Hung(l, b) <=> k = l /\ a = b
  /\ \A p, s, k, a, q, t, l, b :
       Stormy(p, s, k, a) = Stormy(q, t, l, b) <=> p = q /\ s = t /\ k = l /\ a = b
  /\ \A p, k, a, q, l, b : Emptied(p, k, a) = Emptied(q, l, b) <=> p = q /\ k = l /\ a = b
  /\ \A w, s, k, a, v, t, l, b :
       Ev(w, s, k, a) = Ev(v, t, l, b) <=> w = v /\ s = t /\ k = l /\ a = b
  BY DEF Hung, Stormy, Emptied, Ev

(* The fields of a record that was put together.                           *)
LEMMA FieldsOf ==
  /\ \A k \in Key, a \in Nat :
       Hung(k, a) \in HungEntry /\ Hung(k, a).key = k /\ Hung(k, a).age = a
  /\ \A p \in Provider, s \in Scope, k \in Key, a \in Nat :
       /\ Stormy(p, s, k, a) \in StormEntry /\ Stormy(p, s, k, a).prov = p
       /\ Stormy(p, s, k, a).scope = s /\ Stormy(p, s, k, a).key = k /\ Stormy(p, s, k, a).age = a
  /\ \A p \in Provider, k \in Key, a \in Nat :
       /\ Emptied(p, k, a) \in EmptyEntry /\ Emptied(p, k, a).prov = p
       /\ Emptied(p, k, a).key = k /\ Emptied(p, k, a).age = a
  /\ \A w \in {"timeout", "empty"}, s \in Scope \cup {"any"}, k \in Key, a \in Nat :
       /\ Ev(w, s, k, a) \in Event /\ Ev(w, s, k, a).what = w
       /\ Ev(w, s, k, a).scope = s /\ Ev(w, s, k, a).key = k /\ Ev(w, s, k, a).age = a
  BY DEF Hung, Stormy, Emptied, Ev, HungEntry, StormEntry, EmptyEntry, Event

(* What Stamp leaves: the new entry, and the entries of others.            *)
LEMMA StampHung ==
  ASSUME NEW S \in SUBSET HungEntry, NEW k \in Key
  PROVE  /\ Circ!Stamp(S, Hung(k, 0)) \in SUBSET HungEntry
         /\ \A l \in Key, a \in Nat :
              Hung(l, a) \in Circ!Stamp(S, Hung(k, 0))
                <=> IF l = k THEN a = 0 ELSE Hung(l, a) \in S
  <1>1. \A f \in S : [f EXCEPT !.age = 0] = Hung(k, 0) <=> f.key = k
    BY DEF HungEntry, Hung
  <1>2. Circ!Stamp(S, Hung(k, 0)) = {f \in S : ~(f.key = k)} \cup {Hung(k, 0)}
    BY <1>1 DEF Circ!Stamp
  <1> QED
    BY <1>2, EntryFields, FieldsEqual, FieldsOf

(* The same for a storm's entries.                                         *)
LEMMA StampStorm ==
  ASSUME NEW S \in SUBSET StormEntry, NEW p \in Provider, NEW s \in Scope, NEW k \in Key
  PROVE  /\ Circ!Stamp(S, Stormy(p, s, k, 0)) \in SUBSET StormEntry
         /\ \A q \in Provider, t \in Scope, l \in Key, a \in Nat :
              Stormy(q, t, l, a) \in Circ!Stamp(S, Stormy(p, s, k, 0))
                <=> IF q = p /\ t = s /\ l = k THEN a = 0 ELSE Stormy(q, t, l, a) \in S
  <1>1. \A f \in S : [f EXCEPT !.age = 0] = Stormy(p, s, k, 0) <=> f.prov = p /\ f.scope = s /\ f.key = k
    BY DEF StormEntry, Stormy
  <1>2. Circ!Stamp(S, Stormy(p, s, k, 0)) = {f \in S : ~(f.prov = p /\ f.scope = s /\ f.key = k)} \cup {Stormy(p, s, k, 0)}
    BY <1>1 DEF Circ!Stamp
  <1> QED
    BY <1>2, EntryFields, FieldsEqual, FieldsOf

(* And for the entries of empty bodies.                                    *)
LEMMA StampEmpty ==
  ASSUME NEW S \in SUBSET EmptyEntry, NEW p \in Provider, NEW k \in Key
  PROVE  /\ Circ!Stamp(S, Emptied(p, k, 0)) \in SUBSET EmptyEntry
         /\ \A q \in Provider, l \in Key, a \in Nat :
              Emptied(q, l, a) \in Circ!Stamp(S, Emptied(p, k, 0))
                <=> IF q = p /\ l = k THEN a = 0 ELSE Emptied(q, l, a) \in S
  <1>1. \A f \in S : [f EXCEPT !.age = 0] = Emptied(p, k, 0) <=> f.prov = p /\ f.key = k
    BY DEF EmptyEntry, Emptied
  <1>2. Circ!Stamp(S, Emptied(p, k, 0)) = {f \in S : ~(f.prov = p /\ f.key = k)} \cup {Emptied(p, k, 0)}
    BY <1>1 DEF Circ!Stamp
  <1> QED
    BY <1>2, EntryFields, FieldsEqual, FieldsOf

(* What is known to have happened after one more event.                    *)
LEMMA HappensFact ==
  ASSUME CircuitTyped, NEW w \in {"timeout", "empty"}, NEW s \in Scope \cup {"any"},
         NEW k \in Key, Circ!Happens(w, s, k)
  PROVE  /\ happened' \in SUBSET Event
         /\ \A v \in {"timeout", "empty"}, t \in Scope \cup {"any"}, l \in Key, a \in Nat :
              Ev(v, t, l, a) \in happened'
                <=> IF v = w /\ t = s /\ l = k THEN a = 0 ELSE Ev(v, t, l, a) \in happened
  <1>1. happened' = {h \in happened : ~(h.what = w /\ h.scope = s /\ h.key = k)} \cup {Ev(w, s, k, 0)}
    BY DEF Circ!Happens, Ev
  <1> QED
    BY SMTT(30), <1>1, EntryFields, FieldsEqual, FieldsOf DEF CircuitTyped

(* What a tick leaves of the entries that are still remembered: all of     *)
(* them, a unit older.                                                     *)
Older(n) == IF n < EmptyMemory THEN n + 1 ELSE n

(* A remembered age of a + 1 is that of an entry aged a before the tick.   *)
LEMMA OlderFact ==
  ASSUME CircuitLimits, NEW n \in Nat
  PROVE  /\ Older(n) \in Nat
         /\ \A a \in Nat : a < EmptyMemory => (a = Older(n) <=> a > 0 /\ n = a - 1)
  BY DEF Older, CircuitLimits

(* A tick ages the entries of keys that hang.                              *)
LEMMA AgedHung ==
  ASSUME CircuitLimits, NEW S \in SUBSET HungEntry
  PROVE  /\ Circ!Aged(S) \in SUBSET HungEntry
         /\ \A l \in Key, a \in Nat : a < EmptyMemory =>
              (Hung(l, a) \in Circ!Aged(S) <=> a > 0 /\ Hung(l, a - 1) \in S)
  <1>1. Circ!Aged(S) = {Hung(e.key, Older(e.age)) : e \in S}
    <2>1. \A e \in S : [e EXCEPT !.age = IF @ < EmptyMemory THEN @ + 1 ELSE @]
                         = Hung(e.key, Older(e.age))
      BY DEF HungEntry, Hung, Older
    <2> QED
      BY <2>1, Zenon DEF Circ!Aged
  <1>2. \A e \in S : Older(e.age) \in Nat
    BY EntryFields, OlderFact
  <1>3. Circ!Aged(S) \in SUBSET HungEntry
    BY <1>1, <1>2, EntryFields, FieldsOf
  <1>4. ASSUME NEW l \in Key, NEW a \in Nat, a < EmptyMemory
        PROVE  Hung(l, a) \in Circ!Aged(S) <=> a > 0 /\ Hung(l, a - 1) \in S
    <2>1. ASSUME Hung(l, a) \in Circ!Aged(S)
          PROVE  a > 0 /\ Hung(l, a - 1) \in S
      <3>1. PICK e \in S : Hung(l, a) = Hung(e.key, Older(e.age))
        BY <1>1, <2>1
      <3>2. l = e.key /\ a = Older(e.age) /\ e = Hung(e.key, e.age) /\ e.age \in Nat
        BY <3>1, EntryFields, FieldsEqual
      <3> QED
        BY <1>4, <3>2, OlderFact
    <2>2. ASSUME a > 0, Hung(l, a - 1) \in S
          PROVE  Hung(l, a) \in Circ!Aged(S)
      <3>1. a - 1 \in Nat /\ Older(a - 1) = a
        BY <1>4, <2>2, OlderFact
      <3>2. Hung(l, a - 1).key = l /\ Hung(l, a - 1).age = a - 1
        BY <3>1, FieldsOf
      <3> QED
        BY <1>1, <2>2, <3>1, <3>2
    <2> QED
      BY <2>1, <2>2
  <1> QED
    BY <1>3, <1>4

(* The same for a storm's entries.                                         *)
LEMMA AgedStorm ==
  ASSUME CircuitLimits, NEW S \in SUBSET StormEntry
  PROVE  /\ Circ!Aged(S) \in SUBSET StormEntry
         /\ \A q \in Provider, t \in Scope, l \in Key, a \in Nat : a < EmptyMemory =>
              (Stormy(q, t, l, a) \in Circ!Aged(S) <=> a > 0 /\ Stormy(q, t, l, a - 1) \in S)
  <1>1. Circ!Aged(S) = {Stormy(e.prov, e.scope, e.key, Older(e.age)) : e \in S}
    <2>1. \A e \in S : [e EXCEPT !.age = IF @ < EmptyMemory THEN @ + 1 ELSE @]
                         = Stormy(e.prov, e.scope, e.key, Older(e.age))
      BY DEF StormEntry, Stormy, Older
    <2> QED
      BY <2>1, Zenon DEF Circ!Aged
  <1>2. \A e \in S : Older(e.age) \in Nat
    BY EntryFields, OlderFact
  <1>3. Circ!Aged(S) \in SUBSET StormEntry
    BY <1>1, <1>2, EntryFields, FieldsOf
  <1>4. ASSUME NEW q \in Provider, NEW t \in Scope, NEW l \in Key,
               NEW a \in Nat, a < EmptyMemory
        PROVE  Stormy(q, t, l, a) \in Circ!Aged(S) <=> a > 0 /\ Stormy(q, t, l, a - 1) \in S
    <2>1. ASSUME Stormy(q, t, l, a) \in Circ!Aged(S)
          PROVE  a > 0 /\ Stormy(q, t, l, a - 1) \in S
      <3>1. PICK e \in S : Stormy(q, t, l, a) = Stormy(e.prov, e.scope, e.key, Older(e.age))
        BY <1>1, <2>1
      <3>2. /\ q = e.prov
            /\ t = e.scope
            /\ l = e.key
            /\ a = Older(e.age)
            /\ e = Stormy(e.prov, e.scope, e.key, e.age)
            /\ e.age \in Nat
        BY <3>1, EntryFields, FieldsEqual
      <3> QED
        BY <1>4, <3>2, OlderFact
    <2>2. ASSUME a > 0, Stormy(q, t, l, a - 1) \in S
          PROVE  Stormy(q, t, l, a) \in Circ!Aged(S)
      <3>1. a - 1 \in Nat /\ Older(a - 1) = a
        BY <1>4, <2>2, OlderFact
      <3>2. /\ Stormy(q, t, l, a - 1).prov = q
            /\ Stormy(q, t, l, a - 1).scope = t
            /\ Stormy(q, t, l, a - 1).key = l
            /\ Stormy(q, t, l, a - 1).age = a - 1
        BY <3>1, FieldsOf
      <3> QED
        BY <1>1, <2>2, <3>1, <3>2
    <2> QED
      BY <2>1, <2>2
  <1> QED
    BY <1>3, <1>4

(* The same for the entries of empty bodies.                               *)
LEMMA AgedEmpty ==
  ASSUME CircuitLimits, NEW S \in SUBSET EmptyEntry
  PROVE  /\ Circ!Aged(S) \in SUBSET EmptyEntry
         /\ \A q \in Provider, l \in Key, a \in Nat : a < EmptyMemory =>
              (Emptied(q, l, a) \in Circ!Aged(S) <=> a > 0 /\ Emptied(q, l, a - 1) \in S)
  <1>1. Circ!Aged(S) = {Emptied(e.prov, e.key, Older(e.age)) : e \in S}
    <2>1. \A e \in S : [e EXCEPT !.age = IF @ < EmptyMemory THEN @ + 1 ELSE @]
                         = Emptied(e.prov, e.key, Older(e.age))
      BY DEF EmptyEntry, Emptied, Older
    <2> QED
      BY <2>1, Zenon DEF Circ!Aged
  <1>2. \A e \in S : Older(e.age) \in Nat
    BY EntryFields, OlderFact
  <1>3. Circ!Aged(S) \in SUBSET EmptyEntry
    BY <1>1, <1>2, EntryFields, FieldsOf
  <1>4. ASSUME NEW q \in Provider, NEW l \in Key, NEW a \in Nat, a < EmptyMemory
        PROVE  Emptied(q, l, a) \in Circ!Aged(S) <=> a > 0 /\ Emptied(q, l, a - 1) \in S
    <2>1. ASSUME Emptied(q, l, a) \in Circ!Aged(S)
          PROVE  a > 0 /\ Emptied(q, l, a - 1) \in S
      <3>1. PICK e \in S : Emptied(q, l, a) = Emptied(e.prov, e.key, Older(e.age))
        BY <1>1, <2>1
      <3>2. /\ q = e.prov
            /\ l = e.key
            /\ a = Older(e.age)
            /\ e = Emptied(e.prov, e.key, e.age)
            /\ e.age \in Nat
        BY <3>1, EntryFields, FieldsEqual
      <3> QED
        BY <1>4, <3>2, OlderFact
    <2>2. ASSUME a > 0, Emptied(q, l, a - 1) \in S
          PROVE  Emptied(q, l, a) \in Circ!Aged(S)
      <3>1. a - 1 \in Nat /\ Older(a - 1) = a
        BY <1>4, <2>2, OlderFact
      <3>2. /\ Emptied(q, l, a - 1).prov = q
            /\ Emptied(q, l, a - 1).key = l
            /\ Emptied(q, l, a - 1).age = a - 1
        BY <3>1, FieldsOf
      <3> QED
        BY <1>1, <2>2, <3>1, <3>2
    <2> QED
      BY <2>1, <2>2
  <1> QED
    BY <1>3, <1>4

(* And for what happened.                                                  *)
LEMMA AgedEvent ==
  ASSUME CircuitLimits, NEW S \in SUBSET Event
  PROVE  /\ Circ!Aged(S) \in SUBSET Event
         /\ \A v \in {"timeout", "empty"}, t \in Scope \cup {"any"}, l \in Key, a \in Nat : a < EmptyMemory =>
              (Ev(v, t, l, a) \in Circ!Aged(S) <=> a > 0 /\ Ev(v, t, l, a - 1) \in S)
  <1>1. Circ!Aged(S) = {Ev(e.what, e.scope, e.key, Older(e.age)) : e \in S}
    <2>1. \A e \in S : [e EXCEPT !.age = IF @ < EmptyMemory THEN @ + 1 ELSE @]
                         = Ev(e.what, e.scope, e.key, Older(e.age))
      BY DEF Event, Ev, Older
    <2> QED
      BY <2>1, Zenon DEF Circ!Aged
  <1>2. \A e \in S : Older(e.age) \in Nat
    BY EntryFields, OlderFact
  <1>3. Circ!Aged(S) \in SUBSET Event
    BY <1>1, <1>2, EntryFields, FieldsOf
  <1>4. ASSUME NEW v \in {"timeout", "empty"}, NEW t \in Scope \cup {"any"}, NEW l \in Key,
               NEW a \in Nat, a < EmptyMemory
        PROVE  Ev(v, t, l, a) \in Circ!Aged(S) <=> a > 0 /\ Ev(v, t, l, a - 1) \in S
    <2>1. ASSUME Ev(v, t, l, a) \in Circ!Aged(S)
          PROVE  a > 0 /\ Ev(v, t, l, a - 1) \in S
      <3>1. PICK e \in S : Ev(v, t, l, a) = Ev(e.what, e.scope, e.key, Older(e.age))
        BY <1>1, <2>1
      <3>2. /\ v = e.what
            /\ t = e.scope
            /\ l = e.key
            /\ a = Older(e.age)
            /\ e = Ev(e.what, e.scope, e.key, e.age)
            /\ e.age \in Nat
        BY <3>1, EntryFields, FieldsEqual
      <3> QED
        BY <1>4, <3>2, OlderFact
    <2>2. ASSUME a > 0, Ev(v, t, l, a - 1) \in S
          PROVE  Ev(v, t, l, a) \in Circ!Aged(S)
      <3>1. a - 1 \in Nat /\ Older(a - 1) = a
        BY <1>4, <2>2, OlderFact
      <3>2. /\ Ev(v, t, l, a - 1).what = v
            /\ Ev(v, t, l, a - 1).scope = t
            /\ Ev(v, t, l, a - 1).key = l
            /\ Ev(v, t, l, a - 1).age = a - 1
        BY <3>1, FieldsOf
      <3> QED
        BY <1>1, <2>2, <3>1, <3>2
    <2> QED
      BY <2>1, <2>2
  <1> QED
    BY <1>3, <1>4

(* A timeout is noted for the key and for its provider and scope.          *)
LEMMA TimeoutInv ==
  ASSUME CircuitLimits, CircuitInv, NEW k \in Key, NEW s \in Scope, Circ!note_timeout(k, s)
  PROVE  CircuitInv'
  <1> DEFINE p == ProviderOf[k]
  <1>0. p \in Provider
    BY DEF CircuitLimits
  <1>1. /\ timeouts' = Circ!Stamp(timeouts, Hung(k, 0))
        /\ storms' = Circ!Stamp(storms, Stormy(p, s, k, 0))
        /\ Circ!Happens("timeout", s, k) /\ answer' = Circ!Unasked /\ empties' = empties
    BY DEF Circ!note_timeout, Hung, Stormy
  <1>2. /\ timeouts' \in SUBSET HungEntry
        /\ \A l \in Key, a \in Nat :
             Hung(l, a) \in timeouts' <=> IF l = k THEN a = 0 ELSE Hung(l, a) \in timeouts
    BY <1>1, StampHung DEF CircuitInv, CircuitTyped
  <1>3. /\ storms' \in SUBSET StormEntry
        /\ \A q \in Provider, t \in Scope, l \in Key, a \in Nat :
             Stormy(q, t, l, a) \in storms'
               <=> IF q = p /\ t = s /\ l = k THEN a = 0 ELSE Stormy(q, t, l, a) \in storms
    BY <1>0, <1>1, StampStorm DEF CircuitInv, CircuitTyped
  <1>4. /\ happened' \in SUBSET Event
        /\ \A v \in {"timeout", "empty"}, t \in Scope \cup {"any"}, l \in Key, a \in Nat :
             Ev(v, t, l, a) \in happened'
               <=> IF v = "timeout" /\ t = s /\ l = k THEN a = 0 ELSE Ev(v, t, l, a) \in happened
    BY <1>1, HappensFact DEF CircuitInv
  <1>5. CircuitTyped'
    BY <1>1, <1>2, <1>3, <1>4 DEF CircuitInv, CircuitTyped
  <1>6. StormsTrue'
    BY <1>3, <1>4 DEF CircuitInv, StormsTrue
  <1>7. EmptiesTrue'
    BY <1>1, <1>4 DEF CircuitInv, EmptiesTrue
  <1>8. HungTrue'
    <2>1. ASSUME NEW l \in Key, NEW a \in Nat, a < TimeoutMemory, Hung(l, a) \in timeouts'
          PROVE  \E t \in Scope : Ev("timeout", t, l, a) \in happened'
      <3>1. CASE l = k
        BY <1>2, <1>4, <2>1, <3>1
      <3>2. CASE l # k
        BY <1>2, <1>4, <2>1, <3>2 DEF CircuitInv, HungTrue
      <3> QED
        BY <3>1, <3>2
    <2>2. ASSUME NEW t \in Scope, NEW l \in Key, NEW a \in Nat, a < TimeoutMemory,
                 Ev("timeout", t, l, a) \in happened'
          PROVE  \E b \in Nat : b <= a /\ Hung(l, b) \in timeouts'
      <3>1. CASE l = k
        BY <1>2, <3>1
      <3>2. CASE l # k
        BY <1>2, <1>4, <2>2, <3>2 DEF CircuitInv, HungTrue
      <3> QED
        BY <3>1, <3>2
    <2> QED
      BY <2>1, <2>2 DEF HungTrue
  <1>9. Circ!StormExact' /\ Circ!HungExact'
    BY <1>1 DEF Circ!StormExact, Circ!HungExact, Circ!Unasked
  <1> QED
    BY <1>5, <1>6, <1>7, <1>8, <1>9 DEF CircuitInv

(* An empty body is noted for the provider.                                *)
LEMMA EmptyInv ==
  ASSUME CircuitLimits, CircuitInv, NEW k \in Key, Circ!note_empty_body(k)
  PROVE  CircuitInv'
  <1> DEFINE p == ProviderOf[k]
  <1>0. p \in Provider
    BY DEF CircuitLimits
  <1>1. /\ empties' = Circ!Stamp(empties, Emptied(p, k, 0))
        /\ Circ!Happens("empty", "any", k) /\ answer' = Circ!Unasked
        /\ UNCHANGED <<timeouts, storms>>
    BY DEF Circ!note_empty_body, Emptied
  <1>2. /\ empties' \in SUBSET EmptyEntry
        /\ \A q \in Provider, l \in Key, a \in Nat :
             Emptied(q, l, a) \in empties'
               <=> IF q = p /\ l = k THEN a = 0 ELSE Emptied(q, l, a) \in empties
    BY <1>0, <1>1, StampEmpty DEF CircuitInv, CircuitTyped
  <1>4. /\ happened' \in SUBSET Event
        /\ \A v \in {"timeout", "empty"}, t \in Scope \cup {"any"}, l \in Key, a \in Nat :
             Ev(v, t, l, a) \in happened'
               <=> IF v = "empty" /\ t = "any" /\ l = k THEN a = 0 ELSE Ev(v, t, l, a) \in happened
    BY <1>1, HappensFact DEF CircuitInv
  <1>5. CircuitTyped'
    BY <1>1, <1>2, <1>4 DEF CircuitInv, CircuitTyped
  <1>6. StormsTrue' /\ HungTrue'
    BY <1>1, <1>4 DEF CircuitInv, StormsTrue, HungTrue
  <1>7. EmptiesTrue'
    BY <1>2, <1>4 DEF CircuitInv, EmptiesTrue
  <1>9. Circ!StormExact' /\ Circ!HungExact'
    BY <1>1 DEF Circ!StormExact, Circ!HungExact, Circ!Unasked
  <1> QED
    BY <1>5, <1>6, <1>7, <1>9 DEF CircuitInv

(* A tick: what is remembered ages with what happened.                     *)
LEMMA ClockInv ==
  ASSUME CircuitLimits, CircuitInv, Circ!Tick
  PROVE  CircuitInv'
  <1>0. \A a \in Nat : a < TimeoutMemory => a < EmptyMemory
    BY DEF CircuitLimits
  <1>1. /\ timeouts' = Circ!Aged(timeouts) /\ storms' = Circ!Aged(storms)
        /\ empties' = Circ!Aged(empties) /\ answer' = Circ!Unasked
        /\ happened' = Circ!Young(Circ!Aged(happened), EmptyMemory)
    BY DEF Circ!Tick
  <1>2. /\ timeouts' \in SUBSET HungEntry
        /\ \A l \in Key, a \in Nat : a < EmptyMemory =>
             (Hung(l, a) \in timeouts' <=> a > 0 /\ Hung(l, a - 1) \in timeouts)
    BY <1>1, AgedHung DEF CircuitInv, CircuitTyped
  <1>3. /\ storms' \in SUBSET StormEntry
        /\ \A q \in Provider, t \in Scope, l \in Key, a \in Nat : a < EmptyMemory =>
             (Stormy(q, t, l, a) \in storms' <=> a > 0 /\ Stormy(q, t, l, a - 1) \in storms)
    BY <1>1, AgedStorm DEF CircuitInv, CircuitTyped
  <1>4. /\ empties' \in SUBSET EmptyEntry
        /\ \A q \in Provider, l \in Key, a \in Nat : a < EmptyMemory =>
             (Emptied(q, l, a) \in empties' <=> a > 0 /\ Emptied(q, l, a - 1) \in empties)
    BY <1>1, AgedEmpty DEF CircuitInv, CircuitTyped
  <1>5. /\ happened' \in SUBSET Event
        /\ \A v \in {"timeout", "empty"}, t \in Scope \cup {"any"}, l \in Key, a \in Nat :
             a < EmptyMemory =>
               (Ev(v, t, l, a) \in happened' <=> a > 0 /\ Ev(v, t, l, a - 1) \in happened)
    <2>1. /\ Circ!Aged(happened) \in SUBSET Event
          /\ \A v \in {"timeout", "empty"}, t \in Scope \cup {"any"}, l \in Key, a \in Nat :
               a < EmptyMemory =>
                 (Ev(v, t, l, a) \in Circ!Aged(happened) <=> a > 0 /\ Ev(v, t, l, a - 1) \in happened)
      BY AgedEvent DEF CircuitInv, CircuitTyped
    <2>2. \A e : e \in happened' <=> e \in Circ!Aged(happened) /\ e.age < EmptyMemory
      BY <1>1 DEF Circ!Young
    <2>3. \A v \in {"timeout", "empty"}, t \in Scope \cup {"any"}, l \in Key, a \in Nat :
            Ev(v, t, l, a).age = a
      BY FieldsOf
    <2> QED
      BY <2>1, <2>2, <2>3
  <1>6. CircuitTyped'
    BY <1>2, <1>3, <1>4, <1>5 DEF CircuitTyped
  <1>7. StormsTrue'
    <2> SUFFICES ASSUME NEW q \in Provider, NEW t \in Scope, NEW l \in Key, NEW a \in Nat,
                        a < TimeoutMemory
                 PROVE  Stormy(q, t, l, a) \in storms'
                          <=> q = ProviderOf[l] /\ Ev("timeout", t, l, a) \in happened'
      BY DEF StormsTrue
    <2>1. a > 0 => a - 1 \in Nat /\ a - 1 < TimeoutMemory
      BY DEF CircuitLimits
    <2>2. a > 0 => (Stormy(q, t, l, a - 1) \in storms
                      <=> q = ProviderOf[l] /\ Ev("timeout", t, l, a - 1) \in happened)
      BY <2>1 DEF CircuitInv, StormsTrue
    <2> QED
      BY <1>0, <1>3, <1>5, <2>2
  <1>8. EmptiesTrue'
    <2> SUFFICES ASSUME NEW q \in Provider, NEW l \in Key, NEW a \in Nat, a < EmptyMemory
                 PROVE  Emptied(q, l, a) \in empties'
                          <=> q = ProviderOf[l] /\ Ev("empty", "any", l, a) \in happened'
      BY DEF EmptiesTrue
    <2>1. a > 0 => a - 1 \in Nat /\ a - 1 < EmptyMemory
      BY DEF CircuitLimits
    <2>2. a > 0 => (Emptied(q, l, a - 1) \in empties
                      <=> q = ProviderOf[l] /\ Ev("empty", "any", l, a - 1) \in happened)
      BY <2>1 DEF CircuitInv, EmptiesTrue
    <2> QED
      BY <1>4, <1>5, <2>2
  <1>9. HungTrue'
    <2>1. ASSUME NEW l \in Key, NEW a \in Nat, a < TimeoutMemory, Hung(l, a) \in timeouts'
          PROVE  \E t \in Scope : Ev("timeout", t, l, a) \in happened'
      <3>1. a > 0 /\ a - 1 \in Nat /\ a - 1 < TimeoutMemory /\ Hung(l, a - 1) \in timeouts
        BY <1>0, <1>2, <2>1 DEF CircuitLimits
      <3>2. PICK t \in Scope : Ev("timeout", t, l, a - 1) \in happened
        BY <3>1 DEF CircuitInv, HungTrue
      <3>3. Ev("timeout", t, l, a) \in happened'
        BY <1>0, <1>5, <2>1, <3>1, <3>2
      <3> QED
        BY <3>3
    <2>2. ASSUME NEW t \in Scope, NEW l \in Key, NEW a \in Nat, a < TimeoutMemory,
                 Ev("timeout", t, l, a) \in happened'
          PROVE  \E b \in Nat : b <= a /\ Hung(l, b) \in timeouts'
      <3>1. /\ a > 0
            /\ a - 1 \in Nat
            /\ a - 1 < TimeoutMemory
            /\ Ev("timeout", t, l, a - 1) \in happened
        BY <1>0, <1>5, <2>2 DEF CircuitLimits
      <3>2. PICK b \in Nat : b <= a - 1 /\ Hung(l, b) \in timeouts
        BY <3>1 DEF CircuitInv, HungTrue
      <3>3. b + 1 \in Nat /\ b + 1 <= a /\ b + 1 < EmptyMemory /\ b + 1 > 0 /\ (b + 1) - 1 = b
        BY <1>0, <2>2, <3>2 DEF CircuitLimits
      <3>4. Hung(l, b + 1) \in timeouts'
        BY <1>2, <3>2, <3>3
      <3> QED
        BY <3>3, <3>4
    <2> QED
      BY <2>1, <2>2 DEF HungTrue
  <1>10. Circ!StormExact' /\ Circ!HungExact'
    BY <1>1 DEF Circ!StormExact, Circ!HungExact, Circ!Unasked
  <1> QED
    BY <1>6, <1>7, <1>8, <1>9, <1>10 DEF CircuitInv

(* What really failed, in the terms of the invariant.                      *)
LEMMA FailedFact ==
  ASSUME CircuitTyped, NEW w \in {"timeout", "empty"}, NEW s \in Scope \cup {"any"}, NEW m,
         NEW p
  PROVE  \A k : k \in Circ!Failed(w, s, m, p)
           <=> k \in Key /\ ProviderOf[k] = p /\ \E a \in Nat : a < m /\ Ev(w, s, k, a) \in happened
  <1>1. ASSUME NEW k \in Circ!Failed(w, s, m, p)
        PROVE  k \in Key /\ ProviderOf[k] = p /\ \E a \in Nat : a < m /\ Ev(w, s, k, a) \in happened
    <2>1. PICK h \in happened : /\ h.what = w /\ h.scope = s /\ h.age < m
                                /\ ProviderOf[h.key] = p /\ k = h.key
      BY <1>1 DEF Circ!Failed
    <2>2. h.key \in Key /\ h.age \in Nat /\ h = Ev(h.what, h.scope, h.key, h.age)
      BY EntryFields DEF CircuitTyped
    <2> QED
      BY <2>1, <2>2
  <1>2. ASSUME NEW k \in Key, ProviderOf[k] = p, NEW a \in Nat, a < m, Ev(w, s, k, a) \in happened
        PROVE  k \in Circ!Failed(w, s, m, p)
    BY <1>2, FieldsOf DEF Circ!Failed
  <1> QED
    BY <1>1, <1>2

(* A question about timeouts is answered by what happened.                 *)
LEMMA StormAsked ==
  ASSUME CircuitLimits, CircuitInv, NEW s \in Scope, Circ!providers_in_timeout_storm(s)
  PROVE  CircuitInv'
  <1>1. /\ /\ storms' = Circ!Young(storms, TimeoutMemory)
        /\ UNCHANGED <<timeouts, empties, happened>>
        /\ answer'.to = "timeout" /\ answer'.scope = s
        /\ answer'.set = {p \in Provider :
             Circ!Cardinality({e.key : e \in Circ!Young(Circ!Bucket(p, s), TimeoutMemory)}) >= MinKeys}
    BY DEF Circ!providers_in_timeout_storm
  <1>2. storms' \subseteq storms
    BY <1>1 DEF Circ!Young
  <1>3. CircuitTyped' /\ EmptiesTrue' /\ HungTrue'
    BY <1>1, <1>2 DEF CircuitInv, CircuitTyped, EmptiesTrue, HungTrue
  <1>4. StormsTrue'
    BY <1>1, FieldsOf DEF CircuitInv, StormsTrue, Circ!Young
  <1>5. ASSUME NEW p \in Provider
        PROVE  {e.key : e \in Circ!Young(Circ!Bucket(p, s), TimeoutMemory)}
                 = Circ!Failed("timeout", s, TimeoutMemory, p)
    <2>1. ASSUME NEW k \in {e.key : e \in Circ!Young(Circ!Bucket(p, s), TimeoutMemory)}
          PROVE  k \in Circ!Failed("timeout", s, TimeoutMemory, p)
      <3>1. PICK e \in storms : e.prov = p /\ e.scope = s /\ e.age < TimeoutMemory /\ k = e.key
        BY <2>1 DEF Circ!Young, Circ!Bucket
      <3>2. k \in Key /\ e.age \in Nat /\ e = Stormy(p, s, k, e.age)
        BY <3>1, EntryFields DEF CircuitInv, CircuitTyped
      <3>3. p = ProviderOf[k] /\ Ev("timeout", s, k, e.age) \in happened
        BY <3>1, <3>2 DEF CircuitInv, StormsTrue
      <3> QED
        BY <3>1, <3>2, <3>3, FailedFact DEF CircuitInv
    <2>2. ASSUME NEW k \in Circ!Failed("timeout", s, TimeoutMemory, p)
          PROVE  k \in {e.key : e \in Circ!Young(Circ!Bucket(p, s), TimeoutMemory)}
      <3>1. k \in Key /\ ProviderOf[k] = p
        BY <2>2, FailedFact DEF CircuitInv
      <3>2. PICK a \in Nat : a < TimeoutMemory /\ Ev("timeout", s, k, a) \in happened
        BY <2>2, FailedFact DEF CircuitInv
      <3>3. Stormy(p, s, k, a) \in storms
        BY <3>1, <3>2 DEF CircuitInv, StormsTrue
      <3>4. Stormy(p, s, k, a) \in Circ!Young(Circ!Bucket(p, s), TimeoutMemory)
            /\ Stormy(p, s, k, a).key = k
        BY <3>1, <3>2, <3>3, FieldsOf DEF Circ!Young, Circ!Bucket
      <3> QED
        BY <3>4
    <2> QED
      BY <2>1, <2>2
  <1>6. \A p \in Provider : Circ!Failed("timeout", s, TimeoutMemory, p)'
                              = Circ!Failed("timeout", s, TimeoutMemory, p)
    BY <1>1 DEF Circ!Failed
  <1>7. answer'.set = {p \in Provider :
          Circ!Cardinality(Circ!Failed("timeout", s, TimeoutMemory, p)') >= MinKeys}
    BY <1>1, <1>5, <1>6
  <1>8. Circ!StormExact' /\ Circ!HungExact'
    BY <1>1, <1>7 DEF Circ!StormExact, Circ!HungExact
  <1> QED
    BY <1>3, <1>4, <1>8 DEF CircuitInv

(* The same for empty bodies.                                              *)
LEMMA EmptyAsked ==
  ASSUME CircuitLimits, CircuitInv, Circ!providers_in_empty_storm
  PROVE  CircuitInv'
  <1>1. /\ /\ empties' = Circ!Young(empties, EmptyMemory)
        /\ UNCHANGED <<timeouts, storms, happened>>
        /\ answer'.to = "empty"
        /\ answer'.set = {p \in Provider :
             Circ!Cardinality({e.key : e \in {f \in empties' : f.prov = p}}) >= MinKeys}
    BY DEF Circ!providers_in_empty_storm
  <1>2. \A e : e \in empties' <=> e \in empties /\ e.age < EmptyMemory
    BY <1>1 DEF Circ!Young
  <1>3. CircuitTyped' /\ StormsTrue' /\ HungTrue'
    BY <1>1, <1>2 DEF CircuitInv, CircuitTyped, StormsTrue, HungTrue
  <1>4. EmptiesTrue'
    <2>1. \A q \in Provider, l \in Key, a \in Nat : Emptied(q, l, a).age = a
      BY FieldsOf
    <2> QED
      BY <1>1, <1>2, <2>1 DEF CircuitInv, EmptiesTrue
  <1>5. ASSUME NEW p \in Provider
        PROVE  {e.key : e \in {f \in empties' : f.prov = p}}
                 = Circ!Failed("empty", "any", EmptyMemory, p)
    <2>1. ASSUME NEW k \in {e.key : e \in {f \in empties' : f.prov = p}}
          PROVE  k \in Circ!Failed("empty", "any", EmptyMemory, p)
      <3>1. PICK e \in empties : e.prov = p /\ e.age < EmptyMemory /\ k = e.key
        BY <1>2, <2>1
      <3>2. k \in Key /\ e.age \in Nat /\ e = Emptied(p, k, e.age)
        BY <3>1, EntryFields DEF CircuitInv, CircuitTyped
      <3>3. p = ProviderOf[k] /\ Ev("empty", "any", k, e.age) \in happened
        BY <3>1, <3>2 DEF CircuitInv, EmptiesTrue
      <3> QED
        BY <3>1, <3>2, <3>3, FailedFact DEF CircuitInv
    <2>2. ASSUME NEW k \in Circ!Failed("empty", "any", EmptyMemory, p)
          PROVE  k \in {e.key : e \in {f \in empties' : f.prov = p}}
      <3>1. k \in Key /\ ProviderOf[k] = p
        BY <2>2, FailedFact DEF CircuitInv
      <3>2. PICK a \in Nat : a < EmptyMemory /\ Ev("empty", "any", k, a) \in happened
        BY <2>2, FailedFact DEF CircuitInv
      <3>3. Emptied(p, k, a) \in empties
        BY <3>1, <3>2 DEF CircuitInv, EmptiesTrue
      <3>4. /\ Emptied(p, k, a) \in empties' /\ Emptied(p, k, a).prov = p
            /\ Emptied(p, k, a).key = k
        BY <1>2, <3>1, <3>2, <3>3, FieldsOf
      <3> QED
        BY <3>4
    <2> QED
      BY <2>1, <2>2
  <1>6. \A p \in Provider : Circ!Failed("empty", "any", EmptyMemory, p)'
                              = Circ!Failed("empty", "any", EmptyMemory, p)
    BY <1>1 DEF Circ!Failed
  <1>7. answer'.set = {p \in Provider :
          Circ!Cardinality(Circ!Failed("empty", "any", EmptyMemory, p)') >= MinKeys}
    BY <1>1, <1>5, <1>6
  <1>8. Circ!StormExact' /\ Circ!HungExact'
    BY <1>1, <1>7 DEF Circ!StormExact, Circ!HungExact
  <1> QED
    BY <1>3, <1>4, <1>8 DEF CircuitInv

(* And for keys that hang.                                                 *)
LEMMA HungAsked ==
  ASSUME CircuitLimits, CircuitInv, Circ!recent_timeout_key_ids
  PROVE  CircuitInv'
  <1>1. /\ /\ timeouts' = Circ!Young(timeouts, TimeoutMemory)
        /\ UNCHANGED <<storms, empties, happened>>
        /\ answer'.to = "keys" /\ answer'.set = {e.key : e \in timeouts'}
    BY DEF Circ!recent_timeout_key_ids
  <1>2. \A e : e \in timeouts' <=> e \in timeouts /\ e.age < TimeoutMemory
    BY <1>1 DEF Circ!Young
  <1>3. CircuitTyped' /\ StormsTrue' /\ EmptiesTrue'
    BY <1>1, <1>2 DEF CircuitInv, CircuitTyped, StormsTrue, EmptiesTrue
  <1>4. \A l \in Key, a \in Nat :
          Hung(l, a) \in timeouts' <=> Hung(l, a) \in timeouts /\ a < TimeoutMemory
    BY <1>2, FieldsOf
  <1>5. HungTrue'
    <2>1. ASSUME NEW l \in Key, NEW a \in Nat, a < TimeoutMemory, Hung(l, a) \in timeouts'
          PROVE  \E t \in Scope : Ev("timeout", t, l, a) \in happened'
      BY <1>1, <1>4, <2>1 DEF CircuitInv, HungTrue
    <2>2. ASSUME NEW t \in Scope, NEW l \in Key, NEW a \in Nat, a < TimeoutMemory,
                 Ev("timeout", t, l, a) \in happened'
          PROVE  \E b \in Nat : b <= a /\ Hung(l, b) \in timeouts'
      <3>1. PICK b \in Nat : b <= a /\ Hung(l, b) \in timeouts
        BY <1>1, <2>2 DEF CircuitInv, HungTrue
      <3>2. b < TimeoutMemory
        BY <2>2, <3>1 DEF CircuitLimits
      <3> QED
        BY <1>4, <3>1, <3>2
    <2> QED
      BY <2>1, <2>2 DEF HungTrue
  <1>6. {e.key : e \in timeouts'}
          = UNION {Circ!Failed("timeout", s, TimeoutMemory, p) : s \in Scope, p \in Provider}
    <2>1. ASSUME NEW k \in {e.key : e \in timeouts'}
          PROVE  \E s \in Scope, p \in Provider : k \in Circ!Failed("timeout", s, TimeoutMemory, p)
      <3>1. PICK e \in timeouts : e.age < TimeoutMemory /\ k = e.key
        BY <1>2, <2>1
      <3>2. k \in Key /\ e.age \in Nat /\ e = Hung(k, e.age)
        BY <3>1, EntryFields DEF CircuitInv, CircuitTyped
      <3>3. PICK s \in Scope : Ev("timeout", s, k, e.age) \in happened
        BY <3>1, <3>2 DEF CircuitInv, HungTrue
      <3>4. k \in Circ!Failed("timeout", s, TimeoutMemory, ProviderOf[k])
        BY <3>1, <3>2, <3>3, FailedFact DEF CircuitInv
      <3>5. ProviderOf[k] \in Provider
        BY <3>2 DEF CircuitLimits
      <3> QED
        BY <3>4, <3>5
    <2>2. ASSUME NEW s \in Scope, NEW p \in Provider,
                 NEW k \in Circ!Failed("timeout", s, TimeoutMemory, p)
          PROVE  k \in {e.key : e \in timeouts'}
      <3>1. k \in Key
        BY <2>2, FailedFact DEF CircuitInv
      <3>2. PICK a \in Nat : a < TimeoutMemory /\ Ev("timeout", s, k, a) \in happened
        BY <2>2, FailedFact DEF CircuitInv
      <3>3. PICK b \in Nat : b <= a /\ Hung(k, b) \in timeouts
        BY <3>1, <3>2 DEF CircuitInv, HungTrue
      <3>4. b < TimeoutMemory
        BY <3>2, <3>3 DEF CircuitLimits
      <3>5. Hung(k, b) \in timeouts' /\ Hung(k, b).key = k
        BY <1>4, <3>1, <3>3, <3>4, FieldsOf
      <3> QED
        BY <3>5
    <2> QED
      BY <2>1, <2>2
  <1>7. \A s \in Scope, p \in Provider : Circ!Failed("timeout", s, TimeoutMemory, p)'
                                           = Circ!Failed("timeout", s, TimeoutMemory, p)
    BY <1>1 DEF Circ!Failed
  <1>8. answer'.set = UNION {Circ!Failed("timeout", s, TimeoutMemory, p)' : s \in Scope, p \in Provider}
    BY <1>1, <1>6, <1>7
  <1>9. Circ!StormExact' /\ Circ!HungExact'
    BY <1>1, <1>8 DEF Circ!StormExact, Circ!HungExact
  <1> QED
    BY <1>3, <1>5, <1>9 DEF CircuitInv

(* What a breaker says of a provider or of a key is what happened within   *)
(* its memory: it holds at first, every step keeps it, and it is enough.   *)
LEMMA BreakerFacts ==
  /\ Circ!Init => CircuitInv
  /\ CircuitInv /\ [Circ!Next]_(Circ!vars) => CircuitInv'
  /\ CircuitInv => Circ!GuardsExact
  <1> USE CircuitAssumption
  <1>1. Circ!Init => CircuitInv
    <2> SUFFICES ASSUME Circ!Init PROVE CircuitInv
      OBVIOUS
    <2>1. /\ timeouts = {}
          /\ storms = {}
          /\ empties = {}
          /\ happened = {}
          /\ answer = Circ!Unasked
      BY DEF Circ!Init
    <2>2. CircuitTyped /\ StormsTrue /\ EmptiesTrue /\ HungTrue
      BY <2>1 DEF CircuitTyped, StormsTrue, EmptiesTrue, HungTrue
    <2>3. Circ!StormExact /\ Circ!HungExact
      BY <2>1 DEF Circ!StormExact, Circ!HungExact, Circ!Unasked
    <2> QED
      BY <2>2, <2>3 DEF CircuitInv
  <1>2. CircuitInv /\ [Circ!Next]_(Circ!vars) => CircuitInv'
    <2> SUFFICES ASSUME CircuitInv, [Circ!Next]_(Circ!vars) PROVE CircuitInv'
      OBVIOUS
    <2>1. CASE Circ!Next
      BY <2>1, TimeoutInv, EmptyInv, StormAsked, EmptyAsked, HungAsked, ClockInv DEF Circ!Next
    <2>2. CASE UNCHANGED Circ!vars
      <3>1. UNCHANGED <<timeouts, storms, empties, happened, answer>>
        BY <2>2 DEF Circ!vars
      <3>2. CircuitTyped' /\ StormsTrue' /\ EmptiesTrue' /\ HungTrue'
        BY <3>1 DEF CircuitInv, CircuitTyped, StormsTrue, EmptiesTrue, HungTrue
      <3>3. Circ!StormExact' /\ Circ!HungExact'
        <4>1. \A w, s, m, p : Circ!Failed(w, s, m, p)' = Circ!Failed(w, s, m, p)
          BY <3>1 DEF Circ!Failed
        <4>2. Circ!StormExact'
          BY <3>1, <4>1 DEF CircuitInv, Circ!StormExact
        <4>3. Circ!HungExact'
          BY <3>1, <4>1 DEF CircuitInv, Circ!HungExact
        <4> QED
          BY <4>2, <4>3
      <3> QED
        BY <3>2, <3>3 DEF CircuitInv
    <2> QED
      BY <2>1, <2>2
  <1>3. CircuitInv => Circ!GuardsExact
    BY DEF CircuitInv, Circ!GuardsExact
  <1> QED
    BY <1>1, <1>2, <1>3
-----------------------------------------------------------------------------
(***************************************************************************)
(* The queue of the local vision model.                                    *)
(***************************************************************************)
CallState ==
  [pc : {"idle", "scale", "wait", "granted", "post", "ended"}, step : Nat, total : Nat,
   scaled : Nat,
   how : {"none", "refused", "busy", "answer", "empty", "unreachable", "timeout",
          "cancelled", "cut"}]

(* The line holds waiting calls, each once.                                *)
Queued(s, calls) ==
  /\ s \in Seq(Calls)
  /\ \A i \in DOMAIN s : calls[s[i]].pc = "wait"
  /\ \A i, j \in DOMAIN s : s[i] = s[j] => i = j

(* Those who have the slot, or were handed it.                             *)
HoldersOf(calls) == {c \in Calls : calls[c].pc \in {"post", "granted"}}

(* Where the time of a call went.                                          *)
Spent(a) ==
  /\ a.pc \in {"idle", "scale"} => a.total = a.scaled
  /\ a.pc \in {"wait", "granted"} => a.total = a.scaled + a.step /\ a.step <= QueueWait
  /\ a.pc = "post" => a.total <= a.scaled + QueueWait + a.step /\ a.step <= HttpTimeout
  /\ a.how = "cut" => a.scaled >= Margin

VisionOk(f, s, calls) ==
  /\ f \in Nat /\ calls \in [Calls -> CallState] /\ Queued(s, calls)
  /\ f + Cardinality(HoldersOf(calls)) = 1
  /\ \A c \in Calls : Spent(calls[c])

VisionInv == VisionOk(free, line, call)

(* The instance counts the way this module does.                           *)
LEMMA VisionCounts ==
  ASSUME NEW S
  PROVE  Vision!Cardinality(S) = Cardinality(S)
  BY Zenon DEF Vision!Cardinality, Cardinality

(* A queue without its first element.                                      *)
LEMMA TailQueued ==
  ASSUME NEW s, NEW calls, Queued(s, calls), s # <<>>
  PROVE  /\ Head(s) \in Calls /\ calls[Head(s)].pc = "wait" /\ Queued(Tail(s), calls)
         /\ \A i \in DOMAIN Tail(s) : Tail(s)[i] # Head(s)
  <1>1. /\ Len(s) \in Nat /\ Len(s) > 0 /\ DOMAIN s = 1..Len(s) /\ Head(s) = s[1]
        /\ Tail(s) \in Seq(Calls) /\ DOMAIN Tail(s) = 1..(Len(s) - 1)
        /\ \A i \in 1..(Len(s) - 1) : Tail(s)[i] = s[i + 1]
    BY DEF Queued
  <1> QED
    BY <1>1 DEF Queued

(* A call that has the slot moves only its own count.                      *)
LEMMA HolderAdded ==
  ASSUME VisionLimits, NEW calls \in [Calls -> CallState], NEW c \in Calls, NEW a \in CallState
  PROVE  /\ Cardinality(HoldersOf(calls)) \in Nat
         /\ (calls[c].pc \notin {"post", "granted"}) /\ a.pc \in {"post", "granted"} =>
              Cardinality(HoldersOf([calls EXCEPT ![c] = a])) = Cardinality(HoldersOf(calls)) + 1
         /\ calls[c].pc \in {"post", "granted"} /\ (a.pc \notin {"post", "granted"}) =>
              Cardinality(HoldersOf([calls EXCEPT ![c] = a])) = Cardinality(HoldersOf(calls)) - 1
         /\ (calls[c].pc \in {"post", "granted"} <=> a.pc \in {"post", "granted"}) =>
              Cardinality(HoldersOf([calls EXCEPT ![c] = a])) = Cardinality(HoldersOf(calls))
  <1> DEFINE after == [calls EXCEPT ![c] = a]
  <1>0. /\ after[c] = a /\ \A d \in Calls : d # c => after[d] = calls[d]
        /\ HoldersOf(calls) \in SUBSET Calls
    BY DEF HoldersOf
  <1>1. IsFiniteSet(HoldersOf(calls))
    BY <1>0, FS_Subset DEF VisionLimits
  <1>2. Cardinality(HoldersOf(calls)) \in Nat
    BY <1>1, FS_CardinalityType
  <1>3. ASSUME calls[c].pc \notin {"post", "granted"}, a.pc \in {"post", "granted"}
        PROVE  Cardinality(HoldersOf(after)) = Cardinality(HoldersOf(calls)) + 1
    <2>1. HoldersOf(after) = HoldersOf(calls) \cup {c} /\ c \notin HoldersOf(calls)
      BY <1>0, <1>3 DEF HoldersOf
    <2> QED
      BY <1>1, <2>1, FS_AddElement
  <1>4. ASSUME calls[c].pc \in {"post", "granted"}, a.pc \notin {"post", "granted"}
        PROVE  Cardinality(HoldersOf(after)) = Cardinality(HoldersOf(calls)) - 1
    <2>1. HoldersOf(after) = HoldersOf(calls) \ {c} /\ c \in HoldersOf(calls)
      BY <1>0, <1>4 DEF HoldersOf
    <2> QED
      BY <1>1, <2>1, FS_RemoveElement
  <1>5. ASSUME calls[c].pc \in {"post", "granted"} <=> a.pc \in {"post", "granted"}
        PROVE  Cardinality(HoldersOf(after)) = Cardinality(HoldersOf(calls))
    <2>1. HoldersOf(after) = HoldersOf(calls)
      BY <1>0, <1>5 DEF HoldersOf
    <2> QED
      BY <2>1
  <1> QED
    BY <1>2, <1>3, <1>4, <1>5

(* Handing the slot to the first in line.                                  *)
LEMMA WakeKeeps ==
  ASSUME VisionLimits, NEW f, NEW s, NEW calls, VisionOk(f, s, calls)
  PROVE  VisionOk(Vision!Wake(f, s, calls).free, Vision!Wake(f, s, calls).line,
                  Vision!Wake(f, s, calls).calls)
  <1>1. CASE f > 0 /\ s # <<>>
    <2> DEFINE c == Head(s)
    <2> DEFINE a == [calls[c] EXCEPT !.pc = "granted"]
    <2>1. /\ Vision!Wake(f, s, calls).free = f - 1 /\ Vision!Wake(f, s, calls).line = Tail(s)
          /\ Vision!Wake(f, s, calls).calls = [calls EXCEPT ![c].pc = "granted"]
      BY <1>1 DEF Vision!Wake
    <2>2. /\ c \in Calls /\ calls[c].pc = "wait" /\ Queued(Tail(s), calls)
          /\ \A i \in DOMAIN Tail(s) : Tail(s)[i] # c
      BY <1>1, TailQueued DEF VisionOk
    <2>3. calls[c] \in CallState /\ Spent(calls[c]) /\ calls \in [Calls -> CallState]
      BY <2>2 DEF VisionOk
    <2>4. /\ a \in CallState /\ a.pc = "granted" /\ a.step = calls[c].step
          /\ a.total = calls[c].total /\ a.scaled = calls[c].scaled /\ a.how = calls[c].how
      BY <2>3 DEF CallState
    <2>5. [calls EXCEPT ![c].pc = "granted"] = [calls EXCEPT ![c] = a]
      BY <2>3
    <2> HIDE DEF a, c
    <2>6. Spent(a)
      BY <2>2, <2>3, <2>4 DEF Spent
    <2> DEFINE after == [calls EXCEPT ![c] = a]
    <2>7. /\ after \in [Calls -> CallState] /\ after[c] = a
          /\ \A d \in Calls : d # c => after[d] = calls[d]
      BY <2>2, <2>3, <2>4
    <2>8. Cardinality(HoldersOf(after)) = Cardinality(HoldersOf(calls)) + 1
          /\ Cardinality(HoldersOf(calls)) \in Nat
      BY <2>2, <2>3, <2>4, HolderAdded
    <2> HIDE DEF after
    <2>9. Queued(Tail(s), after)
      BY <2>2, <2>7 DEF Queued
    <2>10. f - 1 \in Nat /\ (f - 1) + Cardinality(HoldersOf(after)) = 1
      BY <1>1, <2>8 DEF VisionOk
    <2>11. \A d \in Calls : Spent(after[d])
      BY <2>6, <2>7 DEF VisionOk
    <2>12. VisionOk(f - 1, Tail(s), after)
      BY <2>7, <2>9, <2>10, <2>11 DEF VisionOk
    <2> QED
      BY <2>1, <2>5, <2>12 DEF after
  <1>2. CASE ~(f > 0 /\ s # <<>>)
    <2>1. /\ Vision!Wake(f, s, calls).free = f /\ Vision!Wake(f, s, calls).line = s
          /\ Vision!Wake(f, s, calls).calls = calls
      BY <1>2 DEF Vision!Wake
    <2> QED
      BY <2>1
  <1> QED
    BY <1>1, <1>2

(* Becoming such a state.                                                  *)
LEMMA BecomeKeeps ==
  ASSUME VisionLimits, NEW f, NEW s, NEW calls, VisionOk(f, s, calls),
         Vision!Become(Vision!Wake(f, s, calls))
  PROVE  VisionInv'
  BY WakeKeeps DEF Vision!Become, VisionInv

(* A call that leaves the line leaves the others in their order.           *)
LEMMA LeaveQueued ==
  ASSUME NEW s, NEW calls, Queued(s, calls), NEW c \in Calls
  PROVE  /\ Queued(Vision!Leave(s, c), calls)
         /\ \A i \in DOMAIN Vision!Leave(s, c) : Vision!Leave(s, c)[i] # c
  <1>1. CASE \E i \in DOMAIN s : s[i] = c
    <2> DEFINE n == Vision!At(s, c)
    <2> DEFINE x == SubSeq(s, 1, n - 1)
    <2> DEFINE y == SubSeq(s, n + 1, Len(s))
    <2> DEFINE r == x \o y
    <2>1. n \in DOMAIN s /\ s[n] = c /\ Vision!Leave(s, c) = r
      BY <1>1 DEF Vision!At, Vision!Leave
    <2> HIDE DEF n
    <2>2. s \in Seq(Calls) /\ Len(s) \in Nat /\ n \in 1..Len(s)
      BY <2>1 DEF Queued
    <2>3. x \in Seq(Calls) /\ Len(x) = n - 1 /\ \A i \in 1..(n - 1) : x[i] = s[i]
      BY <2>2
    <2>4. y \in Seq(Calls) /\ Len(y) = Len(s) - n /\ \A i \in 1..(Len(s) - n) : y[i] = s[n + i]
      BY <2>2
    <2> HIDE DEF x, y
    <2>5. /\ r \in Seq(Calls) /\ DOMAIN r = 1..(Len(x) + Len(y))
          /\ \A i \in 1..(Len(x) + Len(y)) : r[i] = IF i <= Len(x) THEN x[i] ELSE y[i - Len(x)]
      BY <2>3, <2>4
    <2> HIDE DEF r
    <2>6. DOMAIN r = 1..(Len(s) - 1)
      BY <2>2, <2>3, <2>4, <2>5
    <2>7. ASSUME NEW i \in DOMAIN r
          PROVE  /\ i < n => i \in DOMAIN s /\ r[i] = s[i]
                 /\ i >= n => i + 1 \in DOMAIN s /\ r[i] = s[i + 1]
      <3>1. i \in 1..(Len(s) - 1) /\ DOMAIN s = 1..Len(s)
        BY <2>2, <2>6
      <3>2. CASE i < n
        <4>1. i \in 1..(n - 1) /\ i <= Len(x) /\ i \in 1..(Len(x) + Len(y))
          BY <2>2, <2>3, <2>4, <3>1, <3>2
        <4> QED
          BY <2>2, <2>3, <2>5, <3>1, <3>2, <4>1
      <3>3. CASE i >= n
        <4>1. /\ ~(i <= Len(x)) /\ i \in 1..(Len(x) + Len(y)) /\ i - Len(x) = i - n + 1
              /\ i - n + 1 \in 1..(Len(s) - n) /\ n + (i - n + 1) = i + 1 /\ i + 1 \in 1..Len(s)
          BY <2>2, <2>3, <2>4, <3>1, <3>3
        <4>2. r[i] = y[i - n + 1] /\ y[i - n + 1] = s[i + 1]
          BY <2>4, <2>5, <4>1
        <4>3. ~(i < n)
          BY <2>2, <3>1, <3>3
        <4> QED
          BY <3>1, <4>1, <4>2, <4>3
      <3> QED
        BY <2>2, <3>1, <3>2, <3>3
    <2>8. \A i \in DOMAIN r : r[i] # c /\ calls[r[i]].pc = "wait"
      <3> SUFFICES ASSUME NEW i \in DOMAIN r PROVE r[i] # c /\ calls[r[i]].pc = "wait"
        OBVIOUS
      <3>1. i < n \/ i >= n
        BY <2>2, <2>6
      <3>2. n + 1 # n /\ i \in Int /\ n \in Int
        BY <2>2, <2>6
      <3> QED
        BY <2>1, <2>7, <3>1, <3>2 DEF Queued
    <2>9. ASSUME NEW i \in DOMAIN r, NEW j \in DOMAIN r, r[i] = r[j]
          PROVE  i = j
      <3>1. i \in Int /\ j \in Int /\ n \in Int
        BY <2>2, <2>6
      <3> QED
        BY <2>7, <2>9, <3>1 DEF Queued
    <2> QED
      BY <2>1, <2>5, <2>8, <2>9 DEF Queued
  <1>2. CASE ~ \E i \in DOMAIN s : s[i] = c
    BY <1>2 DEF Vision!Leave
  <1> QED
    BY <1>1, <1>2

(* One call moves on.                                                      *)
LEMMA OneMoves ==
  ASSUME VisionInv, NEW c \in Calls, NEW a \in CallState, Spent(a), NEW f \in Nat, NEW s,
         Queued(s, call), \A i \in DOMAIN s : s[i] # c,
         f + Cardinality(HoldersOf([call EXCEPT ![c] = a])) = 1
  PROVE  VisionOk(f, s, [call EXCEPT ![c] = a])
  <1> DEFINE after == [call EXCEPT ![c] = a]
  <1>1. /\ after \in [Calls -> CallState] /\ after[c] = a
        /\ \A d \in Calls : d # c => after[d] = call[d]
    BY DEF VisionInv, VisionOk
  <1> HIDE DEF after
  <1>2. Queued(s, after)
    BY <1>1 DEF Queued
  <1>3. \A d \in Calls : Spent(after[d])
    BY <1>1 DEF VisionInv, VisionOk
  <1>4. f + Cardinality(HoldersOf(after)) = 1
    BY DEF after
  <1> QED
    BY <1>1, <1>2, <1>3, <1>4 DEF VisionOk, after

(* Only waiting calls are in line.                                         *)
LEMMA NotInLine ==
  ASSUME VisionInv, NEW c \in Calls, call[c].pc # "wait"
  PROVE  \A i \in DOMAIN line : line[i] # c
  BY DEF VisionInv, VisionOk, Queued

Hows == {"refused", "busy", "answer", "empty", "unreachable", "timeout", "cancelled", "cut"}

(* The record of a call that ended; one that was cut spent its margin.     *)
EndOf(c, h) == [Vision!Idle EXCEPT !.pc = "ended", !.how = h, !.scaled = call[c].scaled]

(* The record of an ended call is well typed and is what Ended writes.     *)
LEMMA EndFact ==
  ASSUME VisionInv, NEW c \in Calls, NEW h \in Hows, h = "cut" => call[c].scaled >= Margin
  PROVE  /\ EndOf(c, h) \in CallState /\ Spent(EndOf(c, h)) /\ EndOf(c, h).pc = "ended"
         /\ Vision!Ended(c, h) = [call EXCEPT ![c] = EndOf(c, h)]
  <1>1. call[c] \in CallState
    BY DEF VisionInv, VisionOk
  <1>2. call[c].scaled \in Nat
    BY <1>1 DEF CallState
  <1>3. /\ EndOf(c, h) \in CallState /\ EndOf(c, h).pc = "ended" /\ EndOf(c, h).how = h
        /\ EndOf(c, h).scaled = call[c].scaled
    BY <1>2 DEF EndOf, Vision!Idle, CallState, Hows
  <1>4. Spent(EndOf(c, h))
    BY <1>3 DEF Spent
  <1> QED
    BY <1>3, <1>4 DEF Vision!Ended, EndOf

(* A call that ends leaves the slot to the next in line, whatever it was   *)
(* at.                                                                     *)
LEMMA EndKeeps ==
  ASSUME VisionLimits, VisionInv, NEW c \in Calls, NEW h \in Hows,
         h = "cut" => call[c].scaled >= Margin,
         \/ call[c].pc \in {"wait", "granted"} /\ Vision!Become(Vision!GiveUp(c, h))
         \/ call[c].pc = "post" /\ Vision!Become(Vision!release(c, h))
  PROVE  VisionInv'
  <1> DEFINE a == EndOf(c, h)
  <1>0. /\ a \in CallState /\ Spent(a) /\ a.pc = "ended"
        /\ Vision!Ended(c, h) = [call EXCEPT ![c] = a]
    BY EndFact
  <1> HIDE DEF a
  <1>1. /\ free \in Nat /\ call \in [Calls -> CallState] /\ Queued(line, call)
        /\ free + Cardinality(HoldersOf(call)) = 1 /\ Cardinality(HoldersOf(call)) \in Nat
    BY <1>0, HolderAdded DEF VisionInv, VisionOk
  <1>2. CASE call[c].pc = "wait" /\ Vision!Become(Vision!GiveUp(c, h))
    <2>1. Vision!GiveUp(c, h) = Vision!Wake(free + 0, Vision!Leave(line, c), [call EXCEPT ![c] = a])
      BY <1>0, <1>2 DEF Vision!GiveUp
    <2>2. Cardinality(HoldersOf([call EXCEPT ![c] = a])) = Cardinality(HoldersOf(call))
      BY <1>0, <1>1, <1>2, HolderAdded
    <2>3. free + 0 \in Nat /\ (free + 0) + Cardinality(HoldersOf([call EXCEPT ![c] = a])) = 1
      BY <1>1, <2>2
    <2>4. VisionOk(free + 0, Vision!Leave(line, c), [call EXCEPT ![c] = a])
      BY <1>0, <1>1, <2>3, LeaveQueued, OneMoves
    <2> QED
      BY <1>2, <2>1, <2>4, BecomeKeeps
  <1>3. CASE call[c].pc = "granted" /\ Vision!Become(Vision!GiveUp(c, h))
    <2>1. Vision!GiveUp(c, h) = Vision!Wake(free + 1, Vision!Leave(line, c), [call EXCEPT ![c] = a])
      BY <1>0, <1>3 DEF Vision!GiveUp
    <2>2. Cardinality(HoldersOf([call EXCEPT ![c] = a])) = Cardinality(HoldersOf(call)) - 1
      BY <1>0, <1>1, <1>3, HolderAdded
    <2>3. free + 1 \in Nat /\ (free + 1) + Cardinality(HoldersOf([call EXCEPT ![c] = a])) = 1
      BY <1>1, <2>2
    <2>4. VisionOk(free + 1, Vision!Leave(line, c), [call EXCEPT ![c] = a])
      BY <1>0, <1>1, <2>3, LeaveQueued, OneMoves
    <2> QED
      BY <1>3, <2>1, <2>4, BecomeKeeps
  <1>4. CASE call[c].pc = "post" /\ Vision!Become(Vision!release(c, h))
    <2>1. Vision!release(c, h) = Vision!Wake(free + 1, line, [call EXCEPT ![c] = a])
      BY <1>0 DEF Vision!release
    <2>2. Cardinality(HoldersOf([call EXCEPT ![c] = a])) = Cardinality(HoldersOf(call)) - 1
      BY <1>0, <1>1, <1>4, HolderAdded
    <2>3. free + 1 \in Nat /\ (free + 1) + Cardinality(HoldersOf([call EXCEPT ![c] = a])) = 1
      BY <1>1, <2>2
    <2>4. \A i \in DOMAIN line : line[i] # c
      BY <1>4, NotInLine
    <2>5. VisionOk(free + 1, line, [call EXCEPT ![c] = a])
      BY <1>0, <1>1, <2>3, <2>4, OneMoves
    <2> QED
      BY <1>4, <2>1, <2>5, BecomeKeeps
  <1> QED
    BY <1>2, <1>3, <1>4

(* A step of one call that leaves the line alone.                          *)
LEMMA AloneKeeps ==
  ASSUME VisionLimits, VisionInv, NEW c \in Calls, NEW a \in CallState, Spent(a),
         call[c].pc # "wait", call' = [call EXCEPT ![c] = a], line' = line, free' \in Nat,
         free' + Cardinality(HoldersOf([call EXCEPT ![c] = a])) = 1
  PROVE  VisionInv'
  <1>1. VisionOk(free', line, [call EXCEPT ![c] = a])
    BY NotInLine, OneMoves DEF VisionInv, VisionOk
  <1> QED
    BY <1>1 DEF VisionInv

(* A call begins: the image is to be scaled, or the call is handed on.     *)
LEMMA BeginKeeps ==
  ASSUME VisionLimits, VisionInv, NEW c \in Calls, Vision!Begin(c)
  PROVE  VisionInv'
  <1>0. /\ free \in Nat /\ call \in [Calls -> CallState] /\ call[c] \in CallState
        /\ Spent(call[c]) /\ free + Cardinality(HoldersOf(call)) = 1
    BY DEF VisionInv, VisionOk
  <1>1. call[c].pc = "idle" /\ UNCHANGED <<free, line>>
        /\ (call' = Vision!Goto(c, "scale") \/ call' = Vision!Ended(c, "refused"))
    BY DEF Vision!Begin
  <1>2. CASE call' = Vision!Goto(c, "scale")
    <2> DEFINE a == [call[c] EXCEPT !.pc = "scale", !.step = 0]
    <2>1. /\ a \in CallState /\ a.pc = "scale" /\ a.total = call[c].total
          /\ a.scaled = call[c].scaled /\ a.how = call[c].how
      BY <1>0 DEF CallState
    <2>2. call' = [call EXCEPT ![c] = a]
      BY <1>2 DEF Vision!Goto
    <2> HIDE DEF a
    <2>3. Spent(a)
      BY <1>0, <1>1, <2>1 DEF Spent
    <2>4. Cardinality(HoldersOf([call EXCEPT ![c] = a])) = Cardinality(HoldersOf(call))
      BY <1>0, <1>1, <2>1, HolderAdded
    <2> QED
      BY <1>0, <1>1, <2>1, <2>2, <2>3, <2>4, AloneKeeps
  <1>3. CASE call' = Vision!Ended(c, "refused")
    <2> DEFINE a == EndOf(c, "refused")
    <2>1. a \in CallState /\ Spent(a) /\ a.pc = "ended" /\ call' = [call EXCEPT ![c] = a]
      BY <1>3, EndFact DEF Hows
    <2> HIDE DEF a
    <2>4. Cardinality(HoldersOf([call EXCEPT ![c] = a])) = Cardinality(HoldersOf(call))
      BY <1>0, <1>1, <2>1, HolderAdded
    <2> QED
      BY <1>0, <1>1, <2>1, <2>4, AloneKeeps
  <1> QED
    BY <1>1, <1>2, <1>3

(* The slot is taken, or the call gets in line.                            *)
LEMMA AcquireKeeps ==
  ASSUME VisionLimits, VisionInv, NEW c \in Calls, Vision!acquire(c)
  PROVE  VisionInv'
  <1>0. /\ free \in Nat /\ call \in [Calls -> CallState] /\ call[c] \in CallState
        /\ Spent(call[c]) /\ free + Cardinality(HoldersOf(call)) = 1 /\ Queued(line, call)
    BY DEF VisionInv, VisionOk
  <1>1. call[c].pc = "scale"
    BY DEF Vision!acquire
  <1>2. CASE free > 0 /\ free' = free - 1 /\ call' = Vision!Goto(c, "post") /\ line' = line
    <2> DEFINE a == [call[c] EXCEPT !.pc = "post", !.step = 0]
    <2>1. /\ a \in CallState /\ a.pc = "post" /\ a.total = call[c].total /\ a.step = 0
          /\ a.scaled = call[c].scaled /\ a.how = call[c].how
      BY <1>0 DEF CallState
    <2>2. call' = [call EXCEPT ![c] = a]
      BY <1>2 DEF Vision!Goto
    <2> HIDE DEF a
    <2>3. call[c].scaled \in Nat
      BY <1>0 DEF CallState
    <2>4. Spent(a)
      BY <1>0, <1>1, <2>1, <2>3 DEF Spent, VisionLimits
    <2>5. /\ Cardinality(HoldersOf([call EXCEPT ![c] = a])) = Cardinality(HoldersOf(call)) + 1
          /\ Cardinality(HoldersOf(call)) \in Nat
      BY <1>0, <1>1, <2>1, HolderAdded
    <2>6. free' \in Nat /\ free' + Cardinality(HoldersOf([call EXCEPT ![c] = a])) = 1
      BY <1>0, <1>2, <2>5
    <2> QED
      BY <1>1, <1>2, <2>1, <2>2, <2>4, <2>6, AloneKeeps
  <1>3. CASE free' = free /\ call' = Vision!Goto(c, "wait") /\ line' = Append(line, c)
    <2> DEFINE a == [call[c] EXCEPT !.pc = "wait", !.step = 0]
    <2>1. /\ a \in CallState /\ a.pc = "wait" /\ a.total = call[c].total /\ a.step = 0
          /\ a.scaled = call[c].scaled /\ a.how = call[c].how
      BY <1>0 DEF CallState
    <2>2. call' = [call EXCEPT ![c] = a]
      BY <1>3 DEF Vision!Goto
    <2> HIDE DEF a
    <2>3. call[c].scaled \in Nat
      BY <1>0 DEF CallState
    <2>4. Spent(a)
      BY <1>0, <1>1, <2>1, <2>3 DEF Spent, VisionLimits
    <2>5. Cardinality(HoldersOf(call')) = Cardinality(HoldersOf(call))
      BY <1>0, <1>1, <2>1, <2>2, HolderAdded
    <2>6. /\ call' \in [Calls -> CallState] /\ call'[c] = a
          /\ \A d \in Calls : d # c => call'[d] = call[d]
      BY <1>0, <2>1, <2>2
    <2>7. \A d \in Calls : Spent(call'[d])
      BY <2>4, <2>6 DEF VisionInv, VisionOk
    <2>8. Queued(line', call')
      <3>1. \A i \in DOMAIN line : line[i] # c
        BY <1>1, NotInLine
      <3>2. /\ line' \in Seq(Calls) /\ DOMAIN line' = 1..(Len(line) + 1) /\ Len(line) \in Nat
            /\ DOMAIN line = 1..Len(line) /\ line'[Len(line) + 1] = c
            /\ \A i \in 1..Len(line) : line'[i] = line[i]
        BY <1>0, <1>3 DEF Queued
      <3>3. \A i \in DOMAIN line' : i \in DOMAIN line \/ i = Len(line) + 1
        BY <3>2
      <3>4. \A i \in DOMAIN line' : call'[line'[i]].pc = "wait"
        BY <1>0, <2>1, <2>6, <3>1, <3>2, <3>3 DEF Queued
      <3>5. \A i, j \in DOMAIN line' : line'[i] = line'[j] => i = j
        BY <1>0, <3>1, <3>2, <3>3 DEF Queued
      <3> QED
        BY <3>2, <3>4, <3>5 DEF Queued
    <2> QED
      BY <1>0, <1>3, <2>5, <2>6, <2>7, <2>8 DEF VisionInv, VisionOk
  <1> QED
    BY <1>2, <1>3 DEF Vision!acquire

(* The waiter that was handed the slot runs, and a call that ended returns.*)
LEMMA GrantedKeeps ==
  ASSUME VisionLimits, VisionInv, NEW c \in Calls, Vision!Granted(c) \/ Vision!Return(c)
  PROVE  VisionInv'
  <1>0. /\ free \in Nat /\ call \in [Calls -> CallState] /\ call[c] \in CallState
        /\ Spent(call[c]) /\ free + Cardinality(HoldersOf(call)) = 1
    BY DEF VisionInv, VisionOk
  <1>1. CASE Vision!Granted(c)
    <2> DEFINE a == [call[c] EXCEPT !.pc = "post", !.step = 0]
    <2>0. call[c].pc = "granted" /\ UNCHANGED <<free, line>>
      BY <1>1 DEF Vision!Granted
    <2>1. /\ a \in CallState /\ a.pc = "post" /\ a.total = call[c].total /\ a.step = 0
          /\ a.scaled = call[c].scaled /\ a.how = call[c].how
      BY <1>0 DEF CallState
    <2>2. call' = [call EXCEPT ![c] = a]
      BY <1>1 DEF Vision!Granted, Vision!Goto
    <2> HIDE DEF a
    <2>3. call[c].scaled \in Nat /\ call[c].step \in Nat
      BY <1>0 DEF CallState
    <2>4. Spent(a)
      BY <1>0, <2>0, <2>1, <2>3 DEF Spent, VisionLimits
    <2>5. Cardinality(HoldersOf([call EXCEPT ![c] = a])) = Cardinality(HoldersOf(call))
      BY <1>0, <2>0, <2>1, HolderAdded
    <2> QED
      BY <1>0, <2>0, <2>1, <2>2, <2>4, <2>5, AloneKeeps
  <1>2. CASE Vision!Return(c)
    <2>0. /\ call[c].pc = "ended"
          /\ UNCHANGED <<free, line>>
          /\ call' = [call EXCEPT ![c] = Vision!Idle]
      BY <1>2 DEF Vision!Return
    <2>1. Vision!Idle \in CallState /\ Vision!Idle.pc = "idle" /\ Spent(Vision!Idle)
      BY DEF Vision!Idle, CallState, Spent
    <2>2. Cardinality(HoldersOf([call EXCEPT ![c] = Vision!Idle])) = Cardinality(HoldersOf(call))
      BY <1>0, <2>0, <2>1, HolderAdded
    <2> QED
      BY <1>0, <2>0, <2>1, <2>2, AloneKeeps
  <1> QED
    BY <1>1, <1>2

(* A stop at whatever the call is at.                                      *)
LEMMA StoppedKeeps ==
  ASSUME VisionLimits, VisionInv, NEW c \in Calls, NEW h \in Hows,
         h = "cut" => call[c].scaled >= Margin, Vision!InCall(c),
         Vision!Become(Vision!Stopped(c, h))
  PROVE  VisionInv'
  <1>1. CASE call[c].pc \in {"wait", "granted"}
    <2>1. Vision!Stopped(c, h) = Vision!GiveUp(c, h)
      BY <1>1 DEF Vision!Stopped
    <2> QED
      BY <1>1, <2>1, EndKeeps
  <1>2. CASE call[c].pc = "post"
    <2>1. Vision!Stopped(c, h) = Vision!release(c, h)
      BY <1>2 DEF Vision!Stopped
    <2> QED
      BY <1>2, <2>1, EndKeeps
  <1>3. CASE call[c].pc = "scale"
    <2> DEFINE a == EndOf(c, h)
    <2>1. /\ a \in CallState
          /\ Spent(a)
          /\ a.pc = "ended"
          /\ Vision!Ended(c, h) = [call EXCEPT ![c] = a]
      BY EndFact
    <2>2. Vision!Stopped(c, h) = [free |-> free, line |-> line, calls |-> Vision!Ended(c, h)]
      BY <1>3 DEF Vision!Stopped
    <2>3. free' = free /\ line' = line /\ call' = [call EXCEPT ![c] = a]
      BY <2>1, <2>2 DEF Vision!Become
    <2> HIDE DEF a
    <2>4. /\ free \in Nat
          /\ call \in [Calls -> CallState]
          /\ free + Cardinality(HoldersOf(call)) = 1
      BY DEF VisionInv, VisionOk
    <2>5. Cardinality(HoldersOf([call EXCEPT ![c] = a])) = Cardinality(HoldersOf(call))
      BY <1>3, <2>1, <2>4, HolderAdded
    <2> QED
      BY <1>3, <2>1, <2>3, <2>4, <2>5, AloneKeeps
  <1> QED
    BY <1>1, <1>2, <1>3 DEF Vision!InCall

(* The ceiling of the attempt is met only by a call that spent the margin  *)
(* before it got in line.                                                  *)
LEMMA CeilingKeeps ==
  ASSUME VisionLimits, VisionInv, NEW c \in Calls, Vision!Ceiling(c)
  PROVE  VisionInv'
  <1>1. /\ call[c] \in CallState /\ Spent(call[c]) /\ Vision!InCall(c)
        /\ call[c].total >= HttpTimeout + QueueWait + Margin
        /\ Vision!Become(Vision!Stopped(c, "cut"))
    BY DEF VisionInv, VisionOk, Vision!Ceiling, Vision!call_timeout
  <1>2. call[c].total \in Nat /\ call[c].scaled \in Nat /\ call[c].step \in Nat
    BY <1>1 DEF CallState
  <1>3. call[c].scaled >= Margin
    BY <1>1, <1>2 DEF Spent, Vision!InCall, VisionLimits
  <1> QED
    BY <1>1, <1>3, StoppedKeeps DEF Hows

(* A tick: every call in progress grows older within its timers.           *)
LEMMA TickKeeps ==
  ASSUME VisionLimits, VisionInv, Vision!Tick
  PROVE  VisionInv'
  <1>0. /\ call' = [c \in Calls |-> IF Vision!InCall(c) THEN Vision!Older(call[c]) ELSE call[c]]
        /\ free' = free /\ line' = line
    BY Zenon DEF Vision!Tick
  <1>1. \A c \in Calls :
          /\ call[c].pc \notin {"granted", "ended"}
          /\ call[c].pc = "wait" => call[c].step < QueueWait
          /\ call[c].pc = "post" => call[c].step < HttpTimeout
    BY Zenon DEF Vision!Tick
  <1>2. ASSUME NEW c \in Calls
        PROVE  call'[c] \in CallState /\ call'[c].pc = call[c].pc /\ Spent(call'[c])
    <2>1. call[c] \in CallState /\ Spent(call[c])
      BY DEF VisionInv, VisionOk
    <2>2. CASE Vision!InCall(c)
      <3> DEFINE x == call[c].step + 1
      <3> DEFINE y == call[c].total + 1
      <3> DEFINE z == IF call[c].pc = "scale" THEN call[c].scaled + 1 ELSE call[c].scaled
      <3>1. /\ x \in Nat /\ y \in Nat /\ z \in Nat /\ call[c].step \in Nat
            /\ call[c].total \in Nat /\ call[c].scaled \in Nat
        BY <2>1 DEF CallState
      <3>2. call'[c] = [call[c] EXCEPT !.step = x, !.total = y, !.scaled = z]
        BY <1>0, <2>2, Zenon DEF Vision!Older
      <3>3. /\ x = call[c].step + 1 /\ y = call[c].total + 1
            /\ call[c].pc = "scale" => z = call[c].scaled + 1
            /\ call[c].pc # "scale" => z = call[c].scaled
        OBVIOUS
      <3> HIDE DEF x, y, z
      <3>4. /\ call'[c] \in CallState /\ call'[c].pc = call[c].pc /\ call'[c].how = call[c].how
            /\ call'[c].step = x /\ call'[c].total = y /\ call'[c].scaled = z
        BY <2>1, <3>1, <3>2 DEF CallState
      <3>5. z >= call[c].scaled
        BY <3>1, <3>3
      <3>6. Spent(call'[c])
        <4>1. call'[c].how = "cut" => call'[c].scaled >= Margin
          BY <2>1, <3>1, <3>4, <3>5 DEF Spent, VisionLimits
        <4>2. CASE call[c].pc = "scale"
          BY <2>1, <3>1, <3>3, <3>4, <4>1, <4>2 DEF Spent
        <4>3. CASE call[c].pc = "wait"
          BY <1>1, <2>1, <3>1, <3>3, <3>4, <4>1, <4>3 DEF Spent, VisionLimits
        <4>4. CASE call[c].pc = "post"
          BY <1>1, <2>1, <3>1, <3>3, <3>4, <4>1, <4>4 DEF Spent, VisionLimits
        <4> QED
          BY <1>1, <2>2, <4>2, <4>3, <4>4 DEF Vision!InCall
      <3> QED
        BY <3>4, <3>6
    <2>3. CASE ~Vision!InCall(c)
      BY <1>0, <2>1, <2>3
    <2> QED
      BY <2>2, <2>3
  <1>3. call' \in [Calls -> CallState]
    <2>1. DOMAIN call' = Calls /\ call' = [c \in DOMAIN call' |-> call'[c]]
      BY <1>0, Zenon
    <2> QED
      BY <1>2, <2>1
  <1>4. HoldersOf(call') = HoldersOf(call)
    BY <1>2 DEF HoldersOf
  <1>5. Queued(line', call')
    BY <1>0, <1>2 DEF VisionInv, VisionOk, Queued
  <1> QED
    BY <1>0, <1>2, <1>3, <1>4, <1>5 DEF VisionInv, VisionOk

(* The same for the slot of the local model.                               *)
LEMMA SlotFacts ==
  /\ Vision!Init => VisionInv
  /\ VisionInv /\ [Vision!Next]_(Vision!vars) => VisionInv'
  /\ VisionInv => Vision!GuardsExact
  <1> USE VisionAssumption
  <1>1. Vision!Init => VisionInv
    <2> SUFFICES ASSUME Vision!Init PROVE VisionInv
      OBVIOUS
    <2>1. free = 1 /\ line = <<>> /\ call = [c \in Calls |-> Vision!Idle]
      BY DEF Vision!Init
    <2>2. Vision!Idle \in CallState /\ Vision!Idle.pc = "idle" /\ Spent(Vision!Idle)
      BY DEF Vision!Idle, CallState, Spent
    <2>3. call \in [Calls -> CallState] /\ Queued(line, call) /\ \A c \in Calls : Spent(call[c])
      BY <2>1, <2>2 DEF Queued
    <2>4. HoldersOf(call) = {}
      BY <2>1, <2>2 DEF HoldersOf
    <2>5. free \in Nat /\ free + Cardinality(HoldersOf(call)) = 1
      BY <2>1, <2>4, FS_EmptySet
    <2> QED
      BY <2>3, <2>5 DEF VisionInv, VisionOk
  <1>2. VisionInv /\ [Vision!Next]_(Vision!vars) => VisionInv'
    <2> SUFFICES ASSUME VisionInv, [Vision!Next]_(Vision!vars) PROVE VisionInv'
      OBVIOUS
    <2>1. ASSUME NEW c \in Calls, Vision!Busy(c)
          PROVE  VisionInv'
      BY <2>1, EndKeeps DEF Vision!Busy, Hows
    <2>2. ASSUME NEW c \in Calls, Vision!Post(c)
          PROVE  VisionInv'
      <3>1. PICK h \in Hows : h # "cut" /\ call[c].pc = "post" /\ Vision!Become(Vision!release(c, h))
        BY <2>2 DEF Vision!Post, Hows
      <3> QED
        BY <3>1, EndKeeps
    <2>3. ASSUME NEW c \in Calls, Vision!Cancel(c)
          PROVE  VisionInv'
      BY <2>3, StoppedKeeps DEF Vision!Cancel, Hows
    <2>4. CASE Vision!Next
      BY <2>1, <2>2, <2>3, <2>4, BeginKeeps, AcquireKeeps, GrantedKeeps, CeilingKeeps, TickKeeps
      DEF Vision!Next
    <2>5. CASE UNCHANGED Vision!vars
      BY <2>5 DEF Vision!vars, VisionInv, VisionOk
    <2> QED
      BY <2>4, <2>5
  <1>3. VisionInv => Vision!GuardsExact
    BY VisionCounts DEF VisionInv, VisionOk, HoldersOf, Spent, Vision!GuardsExact, Vision!OneSlot,
      Vision!ClientTimesOutFirst
  <1> QED
    BY <1>1, <1>2, <1>3

(* The guards in front of a provider are exact: a breaker answers by what  *)
(* happened within its memory, whatever it pruned and noted meanwhile      *)
(* (routing/circuit.py), and the local model's slot is neither shared nor  *)
(* lost, nor a call cut by the ceiling whose image was scaled in time      *)
(* (providers/local_vision.py).                                            *)
THEOREM GuardsAreExact == SpecAll => []GuardsExact
  <1> DEFINE Inv == (which = "circuit" => CircuitInv) /\ (which = "vision" => VisionInv)
  <1>1. InitAll => Inv
    BY BreakerFacts, SlotFacts DEF InitAll
  <1>2. Inv /\ [NextAll]_allVars => Inv'
    <2> SUFFICES ASSUME Inv, [NextAll]_allVars PROVE Inv'
      OBVIOUS
    <2>1. which' = which
      BY DEF NextAll, Guarding, Counting, Seeing, allVars
    <2>2. which = "circuit" => [Circ!Next]_(Circ!vars)
      BY DEF NextAll, Guarding, Counting, Seeing, allVars,
        circuitVars, Circ!vars
    <2>3. which = "vision" => [Vision!Next]_(Vision!vars)
      BY DEF NextAll, Guarding, Counting, Seeing, allVars,
        visionVars, Vision!vars
    <2> QED
      BY <2>1, <2>2, <2>3, BreakerFacts, SlotFacts
  <1>3. Inv => GuardsExact
    BY BreakerFacts, SlotFacts DEF GuardsExact
  <1> QED
    BY <1>1, <1>2, <1>3, PTL DEF SpecAll

-----------------------------------------------------------------------------
(***************************************************************************)
(* The counters.                                                           *)
(***************************************************************************)
(* What one attempt a weighs on key k: the reservation it holds, of this   *)
(* window (Today) or of any (Has), and the booking it still owes.             *)
Today(a, k, w, d) == IF a.key = k /\ a.hold[w] = d THEN a.est ELSE 0
Has(a, k, w) == IF a.key = k THEN Holds(a, w) ELSE 0
Due(a, k) == IF a.key = k THEN Owed(a) ELSE 0

(* The phases after the check of the project's cap for the window.         *)
Passed(w) == IF w = "daily" THEN {"projectM", "global", "call", "release"}
             ELSE {"global", "call", "release"}

(* What it weighs on the project.                                          *)
Pending(a, w) == IF a.phase \in Passed(w) THEN a.est ELSE Owed(a)

(* The sums over the slots.                                                *)
AllToday(A, k, w, d) == SumFunction([s \in Slot |-> Today(A[s], k, w, d)])
AllHeld(A, k, w) == SumFunction([s \in Slot |-> Has(A[s], k, w)])
AllDue(A, k) == SumFunction([s \in Slot |-> Due(A[s], k)])
AllPending(A, w) == SumFunction([s \in Slot |-> Pending(A[s], w)])
OverKeys(m, w) == SumFunction([k \in Key |-> m[k][w]])

Slack == (Cardinality(Slot) - 1) * MaxCost
FreshNow(k, w) == IF key[k].stamp[w] # now[w] THEN 0 ELSE key[k].used[w]

Counters == [Key -> [used : [Window -> Nat], stamp : [Window -> Nat]]]

CostTyped ==
  /\ plan \in Plan /\ now \in [Window -> Nat \ {0}] /\ key \in Counters
  /\ spent \in Money /\ leaked \in Money /\ excused \in Money
  /\ cache \in [val : Nat, live : BOOLEAN] /\ att \in [Slot -> AttState]

Before == {"reserve", "project", "projectM", "global", "undo", "call"}
Holding == {"project", "projectM", "global", "undo", "call", "release"}

(* What is known of an attempt by its phase: a reservation is held in all  *)
(* capped windows of the key, from the debit to the refund.                *)
Sound(a) ==
  /\ a.phase # "idle" => a.key \in Key
  /\ a.est <= MaxCost /\ a.cost <= MaxCost
  /\ a.phase \in {"idle", "reserve", "record"} => a.hold = NoWindow
  /\ a.phase \in Holding /\ a.est > 0 => \A w \in KeyWin[a.key] : a.hold[w] # 0
  /\ \A w \in Window : a.at[w] <= now[w]
  /\ \A w \in ProjWin : Pending(a, w) <= ProjCap[w]
  /\ a.phase \in Before => a.out = "none"
  /\ a.phase = "reserve" => \A w \in Window : a.at[w] # 0

StampsPast == \A k \in Key, w \in Window : key[k].stamp[w] <= now[w]
AttemptsSound == \A s \in Slot : Sound(att[s])

(* The counter covers what is booked and reserved, in whichever window.    *)
Covers(k, w) == spent[k][w] + AllHeld(att, k, w) <= FreshNow(k, w) + excused[k][w]

(* It holds no more than that and what leaked.                             *)
Bounded(k, w) == FreshNow(k, w) <= spent[k][w] + AllToday(att, k, w, now[w]) + leaked[k][w]

(* What is booked, reserved and owed stays below the cap and the slack.    *)
KeyBelow(k, w) ==
  spent[k][w] + AllHeld(att, k, w) + AllDue(att, k) <= KeyCap[k][w] + Slack + excused[k][w]

ProjectBelow(w) ==
  OverKeys(spent, w) + AllPending(att, w) <= ProjCap[w] + Slack + OverKeys(excused, w)

(* The inductive invariant.                                                *)
CostInv ==
  /\ CostTyped /\ StampsPast /\ AttemptsSound
  /\ \A k \in Key : \A w \in KeyWin[k] : Covers(k, w) /\ Bounded(k, w) /\ KeyBelow(k, w)
  /\ \A w \in ProjWin : ProjectBelow(w)

(* What an attempt weighs is a number of units.                            *)
LEMMA WeightTypes ==
  ASSUME NEW a \in AttState, NEW k, NEW w \in Window, NEW d
  PROVE  /\ Today(a, k, w, d) \in Nat /\ Has(a, k, w) \in Nat
         /\ Due(a, k) \in Nat /\ Pending(a, w) \in Nat /\ Owed(a) \in Nat /\ Owed(a) <= a.est
         /\ Holds(a, w) \in Nat /\ a.est \in Nat /\ a.cost \in Nat
  <1>1. a.est \in Nat /\ a.cost \in Nat /\ a.hold \in [Window -> Nat]
    BY DEF AttState
  <1>2. Owed(a) \in Nat /\ Owed(a) <= a.est /\ Holds(a, w) \in Nat
    BY <1>1 DEF Owed, Holds
  <1> QED
    BY <1>1, <1>2 DEF Today, Has, Due, Pending

(* The weights of all attempts, and their sums.                            *)
LEMMA SumTypes ==
  ASSUME NEW A \in [Slot -> AttState], NEW k, NEW w \in Window, NEW d
  PROVE  /\ [s \in Slot |-> Today(A[s], k, w, d)] \in [Slot -> Nat]
         /\ [s \in Slot |-> Has(A[s], k, w)] \in [Slot -> Nat]
         /\ [s \in Slot |-> Due(A[s], k)] \in [Slot -> Nat]
         /\ [s \in Slot |-> Pending(A[s], w)] \in [Slot -> Nat]
         /\ AllToday(A, k, w, d) \in Nat /\ AllHeld(A, k, w) \in Nat
         /\ AllDue(A, k) \in Nat /\ AllPending(A, w) \in Nat
  <1>1. IsFiniteSet(Slot)
    BY CapAssumption
  <1>2. \A s \in Slot : /\ Today(A[s], k, w, d) \in Nat /\ Has(A[s], k, w) \in Nat
                        /\ Due(A[s], k) \in Nat /\ Pending(A[s], w) \in Nat
    BY WeightTypes
  <1>3. /\ [s \in Slot |-> Today(A[s], k, w, d)] \in [Slot -> Nat]
        /\ [s \in Slot |-> Has(A[s], k, w)] \in [Slot -> Nat]
        /\ [s \in Slot |-> Due(A[s], k)] \in [Slot -> Nat]
        /\ [s \in Slot |-> Pending(A[s], w)] \in [Slot -> Nat]
    BY <1>2
  <1>4. AllToday(A, k, w, d) \in Nat
    BY <1>1, <1>3, SumType, Zenon DEF AllToday
  <1>5. AllHeld(A, k, w) \in Nat
    BY <1>1, <1>3, SumType, Zenon DEF AllHeld
  <1>6. AllDue(A, k) \in Nat
    BY <1>1, <1>3, SumType, Zenon DEF AllDue
  <1>7. AllPending(A, w) \in Nat
    BY <1>1, <1>3, SumType, Zenon DEF AllPending
  <1> QED
    BY <1>3, <1>4, <1>5, <1>6, <1>7

(* When one attempt changes, each sum changes by its weight.               *)
LEMMA TodayMoves ==
  ASSUME NEW A \in [Slot -> AttState], NEW B \in [Slot -> AttState], NEW s \in Slot,
         \A t \in Slot : t # s => B[t] = A[t], NEW k, NEW w \in Window, NEW d
  PROVE  AllToday(B, k, w, d) + Today(A[s], k, w, d) = AllToday(A, k, w, d) + Today(B[s], k, w, d)
  <1> DEFINE f == [t \in Slot |-> Today(B[t], k, w, d)]
             e == [t \in Slot |-> Today(A[t], k, w, d)]
  <1>1. \A t \in Slot : Today(B[t], k, w, d) \in Nat /\ Today(A[t], k, w, d) \in Nat
    BY WeightTypes
  <1>2. f \in [Slot -> Nat] /\ e \in [Slot -> Nat] /\ IsFiniteSet(Slot)
    BY <1>1, CapAssumption
  <1>3. f[s] = Today(B[s], k, w, d) /\ e[s] = Today(A[s], k, w, d) /\ \A t \in Slot \ {s} : f[t] = e[t]
    OBVIOUS
  <1> HIDE DEF f, e
  <1>4. SumFunction(f) + e[s] = SumFunction(e) + f[s]
    BY <1>2, <1>3, SumOne
  <1> QED
    BY <1>3, <1>4 DEF AllToday, f, e

(* The same of the reservations held,                                      *)
LEMMA HeldMoves ==
  ASSUME NEW A \in [Slot -> AttState], NEW B \in [Slot -> AttState], NEW s \in Slot,
         \A t \in Slot : t # s => B[t] = A[t], NEW k, NEW w \in Window
  PROVE  AllHeld(B, k, w) + Has(A[s], k, w) = AllHeld(A, k, w) + Has(B[s], k, w)
  <1> DEFINE f == [t \in Slot |-> Has(B[t], k, w)]
             e == [t \in Slot |-> Has(A[t], k, w)]
  <1>1. \A t \in Slot : Has(B[t], k, w) \in Nat /\ Has(A[t], k, w) \in Nat
    BY WeightTypes
  <1>2. f \in [Slot -> Nat] /\ e \in [Slot -> Nat] /\ IsFiniteSet(Slot)
    BY <1>1, CapAssumption
  <1>3. f[s] = Has(B[s], k, w) /\ e[s] = Has(A[s], k, w) /\ \A t \in Slot \ {s} : f[t] = e[t]
    OBVIOUS
  <1> HIDE DEF f, e
  <1>4. SumFunction(f) + e[s] = SumFunction(e) + f[s]
    BY <1>2, <1>3, SumOne
  <1> QED
    BY <1>3, <1>4 DEF AllHeld, f, e

(* of the bookings due,                                                    *)
LEMMA DueMoves ==
  ASSUME NEW A \in [Slot -> AttState], NEW B \in [Slot -> AttState], NEW s \in Slot,
         \A t \in Slot : t # s => B[t] = A[t], NEW k
  PROVE  AllDue(B, k) + Due(A[s], k) = AllDue(A, k) + Due(B[s], k)
  <1> DEFINE f == [t \in Slot |-> Due(B[t], k)]
             e == [t \in Slot |-> Due(A[t], k)]
  <1>1. \A t \in Slot : Due(B[t], k) \in Nat /\ Due(A[t], k) \in Nat
    BY WeightTypes DEF Window
  <1>2. f \in [Slot -> Nat] /\ e \in [Slot -> Nat] /\ IsFiniteSet(Slot)
    BY <1>1, CapAssumption
  <1>3. f[s] = Due(B[s], k) /\ e[s] = Due(A[s], k) /\ \A t \in Slot \ {s} : f[t] = e[t]
    OBVIOUS
  <1> HIDE DEF f, e
  <1>4. SumFunction(f) + e[s] = SumFunction(e) + f[s]
    BY <1>2, <1>3, SumOne
  <1> QED
    BY <1>3, <1>4 DEF AllDue, f, e

(* and of what is pending on the project.                                  *)
LEMMA PendingMoves ==
  ASSUME NEW A \in [Slot -> AttState], NEW B \in [Slot -> AttState], NEW s \in Slot,
         \A t \in Slot : t # s => B[t] = A[t], NEW w \in Window
  PROVE  AllPending(B, w) + Pending(A[s], w) = AllPending(A, w) + Pending(B[s], w)
  <1> DEFINE f == [t \in Slot |-> Pending(B[t], w)]
             e == [t \in Slot |-> Pending(A[t], w)]
  <1>1. \A t \in Slot : Pending(B[t], w) \in Nat /\ Pending(A[t], w) \in Nat
    BY WeightTypes
  <1>2. f \in [Slot -> Nat] /\ e \in [Slot -> Nat] /\ IsFiniteSet(Slot)
    BY <1>1, CapAssumption
  <1>3. f[s] = Pending(B[s], w) /\ e[s] = Pending(A[s], w) /\ \A t \in Slot \ {s} : f[t] = e[t]
    OBVIOUS
  <1> HIDE DEF f, e
  <1>4. SumFunction(f) + e[s] = SumFunction(e) + f[s]
    BY <1>2, <1>3, SumOne
  <1> QED
    BY <1>3, <1>4 DEF AllPending, f, e

(* When the amounts of one key change, so does the sum over the keys.      *)
LEMMA KeysMove ==
  ASSUME NEW m \in Money, NEW n \in Money, NEW k \in Key, NEW w \in Window,
         \A p \in Key \ {k} : n[p] = m[p]
  PROVE  /\ OverKeys(n, w) \in Nat /\ OverKeys(m, w) \in Nat
         /\ OverKeys(n, w) + m[k][w] = OverKeys(m, w) + n[k][w]
  <1> DEFINE f == [p \in Key |-> n[p][w]]
             e == [p \in Key |-> m[p][w]]
  <1>1. f \in [Key -> Nat] /\ e \in [Key -> Nat]
    BY DEF Money
  <1>2. f[k] = n[k][w] /\ e[k] = m[k][w] /\ \A p \in Key \ {k} : f[p] = e[p]
    OBVIOUS
  <1>3. IsFiniteSet(Key)
    BY CapAssumption
  <1> HIDE DEF f, e
  <1>4. SumFunction(f) + e[k] = SumFunction(e) + f[k]
    BY <1>1, <1>2, <1>3, SumOne
  <1>5. SumFunction(f) \in Nat /\ SumFunction(e) \in Nat
    BY <1>1, <1>3, SumType
  <1> QED BY <1>2, <1>4, <1>5 DEF OverKeys, f, e

(* The other attempts together weigh no more than the slack.               *)
LEMMA SlackBound ==
  ASSUME plan \in Plan, NEW A \in [Slot -> AttState], NEW s \in Slot, NEW k, NEW w \in Window,
         \A t \in Slot : A[t].est <= MaxCost
  PROVE  /\ Slack \in Nat
         /\ AllDue(A, k) <= Due(A[s], k) + Slack
         /\ AllPending(A, w) <= Pending(A[s], w) + Slack
  <1>1. MaxCost \in Nat /\ IsFiniteSet(Slot) /\ Cardinality(Slot) \in Nat
    BY PlanFacts, CapAssumption, FS_CardinalityType
  <1>2. Cardinality(Slot) # 0
    BY <1>1, FS_EmptySet
  <1> DEFINE n == Cardinality(Slot) - 1
  <1>3. n \in Nat
    BY <1>1, <1>2
  <1> HIDE DEF n
  <1>4. Slack \in Nat
    BY <1>1, <1>3 DEF Slack, n
  <1>5. \A t \in Slot : Due(A[t], k) <= MaxCost /\ Pending(A[t], w) <= MaxCost
    <2> SUFFICES ASSUME NEW t \in Slot PROVE Due(A[t], k) <= MaxCost /\ Pending(A[t], w) <= MaxCost
      OBVIOUS
    <2>1. Owed(A[t]) \in Nat /\ A[t].est \in Nat /\ Owed(A[t]) <= A[t].est /\ A[t].est <= MaxCost
      BY WeightTypes
    <2> QED BY <1>1, <2>1 DEF Due, Pending
  <1>6. AllDue(A, k) <= Due(A[s], k) + Slack
    <2> DEFINE f == [t \in Slot |-> Due(A[t], k)]
    <2>1. f \in [Slot -> Nat] /\ f[s] = Due(A[s], k) /\ \A t \in Slot : f[t] <= MaxCost
      BY <1>5, SumTypes
    <2> HIDE DEF f
    <2>2. SumFunction(f) <= f[s] + (Cardinality(Slot) - 1) * MaxCost
      BY <1>1, <2>1, SumOthers
    <2> QED BY <2>1, <2>2 DEF AllDue, f, Slack
  <1>7. AllPending(A, w) <= Pending(A[s], w) + Slack
    <2> DEFINE f == [t \in Slot |-> Pending(A[t], w)]
    <2>1. f \in [Slot -> Nat] /\ f[s] = Pending(A[s], w) /\ \A t \in Slot : f[t] <= MaxCost
      BY <1>5, SumTypes
    <2> HIDE DEF f
    <2>2. SumFunction(f) <= f[s] + (Cardinality(Slot) - 1) * MaxCost
      BY <1>1, <2>1, SumOthers
    <2> QED BY <2>1, <2>2 DEF AllPending, f, Slack
  <1> QED
    BY <1>4, <1>6, <1>7

(* The comparisons a step of one attempt has to keep.                      *)
KeyKept(a, b, k, w) ==
  /\ FreshNow(k, w) + excused[k][w] + spent'[k][w] + Has(b, k, w)
       <= FreshNow(k, w)' + excused'[k][w] + spent[k][w] + Has(a, k, w)
  /\ \/ FreshNow(k, w)' = 0
     \/ FreshNow(k, w)' + spent[k][w] + Today(a, k, w, now[w]) + leaked[k][w]
          <= FreshNow(k, w) + spent'[k][w] + Today(b, k, w, now[w]) + leaked'[k][w]
  /\ \/ spent'[k][w] + Has(b, k, w) + Due(b, k) + excused[k][w]
          <= spent[k][w] + Has(a, k, w) + Due(a, k) + excused'[k][w]
     \/ FreshNow(k, w)' <= KeyCap[k][w] /\ Due(b, k) = 0

ProjectKept(a, b, k, w) ==
  \/ spent'[k][w] + Pending(b, w) + excused[k][w] <= spent[k][w] + Pending(a, w) + excused'[k][w]
  \/ /\ spent' = spent /\ excused' = excused
     /\ OverKeys(spent, w) + Pending(b, w) <= ProjCap[w]

(* The counters of a key, read today, are numbers.                         *)
LEMMA FreshType ==
  ASSUME CostTyped, NEW k \in Key, NEW w \in Window
  PROVE  FreshNow(k, w) \in Nat /\ spent[k][w] \in Nat /\ leaked[k][w] \in Nat /\ excused[k][w] \in Nat
  BY DEF CostTyped, Counters, FreshNow, Money

(* The sums after a step of the attempt s.                                 *)
LEMMA AttMoves ==
  ASSUME att \in [Slot -> AttState], att' \in [Slot -> AttState], NEW s \in Slot,
         \A t \in Slot : t # s => att'[t] = att[t], NEW b, att'[s] = b
  PROVE  \A k, d : \A w \in Window :
           /\ AllToday(att', k, w, d) + Today(att[s], k, w, d)
                = AllToday(att, k, w, d) + Today(b, k, w, d)
           /\ AllHeld(att', k, w) + Has(att[s], k, w) = AllHeld(att, k, w) + Has(b, k, w)
           /\ AllDue(att', k) + Due(att[s], k) = AllDue(att, k) + Due(b, k)
           /\ AllPending(att', w) + Pending(att[s], w) = AllPending(att, w) + Pending(b, w)
  <1>1. \A k, d : \A w \in Window :
           /\ AllToday(att', k, w, d) + Today(att[s], k, w, d)
                = AllToday(att, k, w, d) + Today(att'[s], k, w, d)
           /\ AllHeld(att', k, w) + Has(att[s], k, w) = AllHeld(att, k, w) + Has(att'[s], k, w)
           /\ AllDue(att', k) + Due(att[s], k) = AllDue(att, k) + Due(att'[s], k)
           /\ AllPending(att', w) + Pending(att[s], w) = AllPending(att, w) + Pending(att'[s], w)
    BY TodayMoves, HeldMoves, DueMoves, PendingMoves
  <1> QED
    BY <1>1, Zenon

(* In the form the steps have.                                             *)
LEMMA AttStepMoves ==
  ASSUME att \in [Slot -> AttState], NEW s \in Slot, NEW b \in AttState,
         att' = [att EXCEPT ![s] = b]
  PROVE  \A k, d : \A w \in Window :
           /\ AllToday(att', k, w, d) + Today(att[s], k, w, d)
                = AllToday(att, k, w, d) + Today(b, k, w, d)
           /\ AllHeld(att', k, w) + Has(att[s], k, w) = AllHeld(att, k, w) + Has(b, k, w)
           /\ AllDue(att', k) + Due(att[s], k) = AllDue(att, k) + Due(b, k)
           /\ AllPending(att', w) + Pending(att[s], w) = AllPending(att, w) + Pending(b, w)
  <1>1. /\ att' \in [Slot -> AttState] /\ att'[s] = b
        /\ \A t \in Slot : t # s => att'[t] = att[t]
    OBVIOUS
  <1> QED
    BY ONLY att \in [Slot -> AttState], s \in Slot, <1>1, AttMoves

(* A step of one attempt that keeps them keeps the invariant.              *)
LEMMA SlotStep ==
  ASSUME CostInv, NEW s \in Slot, NEW b \in AttState, Sound(b),
         att' = [att EXCEPT ![s] = b], plan' = plan, now' = now, CostTyped', StampsPast',
         \A k \in Key : \A w \in KeyWin[k] : KeyKept(att[s], b, k, w),
         NEW own \in Key,
         \A k \in Key \ {own} : spent'[k] = spent[k] /\ excused'[k] = excused[k],
         \A w \in ProjWin : ProjectKept(att[s], b, own, w)
  PROVE  CostInv'
  <1>0. CostTyped /\ plan \in Plan /\ att \in [Slot -> AttState] /\ att[s] \in AttState
    BY DEF CostInv, CostTyped
  <1>1. /\ KeyWin' = KeyWin /\ KeyCap' = KeyCap /\ ProjWin' = ProjWin /\ ProjCap' = ProjCap
        /\ MaxCost' = MaxCost /\ Slack' = Slack
    BY DEF KeyWin, KeyCap, ProjWin, ProjCap, MaxCost, Slack
  <1>2. AttemptsSound'
    <2>1. \A t \in Slot : Sound(att'[t])
      BY <1>0 DEF CostInv, AttemptsSound
    <2> QED
      BY <1>1, <2>1 DEF AttemptsSound, Sound
  <1>3. \A t \in Slot : att'[t].est <= MaxCost
    BY <1>1, <1>2 DEF AttemptsSound, Sound
  <1>4. /\ att' \in [Slot -> AttState] /\ att'[s] = b
        /\ \A t \in Slot : t # s => att'[t] = att[t]
    BY <1>0
  <1>b. \A k, d : \A w \in Window :
           /\ AllToday(att', k, w, d) + Today(att[s], k, w, d)
                = AllToday(att, k, w, d) + Today(b, k, w, d)
           /\ AllHeld(att', k, w) + Has(att[s], k, w) = AllHeld(att, k, w) + Has(b, k, w)
           /\ AllDue(att', k) + Due(att[s], k) = AllDue(att, k) + Due(b, k)
           /\ AllPending(att', w) + Pending(att[s], w) = AllPending(att, w) + Pending(b, w)
    BY <1>0, AttStepMoves
  <1>5. ASSUME NEW k \in Key, NEW w \in KeyWin[k]
        PROVE  Covers(k, w)' /\ Bounded(k, w)' /\ KeyBelow(k, w)'
    <2>0. w \in Window /\ KeyCap[k][w] \in Nat /\ Slack \in Nat
      BY <1>0, <1>3, <1>4, PlanFacts, SlackBound
    <2>1. /\ FreshNow(k, w) \in Nat /\ spent[k][w] \in Nat /\ leaked[k][w] \in Nat
          /\ excused[k][w] \in Nat
      BY <1>0, <2>0, FreshType
    <2>2. /\ FreshNow(k, w)' \in Nat /\ spent'[k][w] \in Nat /\ leaked'[k][w] \in Nat
          /\ excused'[k][w] \in Nat
      BY <2>0 DEF CostTyped, Counters, FreshNow, Money
    <2> DEFINE a == att[s]
               d == now[w]
               hA == AllHeld(att, k, w)
               hB == AllHeld(att', k, w)
               tA == AllToday(att, k, w, d)
               tB == AllToday(att', k, w, d)
               dA == AllDue(att, k)
               dB == AllDue(att', k)
    <2>3. /\ tB + Today(a, k, w, d) = tA + Today(b, k, w, d)
          /\ hB + Has(a, k, w) = hA + Has(b, k, w)
          /\ dB + Due(a, k) = dA + Due(b, k)
      BY <1>b, <2>0, Zenon
    <2>4. hA \in Nat /\ hB \in Nat /\ tA \in Nat /\ tB \in Nat /\ dA \in Nat /\ dB \in Nat
      BY <1>0, <1>4, <2>0, SumTypes
    <2>5. /\ Today(a, k, w, d) \in Nat /\ Has(a, k, w) \in Nat /\ Due(a, k) \in Nat
          /\ Today(b, k, w, d) \in Nat /\ Has(b, k, w) \in Nat /\ Due(b, k) \in Nat
      BY <1>0, <2>0, WeightTypes
    <2>6. /\ spent[k][w] + hA <= FreshNow(k, w) + excused[k][w]
          /\ FreshNow(k, w) <= spent[k][w] + tA + leaked[k][w]
          /\ spent[k][w] + hA + dA <= KeyCap[k][w] + Slack + excused[k][w]
      BY DEF CostInv, Covers, Bounded, KeyBelow
    <2>7. KeyKept(a, b, k, w)
      OBVIOUS
    <2>8. dB <= Due(b, k) + Slack
      BY <1>0, <1>3, <1>4, <2>0, SlackBound
    <2> HIDE DEF a, d, hA, hB, tA, tB, dA, dB
    <2>9. spent'[k][w] + hB <= FreshNow(k, w)' + excused'[k][w]
      BY <2>1, <2>2, <2>3, <2>4, <2>5, <2>6, <2>7 DEF KeyKept
    <2>10. FreshNow(k, w)' <= spent'[k][w] + tB + leaked'[k][w]
      BY <2>1, <2>2, <2>3, <2>4, <2>5, <2>6, <2>7 DEF KeyKept, d
    <2>11. spent'[k][w] + hB + dB <= KeyCap[k][w] + Slack + excused'[k][w]
      <3>1. CASE spent'[k][w] + Has(b, k, w) + Due(b, k) + excused[k][w]
                   <= spent[k][w] + Has(a, k, w) + Due(a, k) + excused'[k][w]
        BY <3>1, <2>0, <2>1, <2>2, <2>3, <2>4, <2>5, <2>6
      <3>2. CASE FreshNow(k, w)' <= KeyCap[k][w] /\ Due(b, k) = 0
        BY <3>2, <2>0, <2>2, <2>4, <2>5, <2>8, <2>9
      <3> QED
        BY <3>1, <3>2, <2>7 DEF KeyKept
    <2> QED
      BY <1>1, <2>9, <2>10, <2>11 DEF Covers, Bounded, KeyBelow, hB, tB, dB, d
  <1>6. ASSUME NEW w \in ProjWin PROVE ProjectBelow(w)'
    <2>0. w \in Window /\ ProjCap[w] \in Nat
      BY <1>0, PlanFacts
    <2>1. Slack \in Nat /\ AllPending(att', w) <= Pending(b, w) + Slack
      BY <1>0, <1>3, <1>4, <2>0, SlackBound
    <2>2. AllPending(att', w) + Pending(att[s], w) = AllPending(att, w) + Pending(b, w)
      BY <1>b, <2>0, Zenon
    <2>3. AllPending(att', w) \in Nat /\ AllPending(att, w) \in Nat
      BY <1>0, <1>4, <2>0, SumTypes
    <2>4. Pending(att[s], w) \in Nat /\ Pending(b, w) \in Nat
      BY <1>0, <2>0, WeightTypes
    <2>5. spent \in Money /\ spent' \in Money /\ excused \in Money /\ excused' \in Money
      BY <1>0 DEF CostTyped
    <2>6. /\ OverKeys(spent', w) \in Nat /\ OverKeys(spent, w) \in Nat
          /\ OverKeys(spent', w) + spent[own][w] = OverKeys(spent, w) + spent'[own][w]
      BY <2>0, <2>5, KeysMove
    <2>7. /\ OverKeys(excused', w) \in Nat /\ OverKeys(excused, w) \in Nat
          /\ OverKeys(excused', w) + excused[own][w] = OverKeys(excused, w) + excused'[own][w]
      BY <2>0, <2>5, KeysMove
    <2>8. /\ spent[own][w] \in Nat /\ spent'[own][w] \in Nat
          /\ excused[own][w] \in Nat /\ excused'[own][w] \in Nat
      BY <2>0, <2>5 DEF Money
    <2>9. OverKeys(spent, w) + AllPending(att, w) <= ProjCap[w] + Slack + OverKeys(excused, w)
      BY DEF CostInv, ProjectBelow
    <2>10. OverKeys(spent', w) + AllPending(att', w) <= ProjCap[w] + Slack + OverKeys(excused', w)
      <3>1. CASE spent'[own][w] + Pending(b, w) + excused[own][w]
                   <= spent[own][w] + Pending(att[s], w) + excused'[own][w]
        BY <3>1, <2>0, <2>1, <2>2, <2>3, <2>4, <2>6, <2>7, <2>8, <2>9
      <3>2. CASE /\ spent' = spent /\ excused' = excused
                 /\ OverKeys(spent, w) + Pending(b, w) <= ProjCap[w]
        BY <3>2, <2>0, <2>1, <2>3, <2>4, <2>6, <2>7
      <3> QED
        BY <3>1, <3>2 DEF ProjectKept
    <2> QED
      BY <1>1, <2>10 DEF ProjectBelow
  <1> QED
    BY <1>1, <1>2, <1>5, <1>6 DEF CostInv

CacheType == [val : Nat, live : BOOLEAN]

(* What the invariant says of one attempt.                                 *)
LEMMA AttFacts ==
  ASSUME CostInv, NEW s \in Slot
  PROVE  /\ CostTyped /\ plan \in Plan /\ att \in [Slot -> AttState]
         /\ att[s] \in AttState /\ Sound(att[s]) /\ StampsPast
         /\ att[s].phase # "idle" => att[s].key \in Key
  BY DEF CostInv, CostTyped, AttemptsSound, Sound

(* A step that changes neither counter nor log.                            *)
LEMMA QuietStep ==
  ASSUME CostInv, NEW s \in Slot, NEW b \in AttState, Sound(b),
         att' = [att EXCEPT ![s] = b], plan' = plan, cache' \in CacheType,
         UNCHANGED <<now, key, spent, leaked, excused>>, NEW own \in Key,
         \A k \in Key, w \in Window :
           /\ Has(b, k, w) <= Has(att[s], k, w)
           /\ Today(att[s], k, w, now[w]) <= Today(b, k, w, now[w])
           /\ Due(b, k) <= Due(att[s], k),
         \A w \in ProjWin : \/ Pending(b, w) <= Pending(att[s], w)
                            \/ OverKeys(spent, w) + Pending(b, w) <= ProjCap[w]
  PROVE  CostInv'
  <1>0. CostTyped /\ plan \in Plan /\ att[s] \in AttState /\ att \in [Slot -> AttState] /\ StampsPast
    BY AttFacts
  <1>1. CostTyped'
    BY <1>0 DEF CostTyped, CacheType
  <1>2. StampsPast'
    BY <1>0 DEF StampsPast
  <1>3. ASSUME NEW k \in Key, NEW w \in KeyWin[k] PROVE KeyKept(att[s], b, k, w)
    <2>0. w \in Window
      BY <1>0, PlanFacts
    <2>1. FreshNow(k, w)' = FreshNow(k, w) /\ spent' = spent /\ leaked' = leaked /\ excused' = excused
      BY DEF FreshNow
    <2>2. FreshNow(k, w) \in Nat /\ spent[k][w] \in Nat /\ leaked[k][w] \in Nat /\ excused[k][w] \in Nat
      BY <1>0, <2>0, FreshType
    <2>3. /\ Today(att[s], k, w, now[w]) \in Nat /\ Has(att[s], k, w) \in Nat /\ Due(att[s], k) \in Nat
          /\ Today(b, k, w, now[w]) \in Nat /\ Has(b, k, w) \in Nat /\ Due(b, k) \in Nat
      BY <1>0, <2>0, WeightTypes
    <2>4. /\ Has(b, k, w) <= Has(att[s], k, w)
          /\ Today(att[s], k, w, now[w]) <= Today(b, k, w, now[w])
          /\ Due(b, k) <= Due(att[s], k)
      BY <2>0
    <2> QED
      BY <2>1, <2>2, <2>3, <2>4 DEF KeyKept
  <1>4. ASSUME NEW w \in ProjWin PROVE ProjectKept(att[s], b, own, w)
    <2>0. w \in Window
      BY <1>0, PlanFacts
    <2>1. spent[own][w] \in Nat /\ excused[own][w] \in Nat
      BY <1>0, <2>0, FreshType
    <2>2. Pending(att[s], w) \in Nat /\ Pending(b, w) \in Nat
      BY <1>0, <2>0, WeightTypes
    <2> QED
      BY <2>1, <2>2 DEF ProjectKept
  <1>5. \A k \in Key \ {own} : spent'[k] = spent[k] /\ excused'[k] = excused[k]
    OBVIOUS
  <1> QED
    BY <1>1, <1>2, <1>3, <1>4, <1>5, SlotStep

(* An attempt that keeps its reservation.                                  *)
LEMMA KeepStep ==
  ASSUME CostInv, NEW s \in Slot, NEW b \in AttState, Sound(b),
         att' = [att EXCEPT ![s] = b], plan' = plan, cache' \in CacheType,
         UNCHANGED <<now, key, spent, leaked, excused>>, att[s].key \in Key,
         b.key = att[s].key, b.est = att[s].est, b.hold = att[s].hold, Owed(b) <= Owed(att[s]),
         \A w \in ProjWin : \/ Pending(b, w) <= Pending(att[s], w)
                            \/ OverKeys(spent, w) + Pending(b, w) <= ProjCap[w]
  PROVE  CostInv'
  <1>1. att[s] \in AttState
    BY AttFacts
  <1>2. \A k \in Key, w \in Window :
           /\ Has(b, k, w) = Has(att[s], k, w)
           /\ Today(att[s], k, w, now[w]) = Today(b, k, w, now[w])
           /\ Due(b, k) <= Due(att[s], k)
    BY DEF Has, Holds, Today, Due
  <1>3. \A k \in Key, w \in Window :
           /\ Has(att[s], k, w) \in Nat /\ Today(b, k, w, now[w]) \in Nat
    BY <1>1, WeightTypes
  <1>4. \A k \in Key, w \in Window :
           /\ Has(b, k, w) <= Has(att[s], k, w)
           /\ Today(att[s], k, w, now[w]) <= Today(b, k, w, now[w])
           /\ Due(b, k) <= Due(att[s], k)
    BY <1>2, <1>3
  <1> QED
    BY <1>4, QuietStep

(* Nothing is reserved by it.                                              *)
Light(a) == a.est = 0 \/ a.hold = NoWindow

(* It weighs nothing.                                                      *)
Weightless(a) == Light(a) /\ Owed(a) = 0 /\ \A w \in Window : Pending(a, w) = 0

(* An attempt that reserved nothing holds nothing.                         *)
LEMMA LightFacts ==
  ASSUME CostTyped, NEW a \in AttState, Light(a), NEW k, NEW w \in Window
  PROVE  Has(a, k, w) = 0 /\ Today(a, k, w, now[w]) = 0
  BY DEF CostTyped, Light, Has, Holds, Today, NoWindow

(* An attempt that had reserved nothing and weighs nothing afterwards.     *)
LEMMA LightStep ==
  ASSUME CostInv, NEW s \in Slot, NEW b \in AttState, Sound(b),
         att' = [att EXCEPT ![s] = b], plan' = plan, cache' \in CacheType,
         UNCHANGED <<now, key, spent, leaked, excused>>, NEW own \in Key,
         Light(att[s]), Weightless(b)
  PROVE  CostInv'
  <1>1. att[s] \in AttState /\ CostTyped /\ plan \in Plan
    BY AttFacts
  <1>2. \A k \in Key, w \in Window :
           /\ Has(b, k, w) <= Has(att[s], k, w)
           /\ Today(att[s], k, w, now[w]) <= Today(b, k, w, now[w])
    BY <1>1, LightFacts DEF Weightless
  <1>3. \A k \in Key : Due(b, k) <= Due(att[s], k)
    BY <1>1, WeightTypes DEF Weightless, Due, Window
  <1>4. \A w \in ProjWin : Pending(b, w) <= Pending(att[s], w)
    <2>1. ProjWin \subseteq Window
      BY <1>1, PlanFacts
    <2>2. \A w \in Window : Pending(att[s], w) \in Nat
      BY <1>1, WeightTypes
    <2> QED
      BY <2>1, <2>2 DEF Weightless
  <1> QED
    BY <1>2, <1>3, <1>4, QuietStep

(* A finished attempt.                                                     *)
LEMMA OverSound ==
  ASSUME CostTyped, NEW a \in AttState
  PROVE  /\ Over \in AttState /\ Sound(Over) /\ Weightless(Over)
         /\ Forgotten(a) \in AttState /\ Sound(Forgotten(a)) /\ Weightless(Forgotten(a))
  <1>1. /\ MaxCost \in Nat /\ ProjCap \in [Window -> Nat] /\ ProjWin \subseteq Window
        /\ now \in [Window -> Nat]
    BY PlanFacts DEF CostTyped
  <1> DEFINE o == Over
             f == Forgotten(a)
  <1>2. /\ o \in AttState /\ o.phase = "idle" /\ o.est = 0 /\ o.cost = 0 /\ o.hold = NoWindow
        /\ o.at = NoWindow
    BY OverType DEF Over
  <1>3. /\ f \in AttState /\ f.phase = "idle" /\ f.est = 0 /\ f.cost = 0 /\ f.hold = NoWindow
        /\ f.at = NoWindow
    BY OverType DEF Over, Forgotten, AttState
  <1>4. \A w \in Window : NoWindow[w] = 0
    BY DEF NoWindow
  <1>5. ASSUME NEW x \in AttState, x.phase = "idle", x.est = 0, x.cost = 0, x.hold = NoWindow,
               x.at = NoWindow
        PROVE  Sound(x) /\ Weightless(x)
    <2>1. Owed(x) = 0 /\ \A w \in Window : Pending(x, w) = 0
      BY <1>5 DEF Owed, Pending, Passed
    <2>2. Sound(x)
      BY <1>1, <1>4, <1>5, <2>1 DEF Sound, Holding, Before
    <2> QED
      BY <1>5, <2>1, <2>2 DEF Weightless, Light
  <1> HIDE DEF o, f
  <1>6. Sound(o) /\ Weightless(o) /\ Sound(f) /\ Weightless(f)
    BY <1>2, <1>3, <1>5
  <1> QED
    BY <1>2, <1>3, <1>6 DEF o, f

(* What goes to the booking: nothing is held any more, and no more is owed *)
(* than was reserved, and nothing for a failure or a refusal.              *)
LEMMA BookSound ==
  ASSUME CostTyped, NEW a \in AttState, a.key \in Key, a.est <= MaxCost, a.cost <= MaxCost
  PROVE  LET b == ToBook(a)
         IN /\ b \in AttState /\ b.key = a.key /\ b.hold = NoWindow /\ b.phase = "record"
            /\ Owed(b) <= a.est /\ Owed(b) \in Nat
            /\ a.out \notin {"ok", "rejected"} => Owed(b) = 0
            /\ \A w \in Window : Pending(b, w) = Owed(b)
            /\ (\A w \in ProjWin : Owed(b) <= ProjCap[w]) => Sound(b)
  <1>1. /\ MaxCost \in Nat /\ ProjCap \in [Window -> Nat] /\ ProjWin \subseteq Window
        /\ now \in [Window -> Nat] /\ NoWindow \in [Window -> Nat]
    BY PlanFacts, OverType DEF CostTyped
  <1> DEFINE b == ToBook(a)
  <1>2. a.est \in Nat /\ a.cost \in Nat
    BY DEF AttState
  <1>3. /\ b \in AttState /\ b.key = a.key /\ b.hold = NoWindow /\ b.phase = "record" /\ b.at = now
        /\ \/ b.est = a.est /\ b.cost = a.cost /\ a.out \in {"ok", "rejected"}
           \/ b.est = 0 /\ b.cost = 0
    <2>1. CASE a.out \in {"ok", "rejected"}
      <3>1. b = [[a EXCEPT !.hold = NoWindow] EXCEPT !.phase = "record", !.at = now]
        BY <2>1 DEF ToBook, Send
      <3> HIDE DEF b
      <3> QED
        BY <1>1, <2>1, <3>1 DEF AttState, Phase
    <2>2. CASE a.out \notin {"ok", "rejected"}
      <3>1. b = [[Over EXCEPT !.key = a.key, !.out = "error"] EXCEPT !.phase = "record", !.at = now]
        BY <2>2 DEF ToBook, Send
      <3>2. b = [phase |-> "record", key |-> a.key, est |-> 0, cost |-> 0, out |-> "error",
                 at |-> now, hold |-> NoWindow, tries |-> 0, dup |-> FALSE, free |-> FALSE]
        BY <3>1 DEF Over
      <3> HIDE DEF b
      <3> QED
        BY <1>1, <3>2 DEF AttState, Phase
    <2> QED
      BY <2>1, <2>2
  <1> HIDE DEF b
  <1>4. Owed(b) <= a.est /\ Owed(b) \in Nat /\ (a.out \notin {"ok", "rejected"} => Owed(b) = 0)
    BY <1>2, <1>3 DEF Owed
  <1>5. \A w \in Window : Pending(b, w) = Owed(b)
    BY <1>3 DEF Pending, Passed
  <1>6. ASSUME \A w \in ProjWin : Owed(b) <= ProjCap[w] PROVE Sound(b)
    <2>1. b.est <= MaxCost /\ b.cost <= MaxCost
      BY <1>1, <1>3
    <2>2. \A w \in Window : b.at[w] <= now[w]
      BY <1>1, <1>3
    <2>3. \A w \in ProjWin : Pending(b, w) <= ProjCap[w]
      BY <1>1, <1>5, <1>6
    <2> QED
      BY <1>3, <2>1, <2>2, <2>3 DEF Sound, Holding, Before
  <1> QED
    BY <1>3, <1>4, <1>5, <1>6 DEF b

(* Picking a key weighs nothing yet.                                       *)
LEMMA PickKeeps ==
  ASSUME CostInv, plan' = plan, NEW s \in Slot, Pick(s)
  PROVE  CostInv'
  <1>0. /\ CostTyped /\ att[s] \in AttState /\ Sound(att[s]) /\ plan \in Plan
        /\ att[s].phase = "idle"
    BY AttFacts DEF Pick
  <1>1. PICK k \in plan.keys, est \in 0 .. MaxCost, nocost \in BOOLEAN :
          LET a == [Over EXCEPT !.key = k, !.est = est, !.free = nocost]
              exempt == Tier[k] = "free" /\ est = 0
              refused == Tier[k] = "paid" /\ ~nocost /\ ZeroCap(k)
          IN /\ \A w \in KeyWin[k] : Fresh(k, w, now) < KeyCap[k][w]
             /\ nocost => est = 0
             /\ \/ exempt /\ SetAtt(s, [a EXCEPT !.phase = "call"])
                \/ refused /\ SetAtt(s, ToBook(a))
                \/ /\ ~exempt /\ ~refused
                   /\ SetAtt(s, IF KeyWin[k] = {} THEN [a EXCEPT !.phase = "project"]
                                ELSE Send(a, "reserve"))
    BY Zenon DEF Pick
  <1>2. /\ MaxCost \in Nat /\ ProjCap \in [Window -> Nat] /\ ProjWin \subseteq Window
        /\ now \in [Window -> Nat \ {0}] /\ NoWindow \in [Window -> Nat] /\ k \in Key /\ est \in Nat
        /\ est <= MaxCost
    BY <1>0, PlanFacts, OverType DEF CostTyped
  <1>3. Light(att[s]) /\ cache' \in CacheType /\ UNCHANGED <<now, key, spent, leaked, excused>>
    BY <1>0 DEF Light, Sound, Pick, hist, CostTyped, CacheType
  <1>4. ASSUME NEW b \in AttState, Sound(b), Weightless(b), SetAtt(s, b) PROVE CostInv'
    BY <1>2, <1>3, <1>4, LightStep DEF SetAtt
  <1> DEFINE a == [Over EXCEPT !.key = k, !.est = est, !.free = nocost]
  <1>5. /\ a \in AttState /\ a.key = k /\ a.est = est /\ a.cost = 0 /\ a.hold = NoWindow
        /\ a.at = NoWindow /\ a.out = "none"
    BY <1>2, OverType DEF Over, AttState
  <1>6. \A w \in Window : NoWindow[w] = 0
    BY DEF NoWindow
  <1>7. ASSUME NEW x \in AttState, x.key = k, x.est = est, x.cost = 0, x.hold = NoWindow,
               \A w \in Window : x.at[w] <= now[w], x.out = "none",
               \/ x.phase = "call" /\ est = 0
               \/ x.phase = "reserve" /\ x.at = now
               \/ x.phase = "project" /\ KeyWin[k] = {}
        PROVE  Sound(x) /\ Weightless(x)
    <2>1. Owed(x) = 0 /\ \A w \in Window : Pending(x, w) = 0
      BY <1>7 DEF Owed, Pending, Passed
    <2>2. Sound(x)
      BY <1>2, <1>7, <2>1 DEF Sound, Holding, Before
    <2> QED
      BY <1>7, <2>1, <2>2 DEF Weightless, Light
  <1> HIDE DEF a
  <1>8. CASE est = 0 /\ SetAtt(s, [a EXCEPT !.phase = "call"])
    <2> DEFINE x == [a EXCEPT !.phase = "call"]
    <2>1. /\ x \in AttState /\ x.key = k /\ x.est = est /\ x.cost = 0 /\ x.hold = NoWindow
          /\ x.at = NoWindow /\ x.out = "none" /\ x.phase = "call"
      BY <1>5 DEF AttState, Phase
    <2> HIDE DEF x
    <2>2. Sound(x) /\ Weightless(x)
      BY <1>2, <1>6, <1>7, <1>8, <2>1
    <2> QED
      BY <1>4, <1>8, <2>1, <2>2 DEF x
  <1>9. CASE SetAtt(s, ToBook(a))
    <2> DEFINE x == ToBook(a)
    <2>1. /\ x \in AttState /\ x.hold = NoWindow /\ Owed(x) = 0
          /\ \A w \in Window : Pending(x, w) = 0
          /\ (\A w \in ProjWin : Owed(x) <= ProjCap[w]) => Sound(x)
      BY <1>0, <1>2, <1>5, BookSound
    <2> HIDE DEF x
    <2>2. Sound(x)
      BY <1>2, <2>1
    <2> QED
      BY <1>4, <1>9, <2>1, <2>2 DEF x, Weightless, Light
  <1>10. CASE KeyWin[k] = {} /\ SetAtt(s, [a EXCEPT !.phase = "project"])
    <2> DEFINE x == [a EXCEPT !.phase = "project"]
    <2>1. /\ x \in AttState /\ x.key = k /\ x.est = est /\ x.cost = 0 /\ x.hold = NoWindow
          /\ x.at = NoWindow /\ x.out = "none" /\ x.phase = "project"
      BY <1>5 DEF AttState, Phase
    <2> HIDE DEF x
    <2>2. Sound(x) /\ Weightless(x)
      BY <1>2, <1>6, <1>7, <1>10, <2>1
    <2> QED
      BY <1>4, <1>10, <2>1, <2>2 DEF x
  <1>11. CASE SetAtt(s, Send(a, "reserve"))
    <2> DEFINE x == Send(a, "reserve")
    <2>1. /\ x \in AttState /\ x.key = k /\ x.est = est /\ x.cost = 0 /\ x.hold = NoWindow
          /\ x.at = now /\ x.out = "none" /\ x.phase = "reserve"
      BY <1>2, <1>5 DEF AttState, Phase, Send
    <2> HIDE DEF x
    <2>2. Sound(x) /\ Weightless(x)
      BY <1>2, <1>7, <2>1
    <2> QED
      BY <1>4, <1>11, <2>1, <2>2 DEF x
  <1> QED
    BY <1>1, <1>8, <1>9, <1>10, <1>11 DEF a

(* The sum over the project's keys is a number.                            *)
LEMMA ProjectType ==
  ASSUME CostTyped, NEW w \in Window
  PROVE  Project(w) = OverKeys(spent, w) /\ Project(w) \in Nat
  <1>1. [k \in Key |-> spent[k][w]] \in [Key -> Nat] /\ IsFiniteSet(Key)
    BY CapAssumption DEF CostTyped, Money
  <1>2. SumFunction([k \in Key |-> spent[k][w]]) \in Nat
    BY <1>1, SumType, Zenon
  <1> QED
    BY <1>2 DEF Project, OverKeys

(* An attempt that holds nothing ends,                                     *)
LEMMA LightEnds ==
  ASSUME CostInv, plan' = plan, NEW s \in Slot, att[s].phase # "idle", Light(att[s]),
         UNCHANGED <<now, key, spent, cache, hist>>,
         SetAtt(s, Over) \/ SetAtt(s, Forgotten(att[s]))
  PROVE  CostInv'
  <1>1. CostTyped /\ att[s] \in AttState /\ att[s].key \in Key
    BY AttFacts
  <1>2. cache' \in CacheType /\ UNCHANGED <<now, key, spent, leaked, excused>>
    BY <1>1 DEF CostTyped, CacheType, hist
  <1> QED
    BY <1>1, <1>2, OverSound, LightStep DEF SetAtt

(* or goes to its booking with nothing to book.                            *)
LEMMA LightBooks ==
  ASSUME CostInv, plan' = plan, NEW s \in Slot, att[s].phase # "idle", Light(att[s]),
         UNCHANGED <<now, key, spent, cache, hist>>,
         NEW a \in AttState, a.key = att[s].key, a.est <= MaxCost, a.cost <= MaxCost,
         a.est = 0 \/ a.out = "none", SetAtt(s, ToBook(a))
  PROVE  CostInv'
  <1>1. CostTyped /\ att[s] \in AttState /\ att[s].key \in Key /\ plan \in Plan
    BY AttFacts
  <1>2. cache' \in CacheType /\ UNCHANGED <<now, key, spent, leaked, excused>>
    BY <1>1 DEF CostTyped, CacheType, hist
  <1> DEFINE b == ToBook(a)
  <1>3. /\ b \in AttState /\ b.hold = NoWindow /\ Owed(b) <= a.est /\ Owed(b) \in Nat
        /\ a.out \notin {"ok", "rejected"} => Owed(b) = 0
        /\ \A w \in Window : Pending(b, w) = Owed(b)
        /\ (\A w \in ProjWin : Owed(b) <= ProjCap[w]) => Sound(b)
    BY <1>1, BookSound
  <1> HIDE DEF b
  <1>4. Owed(b) = 0
    BY <1>3
  <1>5. ProjCap \in [Window -> Nat] /\ ProjWin \subseteq Window
    BY <1>1, PlanFacts
  <1>6. Sound(b) /\ Weightless(b)
    BY <1>3, <1>4, <1>5 DEF Weightless, Light
  <1> QED
    BY <1>1, <1>2, <1>3, <1>6, LightStep DEF SetAtt, b

(* A reservation refused or dead before its debit.                         *)
LEMMA RefusedKeeps ==
  ASSUME CostInv, plan' = plan, NEW s \in Slot,
         \/ ReserveRefused(s)
         \/ /\ att[s].phase = "reserve" /\ SetAtt(s, Over)
            /\ UNCHANGED <<now, key, spent, cache, hist>>
  PROVE  CostInv'
  <1>1. /\ CostTyped /\ att[s] \in AttState /\ Sound(att[s]) /\ att[s].phase = "reserve"
        /\ UNCHANGED <<now, key, spent, cache, hist>>
        /\ SetAtt(s, Over) \/ SetAtt(s, ToBook(att[s]))
    BY AttFacts DEF ReserveRefused
  <1>2. Light(att[s]) /\ att[s].out = "none" /\ att[s].est <= MaxCost /\ att[s].cost <= MaxCost
    BY <1>1 DEF Sound, Light, Before
  <1> QED
    BY <1>1, <1>2, LightEnds, LightBooks

(* The project's caps: what passes the check of a window fits below it.    *)
LEMMA ProjectKeeps ==
  ASSUME CostInv, plan' = plan, NEW s \in Slot, CheckProject(s)
  PROVE  CostInv'
  <1> DEFINE a == att[s]
             v == IF a.phase = "project" THEN "daily" ELSE "monthly"
             over == v \in ProjWin /\ ProjectSpent(v, a.est)
             p == IF over THEN "undo" ELSE IF v = "daily" THEN "projectM" ELSE "global"
             b == [a EXCEPT !.phase = p]
  <1>1. /\ CostTyped /\ a \in AttState /\ Sound(a) /\ plan \in Plan /\ att \in [Slot -> AttState]
        /\ a.phase \in {"project", "projectM"}
        /\ UNCHANGED <<now, key, spent, cache, hist>> /\ a.key \in Key
    BY AttFacts DEF CheckProject
  <1>2. att' = [att EXCEPT ![s] = b]
    BY DEF CheckProject, SetAtt
  <1>3. v \in Window /\ ("daily" \in Window /\ "monthly" \in Window) /\ ProjWin \subseteq Window
        /\ ProjCap \in [Window -> Nat] /\ \A w \in Window : w \in {"daily", "monthly"}
    BY <1>1, PlanFacts DEF Window
  <1>4. a.est \in Nat /\ Project(v) = OverKeys(spent, v) /\ Project(v) \in Nat
    BY <1>1, <1>3, ProjectType DEF AttState
  <1>5. ~over => v \notin ProjWin \/ OverKeys(spent, v) + a.est <= ProjCap[v]
    BY <1>3, <1>4 DEF ProjectSpent
  <1> HIDE DEF over
  <1>6. p \in {"undo", "projectM", "global"} /\ p \in Phase
    BY DEF Phase
  <1>7. /\ b \in AttState /\ b.phase = p /\ b.key = a.key /\ b.est = a.est /\ b.hold = a.hold
        /\ b.cost = a.cost /\ b.out = a.out /\ b.at = a.at
    <2> HIDE DEF p
    <2> QED
      BY <1>1, <1>6 DEF AttState
  <1>8. Owed(b) = 0 /\ Owed(a) = 0
    BY <1>1, <1>6, <1>7 DEF Owed
  <1>9. ASSUME NEW w \in ProjWin
        PROVE  /\ \/ Pending(b, w) <= Pending(a, w)
                  \/ OverKeys(spent, w) + Pending(b, w) <= ProjCap[w]
               /\ Pending(b, w) <= ProjCap[w]
    <2>1. Pending(a, w) \in Nat /\ Pending(b, w) \in Nat /\ w \in Window /\ ProjCap[w] \in Nat
      BY <1>1, <1>3, <1>7, WeightTypes
    <2>2. Pending(a, w) <= ProjCap[w]
      BY <1>1 DEF Sound
    <2>3. CASE over
      <3>1. Pending(b, w) = 0
        BY <2>3, <1>7, <1>8 DEF Pending, Passed
      <3> QED BY <3>1, <2>1
    <2>4. CASE ~over /\ w = v
      <3>1. Pending(b, w) = a.est
        BY <2>4, <1>1, <1>7 DEF Pending, Passed
      <3> QED BY <3>1, <2>1, <2>4, <1>4, <1>5
    <2>5. CASE ~over /\ w # v
      <3>1. Pending(b, w) = Pending(a, w)
        BY <2>1, <2>5, <1>1, <1>3, <1>7, <1>8 DEF Pending, Passed
      <3> QED BY <3>1, <2>1, <2>2
    <2> QED BY <2>3, <2>4, <2>5
  <1>10. Sound(b)
    <2>1. a.phase \in Before /\ a.phase \in Holding /\ b.phase \in Before /\ b.phase \in Holding
          /\ b.phase \notin {"idle", "reserve", "record"}
      BY <1>1, <1>6, <1>7 DEF Before, Holding
    <2> HIDE DEF b
    <2> QED
      BY <1>1, <1>7, <1>9, <2>1 DEF Sound
  <1>11. cache' \in CacheType /\ UNCHANGED <<now, key, spent, leaked, excused>> /\ Owed(b) <= Owed(a)
    BY <1>1, <1>8 DEF CostTyped, CacheType, hist
  <1> HIDE DEF a, b
  <1> QED
    BY <1>1, <1>2, <1>7, <1>9, <1>10, <1>11, KeepStep DEF a

(* An attempt under way takes what it holds into another such phase.       *)
LEMMA CarryStep ==
  ASSUME CostInv, plan' = plan, NEW s \in Slot, NEW b \in AttState,
         att' = [att EXCEPT ![s] = b], cache' \in CacheType,
         UNCHANGED <<now, key, spent, leaked, excused>>,
         att[s].phase \in {"global", "call", "release"}, b.phase \in {"undo", "call", "release"},
         b.key = att[s].key, b.est = att[s].est, b.hold = att[s].hold, b.at = att[s].at,
         b.cost <= MaxCost, b.phase # "release" => b.out = "none"
  PROVE  CostInv'
  <1>1. /\ CostTyped /\ att[s] \in AttState /\ Sound(att[s]) /\ plan \in Plan /\ att[s].key \in Key
    BY AttFacts
  <1>2. Owed(b) = 0 /\ Owed(att[s]) = 0
    BY DEF Owed
  <1>3. ASSUME NEW w \in ProjWin
        PROVE  Pending(b, w) <= Pending(att[s], w) /\ Pending(b, w) <= ProjCap[w]
    <2>1. /\ Pending(att[s], w) \in Nat /\ Pending(b, w) \in Nat /\ w \in Window
          /\ ProjCap[w] \in Nat
      BY <1>1, PlanFacts, WeightTypes
    <2>2. Pending(att[s], w) <= ProjCap[w]
      BY <1>1 DEF Sound
    <2>3. Pending(b, w) = 0 \/ Pending(b, w) = Pending(att[s], w)
      BY <1>2 DEF Pending, Passed
    <2> QED BY <2>1, <2>2, <2>3
  <1>4. Sound(b)
    <2>1. att[s].phase \in Holding /\ b.phase \in Holding
          /\ b.phase \notin {"idle", "reserve", "record"} /\ (b.phase \in Before => b.out = "none")
      BY DEF Before, Holding
    <2> QED
      BY <1>1, <1>3, <2>1 DEF Sound
  <1>5. Owed(b) <= Owed(att[s])
    BY <1>2
  <1>6. \A w \in ProjWin : \/ Pending(b, w) <= Pending(att[s], w)
                            \/ OverKeys(spent, w) + Pending(b, w) <= ProjCap[w]
    BY <1>3
  <1> QED
    BY <1>1, <1>4, <1>5, <1>6, KeepStep

(* The global cap: its check changes no weight.                            *)
LEMMA GlobalKeeps ==
  ASSUME CostInv, plan' = plan, NEW s \in Slot, CheckGlobal(s)
  PROVE  CostInv'
  <1> DEFINE a == att[s]
             used == IF cache.live THEN cache.val ELSE Project("daily")
             p == IF GlobalCap > 0 /\ used + a.est > GlobalCap THEN "undo" ELSE "call"
             b == [a EXCEPT !.phase = p]
  <1>1. /\ CostTyped /\ a \in AttState /\ Sound(a) /\ a.phase = "global"
        /\ UNCHANGED <<now, key, spent, leaked, excused>>
        /\ cache' = IF GlobalCap = 0 THEN cache ELSE [val |-> used, live |-> TRUE]
        /\ att' = [att EXCEPT ![s] = b]
    BY AttFacts DEF CheckGlobal, SetAtt, hist
  <1>2. Project("daily") \in Nat
    BY <1>1, ProjectType DEF Window
  <1>3. used \in Nat /\ cache' \in CacheType
    BY <1>1, <1>2 DEF CostTyped, CacheType
  <1>4. p \in {"undo", "call"} /\ p \in Phase
    BY DEF Phase
  <1> HIDE DEF p
  <1>5. /\ b \in AttState /\ b.phase = p /\ b.key = a.key /\ b.est = a.est /\ b.hold = a.hold
        /\ b.at = a.at /\ b.cost = a.cost /\ b.out = a.out
    BY <1>1, <1>4 DEF AttState
  <1>6. a.out = "none" /\ a.cost <= MaxCost
    BY <1>1 DEF Sound, Before
  <1> HIDE DEF b
  <1> QED
    BY <1>1, <1>3, <1>4, <1>5, <1>6, CarryStep

(* The call and its end.                                                   *)
LEMMA CallKeeps ==
  ASSUME CostInv, plan' = plan, NEW s \in Slot, Call(s)
  PROVE  CostInv'
  <1>1. /\ CostTyped /\ att[s] \in AttState /\ Sound(att[s]) /\ att[s].phase = "call"
        /\ UNCHANGED <<now, key, spent, cache, hist>> /\ plan \in Plan
    BY AttFacts, Zenon DEF Call
  <1>2. /\ cache' \in CacheType /\ UNCHANGED <<now, key, spent, leaked, excused>>
        /\ att[s].est \in Nat /\ att[s].est <= MaxCost /\ att[s].cost <= MaxCost /\ MaxCost \in Nat
    BY <1>1, PlanFacts DEF CostTyped, CacheType, hist, Sound, AttState
  <1>3. ASSUME NEW a \in AttState, a.key = att[s].key, a.est = att[s].est, a.hold = att[s].hold,
               a.at = att[s].at, a.cost <= MaxCost, SetAtt(s, AfterCall(a))
        PROVE  CostInv'
    <2>1. CASE a.est > 0
      <3> DEFINE b == [a EXCEPT !.phase = "release"]
      <3>1. att' = [att EXCEPT ![s] = b]
        BY <1>3, <2>1 DEF AfterCall, SetAtt
      <3>2. /\ b \in AttState /\ b.phase = "release" /\ b.key = a.key /\ b.est = a.est
            /\ b.hold = a.hold /\ b.at = a.at /\ b.cost = a.cost
        BY DEF AttState, Phase
      <3> HIDE DEF b
      <3> QED
        BY <1>1, <1>2, <1>3, <3>1, <3>2, CarryStep
    <2>2. CASE ~(a.est > 0)
      <3>1. a.est = 0 /\ Light(att[s])
        BY <1>2, <1>3, <2>2 DEF Light
      <3>2. SetAtt(s, Over) \/ SetAtt(s, ToBook(a))
        BY <1>3, <2>2 DEF AfterCall
      <3> QED
        BY <1>1, <1>2, <1>3, <3>1, <3>2, LightEnds, LightBooks
    <2> QED
      BY <2>1, <2>2
  <1>4. CASE \E c \in 0 .. MaxCost : \E out \in {"ok", "rejected"} :
               /\ Billed(att[s]) \/ c = 0
               /\ SetAtt(s, AfterCall([att[s] EXCEPT !.cost = c, !.out = out, !.free = FALSE]))
    <2>1. PICK c \in 0 .. MaxCost, out \in {"ok", "rejected"} :
             SetAtt(s, AfterCall([att[s] EXCEPT !.cost = c, !.out = out, !.free = FALSE]))
      BY <1>4, Zenon
    <2> DEFINE a == [att[s] EXCEPT !.cost = c, !.out = out, !.free = FALSE]
    <2>2. c \in Nat /\ c <= MaxCost
      BY <1>2
    <2>3. /\ a \in AttState /\ a.key = att[s].key /\ a.est = att[s].est /\ a.hold = att[s].hold
          /\ a.at = att[s].at /\ a.cost = c
      BY <1>1, <2>2 DEF AttState
    <2> QED
      BY <1>3, <2>1, <2>2, <2>3
  <1>5. CASE \E out \in {"error", "cancel"} :
               SetAtt(s, AfterCall([att[s] EXCEPT !.out = out, !.free = FALSE]))
    <2>1. PICK out \in {"error", "cancel"} :
             SetAtt(s, AfterCall([att[s] EXCEPT !.out = out, !.free = FALSE]))
      BY <1>5
    <2> DEFINE a == [att[s] EXCEPT !.out = out, !.free = FALSE]
    <2>2. /\ a \in AttState /\ a.key = att[s].key /\ a.est = att[s].est /\ a.hold = att[s].hold
          /\ a.at = att[s].at /\ a.cost = att[s].cost
      BY <1>1 DEF AttState
    <2> QED
      BY <1>2, <1>3, <2>1, <2>2
  <1> QED
    BY <1>4, <1>5, Zenon DEF Call

(* A cancel during the refund.                                             *)
LEMMA CancelKeeps ==
  ASSUME CostInv, plan' = plan, NEW s \in Slot, ReleaseCancelled(s)
  PROVE  CostInv'
  <1> DEFINE b == [att[s] EXCEPT !.out = "cancel"]
  <1>1. /\ CostTyped /\ att[s] \in AttState /\ Sound(att[s]) /\ att[s].phase = "release"
        /\ UNCHANGED <<now, key, spent, leaked, excused>> /\ cache' = cache
        /\ att' = [att EXCEPT ![s] = b]
    BY AttFacts DEF ReleaseCancelled, SetAtt, hist
  <1>2. cache' \in CacheType /\ att[s].cost <= MaxCost
    BY <1>1 DEF CostTyped, CacheType, Sound
  <1>3. /\ b \in AttState /\ b.phase = "release" /\ b.key = att[s].key /\ b.est = att[s].est
        /\ b.hold = att[s].hold /\ b.at = att[s].at /\ b.cost = att[s].cost
    BY <1>1 DEF AttState
  <1> HIDE DEF b
  <1> QED
    BY <1>1, <1>2, <1>3, CarryStep

(* A booking on its way, repeated with no more to owe.                     *)
LEMMA RetryWeights ==
  ASSUME CostInv, NEW s \in Slot, att[s].phase = "record", NEW b \in AttState,
         b.key = att[s].key, b.est = att[s].est, b.hold = att[s].hold, b.cost = att[s].cost,
         b.phase = "record", b.at = now, Owed(b) = 0 \/ Owed(b) = Owed(att[s])
  PROVE  Sound(b) /\ b.hold = NoWindow /\ \A w \in Window : Pending(b, w) = Owed(b)
  <1>1. /\ CostTyped /\ att[s] \in AttState /\ Sound(att[s]) /\ plan \in Plan
    BY AttFacts
  <1>2. /\ now \in [Window -> Nat] /\ ProjWin \subseteq Window /\ ProjCap \in [Window -> Nat]
    BY <1>1, PlanFacts DEF CostTyped
  <1>3. \A w \in Window : Pending(b, w) = Owed(b) /\ Pending(att[s], w) = Owed(att[s])
    BY DEF Pending, Passed
  <1>4. \A w \in ProjWin : Pending(b, w) <= ProjCap[w]
    BY <1>1, <1>2, <1>3 DEF Sound
  <1> QED
    BY <1>1, <1>2, <1>3, <1>4 DEF Sound, Holding, Before

(* A repeated booking owes the same, one that may have been committed      *)
(* owes nothing.                                                           *)
LEMMA RetrySound ==
  ASSUME CostInv, NEW s \in Slot, att[s].phase = "record", NEW done \in BOOLEAN
  PROVE  LET b == Retried(att[s], done)
         IN /\ b \in AttState /\ Sound(b)
            /\ \/ b = Over
               \/ /\ b.key = att[s].key /\ b.est = att[s].est /\ b.hold = att[s].hold
                  /\ b.hold = NoWindow /\ b.phase = "record"
                  /\ Owed(b) = (IF done THEN 0 ELSE Owed(att[s]))
                  /\ \A w \in Window : Pending(b, w) = Owed(b)
  <1> DEFINE x == att[s]
             b == Retried(x, done)
             y == [x EXCEPT !.tries = x.tries + 1, !.dup = (x.dup \/ done)]
  <1>1. /\ CostTyped /\ x \in AttState /\ Sound(x) /\ x.key \in Key /\ plan \in Plan
    BY AttFacts
  <1>2. /\ now \in [Window -> Nat] /\ ProjWin \subseteq Window /\ ProjCap \in [Window -> Nat]
    BY <1>1, PlanFacts DEF CostTyped
  <1>3. CASE x.tries + 1 < Attempts
    <2>1. x.tries + 1 \in Nat /\ (x.dup \/ done) \in BOOLEAN /\ x.dup \in BOOLEAN
      BY <1>1 DEF AttState
    <2>2. /\ y \in AttState /\ y.key = x.key /\ y.est = x.est /\ y.hold = x.hold /\ y.cost = x.cost
          /\ y.dup = (x.dup \/ done)
      BY <1>1, <2>1 DEF AttState
    <2>3. b = [y EXCEPT !.phase = "record", !.at = now]
      BY <1>3 DEF Retried, Send
    <2> HIDE DEF y, b
    <2>4. /\ b \in AttState /\ b.key = x.key /\ b.est = x.est /\ b.hold = x.hold /\ b.cost = x.cost
          /\ b.phase = "record" /\ b.at = now
      BY <1>2, <2>2, <2>3 DEF AttState, Phase
    <2>4a. b.dup = y.dup
      BY <2>2, <2>3 DEF AttState
    <2>5. Owed(b) = (IF done THEN 0 ELSE Owed(x))
      <3>1. CASE done
        <4>1. b.dup
          BY <2>2, <2>4a, <3>1, Zenon
        <4> QED BY <3>1, <4>1 DEF Owed
      <3>2. CASE ~done
        <4>1. b.dup <=> x.dup
          BY <2>2, <2>4a, <3>2, Zenon
        <4> QED BY <2>4, <3>2, <4>1 DEF Owed
      <3> QED BY <3>1, <3>2
    <2>6. Sound(b) /\ b.hold = NoWindow /\ \A w \in Window : Pending(b, w) = Owed(b)
      <3>1. Owed(b) = 0 \/ Owed(b) = Owed(att[s])
        BY <2>5
      <3> QED
        BY <2>4, <3>1, RetryWeights
    <2> QED
      BY <2>4, <2>5, <2>6 DEF b
  <1>4. CASE ~(x.tries + 1 < Attempts)
    BY <1>1, <1>4, OverSound DEF Retried
  <1> QED
    BY <1>3, <1>4

(* A booking that failed, to be repeated or given up.                      *)
LEMMA BookFailsKeeps ==
  ASSUME CostInv, plan' = plan, NEW s \in Slot, BookFails(s) \/ BookCancelled(s)
  PROVE  CostInv'
  <1>1. /\ CostTyped /\ att[s] \in AttState /\ Sound(att[s]) /\ att[s].phase = "record"
        /\ UNCHANGED <<now, key, spent, cache, hist>> /\ att[s].key \in Key /\ plan \in Plan
    BY AttFacts DEF BookFails, BookCancelled
  <1>2. /\ cache' \in CacheType /\ UNCHANGED <<now, key, spent, leaked, excused>>
        /\ Light(att[s])
    BY <1>1 DEF CostTyped, CacheType, hist, Sound, Light
  <1>3. CASE SetAtt(s, Over)
    BY <1>1, <1>2, <1>3, LightEnds
  <1>4. CASE BookFails(s)
    <2> DEFINE b == Retried(att[s], FALSE)
    <2>1. att' = [att EXCEPT ![s] = b]
      BY <1>4 DEF BookFails, SetAtt
    <2>2. /\ b \in AttState /\ Sound(b)
          /\ \/ b = Over
             \/ /\ b.key = att[s].key /\ b.est = att[s].est /\ b.hold = att[s].hold
                /\ Owed(b) = Owed(att[s])
                /\ \A w \in Window : Pending(b, w) = Owed(b)
      BY <1>1, RetrySound
    <2> HIDE DEF b
    <2>3. CASE b = Over
      BY <2>1, <2>3, <1>3 DEF SetAtt
    <2>4. CASE b # Over
      <3>1. Owed(att[s]) \in Nat /\ \A w \in Window : Pending(att[s], w) \in Nat
        BY <1>1, WeightTypes DEF Window
      <3>2. \A w \in Window : Pending(att[s], w) = Owed(att[s])
        BY <1>1 DEF Pending, Passed
      <3>3. \A w \in ProjWin : Pending(b, w) <= Pending(att[s], w)
        BY <1>1, <2>2, <2>4, <3>1, <3>2, PlanFacts
      <3>4. Owed(b) <= Owed(att[s])
        BY <2>2, <2>4, <3>1
      <3> QED
        BY <1>1, <1>2, <2>1, <2>2, <2>4, <3>3, <3>4, KeepStep
    <2> QED BY <2>3, <2>4
  <1> QED
    BY <1>3, <1>4 DEF BookCancelled

(* A refund takes its amount off the counter of the key, or all of it.     *)
LEMMA CreditFacts ==
  ASSUME CostTyped, NEW k \in Key, NEW c \in Nat, Credit(k, c), now' = now
  PROVE  /\ key' \in Counters
         /\ \A p \in Key : key'[p].stamp = key[p].stamp
         /\ \A p \in Key \ {k} : \A w \in Window : FreshNow(p, w)' = FreshNow(p, w)
         /\ \A w \in KeyWin[k] :
              FreshNow(k, w)' = (IF FreshNow(k, w) >= c THEN FreshNow(k, w) - c ELSE 0)
  <1> DEFINE u == [w \in Window |-> IF w \in KeyWin[k] THEN Refunded(key[k].used[w], c)
                                    ELSE key[k].used[w]]
  <1>1. key \in Counters /\ KeyWin[k] \subseteq Window
    BY PlanFacts DEF CostTyped
  <1>2. key' = [key EXCEPT ![k].used = u]
    BY DEF Credit
  <1>3. key[k].used \in [Window -> Nat] /\ key[k].stamp \in [Window -> Nat]
    BY <1>1 DEF Counters
  <1>4. u \in [Window -> Nat]
    BY <1>3 DEF Refunded
  <1>5. \A w \in KeyWin[k] : u[w] = Refunded(key[k].used[w], c)
    BY <1>1
  <1> HIDE DEF u
  <1>6. key' \in Counters
    BY <1>1, <1>2, <1>4 DEF Counters
  <1>7. key'[k].used = u /\ key'[k].stamp = key[k].stamp /\ \A p \in Key \ {k} : key'[p] = key[p]
    BY <1>1, <1>2 DEF Counters
  <1>8. \A p \in Key \ {k} : \A w \in Window : FreshNow(p, w)' = FreshNow(p, w)
    BY <1>7 DEF FreshNow
  <1>9. ASSUME NEW w \in KeyWin[k]
        PROVE  FreshNow(k, w)' = (IF FreshNow(k, w) >= c THEN FreshNow(k, w) - c ELSE 0)
    <2>1. w \in Window /\ key[k].used[w] \in Nat /\ key'[k].used[w] = Refunded(key[k].used[w], c)
      BY <1>1, <1>3, <1>5, <1>7
    <2>2. CASE key[k].stamp[w] = now[w]
      BY <1>7, <2>1, <2>2 DEF FreshNow, Refunded
    <2>3. CASE key[k].stamp[w] # now[w]
      BY <1>7, <2>1, <2>3 DEF FreshNow
    <2> QED BY <2>2, <2>3
  <1> QED
    BY <1>6, <1>7, <1>8, <1>9

(* A reservation given up is refunded or leaks; what is booked of it       *)
(* afterwards is owed.                                                     *)
LEMMA RefundStep ==
  ASSUME CostInv, plan' = plan, NEW s \in Slot,
         att[s].phase \in {"project", "projectM", "global", "undo", "release"},
         \/ Credit(att[s].key, att[s].est) /\ UNCHANGED leaked
         \/ Leak(att[s].key, att[s].est, att[s].hold) /\ UNCHANGED key,
         UNCHANGED <<now, spent, cache, excused>>,
         NEW b \in AttState, Sound(b), att' = [att EXCEPT ![s] = b], b.hold = NoWindow,
         b.key = att[s].key \/ Owed(b) = 0, Owed(b) <= att[s].est,
         \A w \in ProjWin : Pending(b, w) <= Pending(att[s], w)
  PROVE  CostInv'
  <1>a. att[s] \in AttState /\ att[s].key \in Key /\ att[s].est \in Nat
    BY AttFacts DEF AttState
  <1>b. PICK a \in AttState, own \in Key, e \in Nat :
          a = att[s] /\ own = att[s].key /\ e = att[s].est
    BY <1>a
  <1>c. own = a.key /\ e = a.est
    BY <1>b
  <1>0. /\ CostTyped /\ plan \in Plan /\ a \in AttState /\ att \in [Slot -> AttState] /\ StampsPast
        /\ Sound(a) /\ own = a.key /\ e = a.est /\ now' = now
    BY <1>b, <1>c, AttFacts
  <1>1. /\ now \in [Window -> Nat \ {0}] /\ leaked \in Money /\ KeyWin \in [Key -> SUBSET Window]
        /\ ProjWin \subseteq Window /\ key \in Counters
    BY <1>0, PlanFacts DEF CostTyped
  <1>2. \A w \in KeyWin[own] : Has(a, own, w) = e
    <2>1. a.phase \in Holding
      BY <1>b DEF Holding
    <2>2. \A w \in KeyWin[own] : e = 0 \/ a.hold[w] # 0
      BY <1>0, <2>1 DEF Sound
    <2> QED
      BY <1>0, <2>2 DEF Has, Holds
  <1>3. \A k, d : \A w \in Window : d # 0 => Has(b, k, w) = 0 /\ Today(b, k, w, d) = 0
    BY DEF Has, Holds, Today, NoWindow
  <1>4. /\ \A k \in Key \ {own} : Due(b, k) = 0 /\ \A w \in Window : Has(a, k, w) = 0
        /\ \A k \in Key \ {own} : \A d : \A w \in Window : Today(a, k, w, d) = 0
        /\ \A k \in Key : Due(a, k) = 0
        /\ Due(b, own) <= e /\ Due(b, own) \in Nat
    <2>1. Owed(b) \in Nat /\ Owed(a) = 0
      BY <1>0, <1>b, WeightTypes DEF Owed, Window
    <2>2. \A k \in Key \ {own} : Due(b, k) = 0 /\ \A w \in Window : Has(a, k, w) = 0
      BY <1>0, <1>b, <2>1 DEF Due, Has
    <2>3. \A k \in Key \ {own} : \A d : \A w \in Window : Today(a, k, w, d) = 0
      BY <1>0 DEF Today
    <2>4. \A k \in Key : Due(a, k) = 0
      BY <2>1 DEF Due
    <2>5. Due(b, own) <= e /\ Due(b, own) \in Nat
      BY <1>0, <1>b, <2>1 DEF Due
    <2> QED BY <2>2, <2>3, <2>4, <2>5
  <1>5. /\ key' \in Counters /\ leaked' \in Money /\ \A p \in Key : key'[p].stamp = key[p].stamp
        /\ \A p \in Key \ {own} : /\ \A w \in Window : FreshNow(p, w)' = FreshNow(p, w)
                                  /\ leaked'[p] = leaked[p]
        /\ \A w \in KeyWin[own] :
             \/ /\ FreshNow(own, w)' = (IF FreshNow(own, w) >= e THEN FreshNow(own, w) - e ELSE 0)
                /\ leaked'[own][w] = leaked[own][w]
             \/ /\ FreshNow(own, w)' = FreshNow(own, w)
                /\ leaked'[own][w] = leaked[own][w] + Today(a, own, w, now[w])
    <2>1. CASE Credit(own, e) /\ UNCHANGED leaked
      <3>1. /\ key' \in Counters /\ \A p \in Key : key'[p].stamp = key[p].stamp
            /\ \A p \in Key \ {own} : \A w \in Window : FreshNow(p, w)' = FreshNow(p, w)
            /\ \A w \in KeyWin[own] :
                 FreshNow(own, w)' = (IF FreshNow(own, w) >= e THEN FreshNow(own, w) - e ELSE 0)
        BY <1>0, <2>1, CreditFacts
      <3> QED
        BY <1>1, <2>1, <3>1
    <2>2. CASE Leak(own, e, a.hold) /\ UNCHANGED key
      <3> DEFINE m == [w \in Window |-> IF a.hold[w] = now[w] THEN leaked[own][w] + e ELSE leaked[own][w]]
      <3>1. leaked' = [leaked EXCEPT ![own] = m]
        BY <2>2 DEF Leak
      <3>2. m \in [Window -> Nat] /\ leaked[own] \in [Window -> Nat]
        BY <1>0, <1>1 DEF Money
      <3>3. \A w \in Window : m[w] = leaked[own][w] + Today(a, own, w, now[w])
        BY <1>0, <3>2 DEF Today
      <3> HIDE DEF m
      <3>4. leaked' \in Money /\ leaked'[own] = m /\ \A p \in Key \ {own} : leaked'[p] = leaked[p]
        BY <1>0, <1>1, <3>1, <3>2 DEF Money
      <3>5. \A p \in Key, w \in Window : FreshNow(p, w)' = FreshNow(p, w)
        BY <2>2 DEF FreshNow
      <3>6. KeyWin[own] \subseteq Window
        BY <1>0, <1>1
      <3> QED
        BY <1>0, <1>1, <2>2, <3>3, <3>4, <3>5, <3>6
    <2> QED BY <1>b, <1>c, <2>1, <2>2
  <1>6. CostTyped'
    BY <1>0, <1>5 DEF CostTyped
  <1>7. StampsPast'
    BY <1>0, <1>5 DEF StampsPast
  <1>8. ASSUME NEW k \in Key, NEW w \in KeyWin[k] PROVE KeyKept(a, b, k, w)
    <2>0. w \in Window /\ now[w] # 0
      BY <1>1
    <2>1. /\ FreshNow(k, w) \in Nat /\ spent[k][w] \in Nat /\ leaked[k][w] \in Nat
          /\ excused[k][w] \in Nat
      BY <1>0, <2>0, FreshType
    <2>2. spent' = spent /\ excused' = excused
      OBVIOUS
    <2>3. Has(b, k, w) = 0 /\ Today(b, k, w, now[w]) = 0 /\ Due(a, k) = 0
      BY <1>3, <1>4, <2>0
    <2>4. Today(a, k, w, now[w]) \in Nat /\ Today(a, k, w, now[w]) <= e
      BY <1>0, <2>0 DEF Today
    <2>5. CASE k = own
      <3>1. Has(a, k, w) = e /\ Due(b, k) <= e /\ Due(b, k) \in Nat
        BY <1>2, <1>4, <2>5
      <3>2. CASE /\ FreshNow(k, w)' = (IF FreshNow(k, w) >= e THEN FreshNow(k, w) - e ELSE 0)
                 /\ leaked'[k][w] = leaked[k][w]
        <4> QED
          BY <1>0, <2>1, <2>2, <2>3, <2>4, <3>1, <3>2 DEF KeyKept
      <3>3. CASE /\ FreshNow(k, w)' = FreshNow(k, w)
                 /\ leaked'[k][w] = leaked[k][w] + Today(a, k, w, now[w])
        <4> QED
          BY <1>0, <2>1, <2>2, <2>3, <2>4, <3>1, <3>3 DEF KeyKept
      <3> QED
        BY <1>5, <2>5, <3>2, <3>3
    <2>6. CASE k # own
      <3>1. Has(a, k, w) = 0 /\ Due(b, k) = 0 /\ Today(a, k, w, now[w]) = 0
        BY <1>4, <2>0, <2>6
      <3>2. FreshNow(k, w)' = FreshNow(k, w) /\ leaked'[k] = leaked[k]
        BY <1>5, <2>0, <2>6
      <3> QED
        BY <2>1, <2>2, <2>3, <3>1, <3>2 DEF KeyKept
    <2> QED BY <2>5, <2>6
  <1>9. ASSUME NEW w \in ProjWin PROVE ProjectKept(a, b, own, w)
    <2>1. w \in Window
      BY <1>1
    <2>2. spent[own][w] \in Nat /\ excused[own][w] \in Nat
      BY <1>0, <2>1, FreshType
    <2>3. Pending(a, w) \in Nat /\ Pending(b, w) \in Nat /\ Pending(b, w) <= Pending(a, w)
      BY <1>0, <1>b, <2>1, WeightTypes
    <2> QED
      BY <2>2, <2>3 DEF ProjectKept
  <1>10. \A k \in Key \ {own} : spent'[k] = spent[k] /\ excused'[k] = excused[k]
    OBVIOUS
  <1> QED
    BY <1>0, <1>b, <1>6, <1>7, <1>8, <1>9, <1>10, SlotStep

(* Given up for good,                                                      *)
LEMMA RefundEnds ==
  ASSUME CostInv, plan' = plan, NEW s \in Slot,
         att[s].phase \in {"project", "projectM", "global", "undo", "release"},
         \/ Credit(att[s].key, att[s].est) /\ UNCHANGED leaked
         \/ Leak(att[s].key, att[s].est, att[s].hold) /\ UNCHANGED key,
         UNCHANGED <<now, spent, cache, excused>>,
         SetAtt(s, Over) \/ SetAtt(s, Forgotten(att[s]))
  PROVE  CostInv'
  <1>1. CostTyped /\ att[s] \in AttState /\ plan \in Plan
    BY AttFacts
  <1>2. PICK b \in AttState : Sound(b) /\ Weightless(b) /\ att' = [att EXCEPT ![s] = b] /\ b.hold = NoWindow
    <2>1. Over.hold = NoWindow /\ Forgotten(att[s]).hold = NoWindow
      BY OverType DEF Over, Forgotten, AttState
    <2> QED
      BY <1>1, <2>1, OverSound DEF SetAtt
  <1>3. att[s].est \in Nat /\ \A w \in Window : Pending(att[s], w) \in Nat
    BY <1>1, WeightTypes DEF AttState
  <1>4. ProjWin \subseteq Window
    BY <1>1, PlanFacts
  <1>5. Owed(b) = 0 /\ Owed(b) <= att[s].est /\ \A w \in ProjWin : Pending(b, w) <= Pending(att[s], w)
    BY <1>2, <1>3, <1>4 DEF Weightless
  <1> QED
    BY <1>2, <1>5, RefundStep

(* or followed by its booking.                                             *)
LEMMA RefundBooks ==
  ASSUME CostInv, plan' = plan, NEW s \in Slot, att[s].phase \in {"undo", "release"},
         \/ Credit(att[s].key, att[s].est) /\ UNCHANGED leaked
         \/ Leak(att[s].key, att[s].est, att[s].hold) /\ UNCHANGED key,
         UNCHANGED <<now, spent, cache, excused>>, SetAtt(s, ToBook(att[s]))
  PROVE  CostInv'
  <1>1. /\ CostTyped /\ att[s] \in AttState /\ plan \in Plan /\ Sound(att[s]) /\ att[s].key \in Key
    BY AttFacts
  <1> DEFINE b == ToBook(att[s])
  <1>2. /\ b \in AttState /\ b.key = att[s].key /\ b.hold = NoWindow
        /\ Owed(b) <= att[s].est /\ Owed(b) \in Nat
        /\ att[s].out \notin {"ok", "rejected"} => Owed(b) = 0
        /\ \A w \in Window : Pending(b, w) = Owed(b)
        /\ (\A w \in ProjWin : Owed(b) <= ProjCap[w]) => Sound(b)
    BY <1>1, BookSound DEF Sound
  <1> HIDE DEF b
  <1>3. \A w \in Window : Owed(b) <= Pending(att[s], w) /\ Pending(att[s], w) \in Nat
    <2>1. \A w \in Window : Pending(att[s], w) \in Nat
      BY <1>1, WeightTypes
    <2>2. CASE att[s].phase = "undo"
      <3>1. att[s].out = "none"
        BY <1>1, <2>2 DEF Sound, Before
      <3> QED
        BY <1>2, <2>1, <3>1
    <2>3. CASE att[s].phase = "release"
      <3>1. \A w \in Window : Pending(att[s], w) = att[s].est
        BY <2>3 DEF Pending, Passed
      <3> QED
        BY <1>2, <2>1, <3>1
    <2> QED BY <2>2, <2>3
  <1>4. ProjWin \subseteq Window /\ ProjCap \in [Window -> Nat]
    BY <1>1, PlanFacts
  <1>5. \A w \in ProjWin : Owed(b) <= ProjCap[w]
    BY <1>1, <1>2, <1>3, <1>4 DEF Sound
  <1>6. \A w \in ProjWin : Pending(b, w) <= Pending(att[s], w)
    BY <1>2, <1>3, <1>4
  <1> QED
    BY <1>2, <1>5, <1>6, RefundStep DEF SetAtt, b

(* The refund after a refusal, the failures of the checks and the refund   *)
(* after the call.                                                         *)
LEMMA RefundKeeps ==
  ASSUME CostInv, plan' = plan, NEW s \in Slot, Undo(s) \/ CheckDies(s) \/ Release(s)
  PROVE  CostInv'
  <1>1. CASE Undo(s)
    BY <1>1, RefundBooks DEF Undo, hist
  <1>2. CASE CheckDies(s)
    BY <1>2, RefundEnds DEF CheckDies
  <1>3. CASE Release(s)
    BY <1>3, RefundEnds, RefundBooks DEF Release
  <1> QED
    BY <1>1, <1>2, <1>3

(* What a statement takes for the current windows is not in the future.    *)
LEMMA ViewPast ==
  ASSUME CostInv, NEW s \in Slot, NEW tx \in Start(s)
  PROVE  /\ tx \in [Window -> Nat] /\ View(att[s].at, tx) \in [Window -> Nat]
         /\ \A w \in Window : View(att[s].at, tx)[w] <= now[w]
         /\ \A w \in Window : tx[w] # now[w] => View(att[s].at, tx)[w] # now[w]
         /\ \A w \in Window : View(att[s].at, tx)[w] = now[w] => tx[w] = now[w]
  <1>1. /\ CostTyped /\ att[s] \in AttState /\ Sound(att[s])
    BY AttFacts
  <1>2. /\ att[s].at \in [Window -> Nat] /\ now \in [Window -> Nat]
        /\ \A w \in Window : att[s].at[w] <= now[w]
    BY <1>1 DEF CostTyped, AttState, Sound
  <1>3. tx = att[s].at \/ tx = now
    BY DEF Start
  <1> QED
    BY <1>2, <1>3 DEF View, Window

(* A debit restarts the counters of the windows it is for, when they are   *)
(* not those of its view.                                                  *)
LEMMA DebitFacts ==
  ASSUME CostTyped, NEW k \in Key, NEW c \in Nat, NEW ws \in SUBSET Window,
         NEW view \in [Window -> Nat], Debit(k, ws, c, view), now' = now, StampsPast,
         \A w \in Window : view[w] <= now[w]
  PROVE  /\ key' \in Counters /\ StampsPast'
         /\ \A p \in Key \ {k} : \A w \in Window : FreshNow(p, w)' = FreshNow(p, w)
         /\ \A w \in ws : FreshNow(k, w)' = (IF view[w] = now[w] THEN FreshNow(k, w) + c ELSE 0)
  <1> DEFINE u == [w \in Window |-> IF w \in ws THEN Fresh(k, w, view) + c ELSE key[k].used[w]]
             t == [w \in Window |-> IF w \in ws THEN view[w] ELSE key[k].stamp[w]]
  <1>1. key \in Counters /\ now \in [Window -> Nat]
    BY DEF CostTyped
  <1>2. key' = [key EXCEPT ![k] = [used |-> u, stamp |-> t]]
    BY DEF Debit
  <1>3. key[k].used \in [Window -> Nat] /\ key[k].stamp \in [Window -> Nat]
    BY <1>1 DEF Counters
  <1>4. u \in [Window -> Nat] /\ t \in [Window -> Nat] /\ \A w \in Window : t[w] <= now[w]
    BY <1>3 DEF Fresh, StampsPast
  <1>5. \A w \in ws : u[w] = Fresh(k, w, view) + c /\ t[w] = view[w]
    OBVIOUS
  <1> HIDE DEF u, t
  <1>6. key' \in Counters
    BY <1>1, <1>2, <1>4 DEF Counters
  <1>7. key'[k].used = u /\ key'[k].stamp = t /\ \A p \in Key \ {k} : key'[p] = key[p]
    BY <1>1, <1>2 DEF Counters
  <1>8. StampsPast'
    BY <1>4, <1>7 DEF StampsPast
  <1>9. \A p \in Key \ {k} : \A w \in Window : FreshNow(p, w)' = FreshNow(p, w)
    BY <1>7 DEF FreshNow
  <1>10. ASSUME NEW w \in ws
         PROVE  FreshNow(k, w)' = (IF view[w] = now[w] THEN FreshNow(k, w) + c ELSE 0)
    <2>1. key'[k].stamp[w] = view[w] /\ key'[k].used[w] = Fresh(k, w, view) + c
      BY <1>5, <1>7
    <2>2. CASE view[w] = now[w]
      <3>1. Fresh(k, w, view) = FreshNow(k, w)
        BY <2>2 DEF Fresh, FreshNow
      <3> QED
        BY <2>1, <2>2, <3>1 DEF FreshNow
    <2>3. CASE view[w] # now[w]
      BY <2>1, <2>3 DEF FreshNow
    <2> QED BY <2>2, <2>3
  <1> QED
    BY <1>6, <1>8, <1>9, <1>10

(* What a write with a view of the past excuses.                           *)
LEMMA ExcuseFacts ==
  ASSUME CostTyped, NEW k \in Key, NEW ws \in SUBSET Window, NEW view \in [Window -> Nat],
         NEW amount \in [Window -> Nat], Excuse(k, ws, view, amount)
  PROVE  /\ excused' \in Money /\ \A p \in Key \ {k} : excused'[p] = excused[p]
         /\ \A w \in Window : excused[k][w] + amount[w] <= excused'[k][w]
         /\ \A w \in ws : view[w] # now[w] =>
              excused[k][w] + amount[w] + FreshNow(k, w) <= excused'[k][w]
  <1> DEFINE m == [w \in Window |-> excused[k][w] + amount[w]
                     + (IF w \in Lost(k, ws, view) THEN key[k].used[w] ELSE 0)]
  <1>1. excused' = [excused EXCEPT ![k] = m]
    BY DEF Excuse
  <1>2. excused \in Money /\ excused[k] \in [Window -> Nat] /\ key[k].used \in [Window -> Nat]
    BY DEF CostTyped, Money, Counters
  <1>3. m \in [Window -> Nat] /\ \A w \in Window : m[w] >= excused[k][w] + amount[w]
    BY <1>2
  <1>4. \A w \in ws : view[w] # now[w] => m[w] >= excused[k][w] + amount[w] + FreshNow(k, w)
    <2> SUFFICES ASSUME NEW w \in ws, view[w] # now[w]
                 PROVE  m[w] >= excused[k][w] + amount[w] + FreshNow(k, w)
      OBVIOUS
    <2>1. w \in Window /\ key[k].used[w] \in Nat
      BY <1>2
    <2>2. CASE w \in Lost(k, ws, view)
      <3>1. FreshNow(k, w) = key[k].used[w]
        BY <2>2 DEF Lost, FreshNow
      <3> QED BY <1>2, <2>1, <2>2, <3>1
    <2>3. CASE w \notin Lost(k, ws, view)
      <3>1. FreshNow(k, w) = 0
        BY <2>1, <2>3 DEF Lost, FreshNow
      <3> QED BY <1>2, <2>1, <2>3, <3>1
    <2> QED BY <2>2, <2>3
  <1> HIDE DEF m
  <1>5. excused'[k] = m /\ excused' \in Money /\ \A p \in Key \ {k} : excused'[p] = excused[p]
    BY <1>1, <1>2, <1>3 DEF Money
  <1> QED
    BY <1>3, <1>4, <1>5
(* The same, one conclusion at a time: the other keys,                     *)
LEMMA ExcuseOthers ==
  ASSUME CostTyped, NEW k \in Key, NEW ws \in SUBSET Window, NEW view \in [Window -> Nat],
         NEW amount \in [Window -> Nat], Excuse(k, ws, view, amount)
  PROVE  excused' \in Money /\ \A p \in Key \ {k} : excused'[p] = excused[p]
  BY ExcuseFacts

(* the amount given,                                                       *)
LEMMA ExcuseAmount ==
  ASSUME CostTyped, NEW k \in Key, NEW ws \in SUBSET Window, NEW view \in [Window -> Nat],
         NEW amount \in [Window -> Nat], Excuse(k, ws, view, amount), NEW w \in Window
  PROVE  excused[k][w] + amount[w] <= excused'[k][w]
  BY ExcuseFacts

(* and the counter that starts again.                                      *)
LEMMA ExcuseLost ==
  ASSUME CostTyped, NEW k \in Key, NEW ws \in SUBSET Window, NEW view \in [Window -> Nat],
         NEW amount \in [Window -> Nat], Excuse(k, ws, view, amount), NEW w \in ws, view[w] # now[w]
  PROVE  excused[k][w] + amount[w] + FreshNow(k, w) <= excused'[k][w]
  BY ExcuseFacts

(* A debit that was committed: the reservation is held, or leaks at once.  *)
LEMMA DebitStep ==
  ASSUME CostInv, plan' = plan, NEW s \in Slot, NEW tx \in Start(s),
         ReserveDb(s, View(att[s].at, tx)),
         NEW b \in AttState, Sound(b), att' = [att EXCEPT ![s] = b], Owed(b) = 0,
         \A w \in Window : Pending(b, w) = 0,
         \A k \in Key \ {att[s].key}, w \in Window : Has(b, k, w) = 0 /\ Today(b, k, w, now[w]) = 0,
         \A w \in Window : Has(b, att[s].key, w) <= att[s].est,
         leaked' \in Money, \A k \in Key \ {att[s].key} : leaked'[k] = leaked[k],
         \A w \in KeyWin[att[s].key] :
           Today(b, att[s].key, w, now[w]) + leaked'[att[s].key][w]
             = leaked[att[s].key][w] + (IF View(att[s].at, tx)[w] = now[w] THEN att[s].est ELSE 0)
  PROVE  CostInv'
  <1>a. att[s] \in AttState /\ att[s].phase = "reserve" /\ att[s].key \in Key /\ att[s].est \in Nat
    BY AttFacts DEF AttState, ReserveDb
  <1>v. /\ View(att[s].at, tx) \in [Window -> Nat]
        /\ \A w \in Window : View(att[s].at, tx)[w] <= now[w]
    BY ViewPast
  <1>b. PICK a \in AttState, own \in Key, e \in Nat, view \in [Window -> Nat] :
          a = att[s] /\ own = att[s].key /\ e = att[s].est /\ view = View(att[s].at, tx)
    BY <1>a, <1>v
  <1>0. /\ CostTyped /\ plan \in Plan /\ att \in [Slot -> AttState] /\ StampsPast
        /\ Sound(a) /\ own = a.key /\ e = a.est /\ a.phase = "reserve"
        /\ \A w \in Window : view[w] <= now[w]
    BY <1>a, <1>b, <1>v, AttFacts
  <1>1. /\ now \in [Window -> Nat \ {0}] /\ KeyWin \in [Key -> SUBSET Window]
        /\ ProjWin \subseteq Window /\ KeyCap \in [Key -> [Window -> Nat]]
    BY <1>0, PlanFacts DEF CostTyped
  <1>1a. KeyWin[own] \in SUBSET Window
    BY <1>1
  <1>1b. PICK amount \in [Window -> Nat] :
           amount = [w \in Window |-> IF w \in KeyWin[own] /\ view[w] # now[w] THEN e ELSE 0]
    OBVIOUS
  <1>2. /\ Room(own, e, view) /\ Debit(own, KeyWin[own], e, view)
        /\ Excuse(own, KeyWin[own], view, amount) /\ now' = now /\ spent' = spent /\ cache' = cache
    BY <1>b, <1>1b DEF ReserveDb
  <1>3. /\ key' \in Counters /\ StampsPast'
        /\ \A p \in Key \ {own} : \A w \in Window : FreshNow(p, w)' = FreshNow(p, w)
        /\ \A w \in KeyWin[own] :
             FreshNow(own, w)' = (IF view[w] = now[w] THEN FreshNow(own, w) + e ELSE 0)
    BY ONLY own \in Key, e \in Nat, view \in [Window -> Nat], <1>0, <1>1a, <1>2, DebitFacts
  <1>4. \A w \in KeyWin[own] : amount[w] = (IF view[w] # now[w] THEN e ELSE 0)
    BY <1>1, <1>1b
  <1>5. /\ excused' \in Money /\ \A p \in Key \ {own} : excused'[p] = excused[p]
        /\ \A w \in Window : excused[own][w] + amount[w] <= excused'[own][w]
        /\ \A w \in KeyWin[own] : view[w] # now[w] =>
             excused[own][w] + amount[w] + FreshNow(own, w) <= excused'[own][w]
    <2>1. excused' \in Money /\ \A p \in Key \ {own} : excused'[p] = excused[p]
      BY ONLY own \in Key, view \in [Window -> Nat], amount \in [Window -> Nat],
              <1>0, <1>1a, <1>2, ExcuseOthers
    <2>2. \A w \in Window : excused[own][w] + amount[w] <= excused'[own][w]
      BY ONLY own \in Key, view \in [Window -> Nat], amount \in [Window -> Nat],
              <1>0, <1>1a, <1>2, ExcuseAmount
    <2>3. \A w \in KeyWin[own] : view[w] # now[w] =>
             excused[own][w] + amount[w] + FreshNow(own, w) <= excused'[own][w]
      BY ONLY own \in Key, view \in [Window -> Nat], amount \in [Window -> Nat],
              <1>0, <1>1a, <1>2, ExcuseLost
    <2> QED BY <2>1, <2>2, <2>3
  <1>6. CostTyped'
    BY <1>0, <1>2, <1>3, <1>5 DEF CostTyped
  <1>7. \A k \in Key, w \in Window : Has(a, k, w) = 0 /\ Today(a, k, w, now[w]) = 0 /\ Due(a, k) = 0
    <2>1. a.hold = NoWindow /\ Owed(a) = 0
      BY <1>0 DEF Sound, Owed
    <2> QED
      BY <1>1, <2>1 DEF Has, Holds, Today, Due, NoWindow
  <1>8. \A k \in Key : Due(b, k) = 0
    BY DEF Due
  <1>9. ASSUME NEW k \in Key, NEW w \in KeyWin[k] PROVE KeyKept(a, b, k, w)
    <2>0. w \in Window /\ KeyCap[k][w] \in Nat
      BY <1>1
    <2>1. /\ FreshNow(k, w) \in Nat /\ spent[k][w] \in Nat /\ leaked[k][w] \in Nat
          /\ excused[k][w] \in Nat
      BY <1>0, <2>0, FreshType
    <2>2. excused'[k][w] \in Nat /\ leaked'[k][w] \in Nat
      BY <1>5, <2>0 DEF Money
    <2>3. Has(b, k, w) \in Nat /\ Today(b, k, w, now[w]) \in Nat
      BY <2>0, WeightTypes
    <2>4. Has(a, k, w) = 0 /\ Today(a, k, w, now[w]) = 0 /\ Due(a, k) = 0 /\ Due(b, k) = 0
      BY <1>7, <1>8, <2>0
    <2>5. CASE k # own
      <3>1. /\ Has(b, k, w) = 0 /\ Today(b, k, w, now[w]) = 0 /\ leaked'[k] = leaked[k]
            /\ excused'[k] = excused[k] /\ FreshNow(k, w)' = FreshNow(k, w)
        BY <1>b, <1>3, <1>5, <2>0, <2>5
      <3> QED
        BY <1>2, <2>1, <2>4, <3>1 DEF KeyKept
    <2>6. CASE k = own
      <3>1. /\ Has(b, k, w) <= e
            /\ Today(b, k, w, now[w]) + leaked'[k][w]
                 = leaked[k][w] + (IF view[w] = now[w] THEN e ELSE 0)
        BY <1>b, <2>0, <2>6
      <3>2. CASE view[w] = now[w]
        <4>1. Fresh(k, w, view) = FreshNow(k, w)
          BY <3>2 DEF Fresh, FreshNow
        <4>2. FreshNow(k, w) + e <= KeyCap[k][w]
          BY <1>2, <2>6, <4>1 DEF Room
        <4>3. FreshNow(k, w)' = FreshNow(k, w) + e
          BY <1>3, <2>6, <3>2
        <4>4. excused'[k][w] >= excused[k][w]
          BY <1>4, <1>5, <2>0, <2>1, <2>2, <2>6
        <4> QED
          BY <1>2, <2>0, <2>1, <2>2, <2>3, <2>4, <3>1, <3>2, <4>2, <4>3, <4>4 DEF KeyKept
      <3>3. CASE view[w] # now[w]
        <4>1. FreshNow(k, w)' = 0 /\ excused'[k][w] >= excused[k][w] + e + FreshNow(k, w)
          BY <1>3, <1>4, <1>5, <2>6, <3>3
        <4> QED
          BY <1>2, <2>0, <2>1, <2>2, <2>3, <2>4, <3>1, <4>1 DEF KeyKept
      <3> QED BY <3>2, <3>3
    <2> QED BY <2>5, <2>6
  <1>10. ASSUME NEW w \in ProjWin PROVE ProjectKept(a, b, own, w)
    <2>1. w \in Window
      BY <1>1
    <2>2. /\ spent[own][w] \in Nat /\ excused[own][w] \in Nat /\ excused'[own][w] \in Nat
          /\ Pending(a, w) \in Nat
      BY <1>0, <1>5, <2>1, FreshType, WeightTypes DEF Money
    <2>3. excused'[own][w] >= excused[own][w] /\ Pending(b, w) = 0
      BY <1>4, <1>5, <2>1, <2>2
    <2> QED
      BY <1>2, <2>2, <2>3 DEF ProjectKept
  <1>11. \A k \in Key \ {own} : spent'[k] = spent[k] /\ excused'[k] = excused[k]
    BY <1>2, <1>5
  <1> QED
    BY <1>0, <1>b, <1>2, <1>3, <1>6, <1>9, <1>10, <1>11, SlotStep

(* The windows a debit is for are not 0.                                   *)
LEMMA DebitedFacts ==
  ASSUME CostInv, NEW s \in Slot, att[s].phase = "reserve", NEW tx \in Start(s)
  PROVE  LET hold == Debited(s, View(att[s].at, tx))
         IN /\ hold \in [Window -> Nat]
            /\ \A w \in KeyWin[att[s].key] : hold[w] # 0 /\ hold[w] = View(att[s].at, tx)[w]
            /\ \A w \in Window \ KeyWin[att[s].key] : hold[w] = 0
  <1>1. /\ CostTyped /\ att[s] \in AttState /\ Sound(att[s]) /\ att[s].key \in Key /\ plan \in Plan
    BY AttFacts
  <1>2. /\ now \in [Window -> Nat \ {0}] /\ KeyWin[att[s].key] \subseteq Window
    BY <1>1, PlanFacts DEF CostTyped
  <1>3. tx \in {att[s].at, now} /\ \A w \in Window : att[s].at[w] # 0
    BY <1>1 DEF Start, Sound
  <1>4. View(att[s].at, tx) \in [Window -> Nat]
    BY ViewPast
  <1>5. \A w \in Window : View(att[s].at, tx)[w] # 0
    BY <1>2, <1>3 DEF View
  <1> QED
    BY <1>2, <1>4, <1>5 DEF Debited

(* A reservation that is held,                                             *)
LEMMA ReserveKeeps ==
  ASSUME CostInv, plan' = plan, NEW s \in Slot, Reserve(s)
  PROVE  CostInv'
  <1>1. PICK tx \in Start(s) :
          /\ ReserveDb(s, View(att[s].at, tx))
          /\ SetAtt(s, [att[s] EXCEPT !.phase = "project", !.at = NoWindow,
                                      !.hold = Debited(s, View(att[s].at, tx))])
          /\ leaked' = leaked
    BY Zenon DEF Reserve
  <1>2. /\ CostTyped /\ att[s] \in AttState /\ Sound(att[s]) /\ plan \in Plan
        /\ att[s].phase = "reserve" /\ att[s].key \in Key
    BY <1>1, AttFacts DEF ReserveDb
  <1>3. /\ Debited(s, View(att[s].at, tx)) \in [Window -> Nat]
        /\ \A w \in KeyWin[att[s].key] : /\ Debited(s, View(att[s].at, tx))[w] # 0
                                         /\ Debited(s, View(att[s].at, tx))[w] = View(att[s].at, tx)[w]
        /\ \A w \in Window \ KeyWin[att[s].key] : Debited(s, View(att[s].at, tx))[w] = 0
    BY <1>2, DebitedFacts
  <1>4. PICK hold \in [Window -> Nat], view \in [Window -> Nat] :
          hold = Debited(s, View(att[s].at, tx)) /\ view = View(att[s].at, tx)
    BY <1>3, ViewPast
  <1>5. \A w \in KeyWin[att[s].key] : hold[w] # 0 /\ hold[w] = view[w]
    BY <1>3, <1>4
  <1>6. /\ NoWindow \in [Window -> Nat] /\ \A w \in Window : NoWindow[w] = 0
        /\ now \in [Window -> Nat \ {0}] /\ ProjWin \subseteq Window /\ ProjCap \in [Window -> Nat]
        /\ KeyWin[att[s].key] \subseteq Window /\ leaked \in Money
    BY <1>2, PlanFacts DEF NoWindow, CostTyped
  <1> DEFINE b == [att[s] EXCEPT !.phase = "project", !.at = NoWindow, !.hold = hold]
  <1>7. /\ b \in AttState /\ b.phase = "project" /\ b.key = att[s].key /\ b.est = att[s].est
        /\ b.hold = hold /\ b.at = NoWindow /\ b.cost = att[s].cost /\ b.out = att[s].out
    BY <1>2, <1>6 DEF AttState, Phase
  <1>8. att' = [att EXCEPT ![s] = b]
    BY <1>1, <1>4 DEF SetAtt
  <1> HIDE DEF b
  <1>9. Owed(b) = 0 /\ \A w \in Window : Pending(b, w) = 0
    BY <1>7 DEF Owed, Pending, Passed
  <1>10. Sound(b)
    <2>1. att[s].out = "none" /\ att[s].est <= MaxCost /\ att[s].cost <= MaxCost
      BY <1>2 DEF Sound, Before
    <2> QED
      BY <1>2, <1>5, <1>6, <1>7, <1>9, <2>1 DEF Sound, Holding
  <1>11. \A k \in Key \ {att[s].key}, w \in Window : Has(b, k, w) = 0 /\ Today(b, k, w, now[w]) = 0
    BY <1>7 DEF Has, Today
  <1>12. \A w \in Window : Has(b, att[s].key, w) <= att[s].est
    BY <1>2, <1>7, WeightTypes DEF Has, Holds
  <1>13. \A w \in KeyWin[att[s].key] :
           Today(b, att[s].key, w, now[w]) = (IF view[w] = now[w] THEN att[s].est ELSE 0)
    BY <1>5, <1>7 DEF Today
  <1>14. \A w \in KeyWin[att[s].key] :
           Today(b, att[s].key, w, now[w]) + leaked'[att[s].key][w]
             = leaked[att[s].key][w] + (IF View(att[s].at, tx)[w] = now[w] THEN att[s].est ELSE 0)
    <2>1. att[s].est \in Nat /\ \A w \in Window : leaked[att[s].key][w] \in Nat
      BY <1>2, <1>6 DEF AttState, Money
    <2> QED
      BY <1>1, <1>4, <1>6, <1>13, <2>1
  <1> QED
    BY <1>1, <1>6, <1>7, <1>8, <1>9, <1>10, <1>11, <1>12, <1>14, DebitStep

(* or leaks because the debit was committed and its answer lost.           *)
LEMMA ReserveDiesKeeps ==
  ASSUME CostInv, plan' = plan, NEW s \in Slot, ReserveDies(s)
  PROVE  CostInv'
  <1>1. CASE /\ att[s].phase = "reserve" /\ SetAtt(s, Over)
             /\ UNCHANGED <<now, key, spent, cache, hist>>
    BY <1>1, RefusedKeeps
  <1>2. CASE \E tx \in Start(s) :
               /\ ReserveDb(s, View(att[s].at, tx))
               /\ Leak(att[s].key, att[s].est, Debited(s, View(att[s].at, tx)))
               /\ SetAtt(s, Forgotten(att[s]))
    <2>1. PICK tx \in Start(s) :
               /\ ReserveDb(s, View(att[s].at, tx))
               /\ Leak(att[s].key, att[s].est, Debited(s, View(att[s].at, tx)))
               /\ SetAtt(s, Forgotten(att[s]))
      BY <1>2
    <2>2. /\ CostTyped /\ att[s] \in AttState /\ plan \in Plan
          /\ att[s].phase = "reserve" /\ att[s].key \in Key /\ att[s].est \in Nat
      BY <2>1, AttFacts DEF ReserveDb, AttState
    <2>3. /\ Debited(s, View(att[s].at, tx)) \in [Window -> Nat]
          /\ \A w \in KeyWin[att[s].key] :
               Debited(s, View(att[s].at, tx))[w] = View(att[s].at, tx)[w]
      BY <2>2, DebitedFacts
    <2>4. PICK hold \in [Window -> Nat], own \in Key, e \in Nat :
            hold = Debited(s, View(att[s].at, tx)) /\ own = att[s].key /\ e = att[s].est
      BY <2>2, <2>3
    <2>5. /\ now \in [Window -> Nat \ {0}] /\ leaked \in Money /\ KeyWin[own] \subseteq Window
      BY <2>2, PlanFacts DEF CostTyped
    <2> DEFINE m == [w \in Window |-> IF hold[w] = now[w] THEN leaked[own][w] + e ELSE leaked[own][w]]
    <2>6. leaked' = [leaked EXCEPT ![own] = m]
      BY <2>1, <2>4 DEF Leak
    <2>7. m \in [Window -> Nat] /\ leaked[own] \in [Window -> Nat]
      BY <2>5 DEF Money
    <2>8. \A w \in KeyWin[own] : m[w] = leaked[own][w] + (IF hold[w] = now[w] THEN e ELSE 0)
      BY <2>5, <2>7
    <2> HIDE DEF m
    <2>9. leaked' \in Money /\ leaked'[own] = m /\ \A p \in Key \ {own} : leaked'[p] = leaked[p]
      BY <2>5, <2>6, <2>7 DEF Money
    <2>10. PICK b \in AttState : /\ Sound(b) /\ Weightless(b) /\ att' = [att EXCEPT ![s] = b]
      BY <2>1, <2>2, OverSound DEF SetAtt
    <2>11. Owed(b) = 0 /\ \A w \in Window : Pending(b, w) = 0
      BY <2>10 DEF Weightless
    <2>12. \A k : \A w \in Window : Has(b, k, w) = 0 /\ Today(b, k, w, now[w]) = 0
      BY <2>2, <2>10, LightFacts DEF Weightless
    <2>13. \A w \in Window : Has(b, att[s].key, w) <= att[s].est
      BY <2>2, <2>12
    <2>14. \A w \in KeyWin[att[s].key] :
           Today(b, att[s].key, w, now[w]) + leaked'[att[s].key][w]
             = leaked[att[s].key][w] + (IF View(att[s].at, tx)[w] = now[w] THEN att[s].est ELSE 0)
      <3>1. ASSUME NEW w \in KeyWin[own]
            PROVE  Today(b, own, w, now[w]) + leaked'[own][w]
                     = leaked[own][w] + (IF hold[w] = now[w] THEN e ELSE 0)
        <4>1. Today(b, own, w, now[w]) = 0 /\ leaked[own][w] \in Nat
          BY <2>5, <2>7, <2>12
        <4>2. leaked'[own][w] = leaked[own][w] + (IF hold[w] = now[w] THEN e ELSE 0)
          BY <2>8, <2>9
        <4> QED BY <4>1, <4>2
      <3>2. \A w \in KeyWin[own] : hold[w] = View(att[s].at, tx)[w]
        BY <2>3, <2>4
      <3> QED
        BY <2>4, <3>1, <3>2
    <2> QED
      BY <2>1, <2>4, <2>9, <2>10, <2>11, <2>12, <2>13, <2>14, DebitStep
  <1> QED
    BY <1>1, <1>2, Zenon DEF ReserveDies

(* What a booking excuses: all of a cost that no counter answers for,      *)
(* because the row is a duplicate or the view is past, and otherwise what  *)
(* the cost has over the estimate.                                         *)
Excused(a, tx, view) ==
  [w \in Window |-> IF tx[w] # now[w] THEN 0
                    ELSE IF view[w] # now[w] \/ a.dup THEN a.cost
                    ELSE IF a.cost > a.est THEN a.cost - a.est ELSE 0]

(* With what is owed it comes to the cost, where the row is in the log.    *)
LEMMA ExcusedFacts ==
  ASSUME NEW a \in AttState, a.phase = "record", NEW tx, NEW view, NEW w \in Window
  PROVE  /\ Excused(a, tx, view)[w] \in Nat
         /\ (tx[w] = now[w]) => a.cost <= Excused(a, tx, view)[w] + Owed(a)
         /\ (tx[w] = now[w] /\ view[w] # now[w]) => Excused(a, tx, view)[w] = a.cost
  <1>1. a.cost \in Nat /\ a.est \in Nat /\ Owed(a) \in Nat
    BY WeightTypes
  <1>2. CASE tx[w] # now[w]
    BY <1>1, <1>2 DEF Excused
  <1>3. CASE tx[w] = now[w] /\ (view[w] # now[w] \/ a.dup)
    BY <1>1, <1>3 DEF Excused
  <1>4. CASE tx[w] = now[w] /\ view[w] = now[w] /\ ~a.dup
    <2>1. Owed(a) = IF a.cost < a.est THEN a.cost ELSE a.est
      BY <1>4 DEF Owed
    <2>2. Excused(a, tx, view)[w] = IF a.cost > a.est THEN a.cost - a.est ELSE 0
      BY <1>4 DEF Excused
    <2> QED
      BY <1>1, <1>4, <2>1, <2>2
  <1> QED
    BY <1>2, <1>3, <1>4

(* What follows a booking weighs nothing.                                  *)
LEMMA BookedSound ==
  ASSUME CostInv, NEW s \in Slot, att[s].phase = "record", NEW b,
         b = Over \/ b = Retried(att[s], TRUE)
  PROVE  b \in AttState /\ Sound(b) /\ Weightless(b)
  <1>1. CostTyped /\ att[s] \in AttState
    BY AttFacts
  <1>2. CASE b = Over
    BY <1>1, <1>2, OverSound
  <1>3. CASE b = Retried(att[s], TRUE) /\ b # Over
    <2>1. /\ b \in AttState /\ Sound(b) /\ b.hold = NoWindow /\ Owed(b) = 0
          /\ \A w \in Window : Pending(b, w) = Owed(b)
      BY <1>3, RetrySound
    <2> QED
      BY <2>1 DEF Weightless, Light
  <1> QED
    BY <1>2, <1>3

(* A booking: the row enters the log, the counters and the histories.      *)
LEMMA BookingStep ==
  ASSUME CostInv, plan' = plan, NEW s \in Slot, NEW b, b = Over \/ b = Retried(att[s], TRUE),
         BookDb(s, b), UNCHANGED <<now, cache, leaked>>
  PROVE  CostInv'
  <1>1. PICK tx \in Start(s) :
          /\ Debit(att[s].key, Window, att[s].cost, View(att[s].at, tx))
          /\ spent' = [spent EXCEPT ![att[s].key] =
               [w \in Window |-> @[w] + (IF tx[w] = now[w] THEN att[s].cost ELSE 0)]]
          /\ Excuse(att[s].key, Window, View(att[s].at, tx), Excused(att[s], tx, View(att[s].at, tx)))
    <2>1. PICK tx \in Start(s) :
            LET view == View(att[s].at, tx)
                inLog == [w \in Window |-> tx[w] = now[w]]
            IN /\ Debit(att[s].key, Window, att[s].cost, view)
               /\ spent' = [spent EXCEPT ![att[s].key] =
                    [w \in Window |-> @[w] + (IF inLog[w] THEN att[s].cost ELSE 0)]]
               /\ Excuse(att[s].key, Window, view, [w \in Window |->
                    IF ~inLog[w] THEN 0
                    ELSE IF view[w] # now[w] \/ att[s].dup THEN att[s].cost
                    ELSE IF att[s].cost > att[s].est THEN att[s].cost - att[s].est ELSE 0])
      BY Zenon DEF BookDb
    <2>2. [w \in Window |-> spent[att[s].key][w]
              + (IF [v \in Window |-> tx[v] = now[v]][w] THEN att[s].cost ELSE 0)]
            = [w \in Window |-> spent[att[s].key][w] + (IF tx[w] = now[w] THEN att[s].cost ELSE 0)]
      OBVIOUS
    <2>3. [w \in Window |->
                    IF ~[v \in Window |-> tx[v] = now[v]][w] THEN 0
                    ELSE IF View(att[s].at, tx)[w] # now[w] \/ att[s].dup THEN att[s].cost
                    ELSE IF att[s].cost > att[s].est THEN att[s].cost - att[s].est ELSE 0]
            = Excused(att[s], tx, View(att[s].at, tx))
      BY DEF Excused
    <2> QED
      BY <2>1, <2>2, <2>3, Zenon
  <1>2. /\ CostTyped /\ att[s] \in AttState /\ Sound(att[s]) /\ plan \in Plan /\ StampsPast
        /\ att[s].phase = "record" /\ att[s].key \in Key /\ att[s].cost \in Nat
        /\ att' = [att EXCEPT ![s] = b] /\ att \in [Slot -> AttState]
    BY AttFacts DEF BookDb, SetAtt, AttState
  <1>3. /\ tx \in [Window -> Nat] /\ View(att[s].at, tx) \in [Window -> Nat]
        /\ \A w \in Window : View(att[s].at, tx)[w] <= now[w]
        /\ \A w \in Window : View(att[s].at, tx)[w] = now[w] => tx[w] = now[w]
    BY ViewPast
  <1>4. Excused(att[s], tx, View(att[s].at, tx)) \in [Window -> Nat]
    <2>1. \A w \in Window : Excused(att[s], tx, View(att[s].at, tx))[w] \in Nat
      BY <1>2, ExcusedFacts
    <2> QED
      BY <2>1 DEF Excused
  <1>5. PICK a \in AttState, own \in Key, c \in Nat, view \in [Window -> Nat], amount \in [Window -> Nat] :
          /\ a = att[s] /\ own = att[s].key /\ c = att[s].cost /\ view = View(att[s].at, tx)
          /\ amount = Excused(att[s], tx, View(att[s].at, tx))
    BY <1>2, <1>3, <1>4
  <1>6. /\ Debit(own, Window, c, view) /\ Excuse(own, Window, view, amount) /\ now' = now
        /\ spent' = [spent EXCEPT ![own] =
               [w \in Window |-> spent[own][w] + (IF tx[w] = now[w] THEN c ELSE 0)]]
    BY <1>1, <1>5
  <1>7. /\ CostTyped /\ StampsPast /\ \A w \in Window : view[w] <= now[w]
    BY <1>2, <1>3, <1>5
  <1>7a. Window \in SUBSET Window
    OBVIOUS
  <1>8. /\ key' \in Counters /\ StampsPast'
        /\ \A p \in Key \ {own} : \A w \in Window : FreshNow(p, w)' = FreshNow(p, w)
        /\ \A w \in Window :
             FreshNow(own, w)' = (IF view[w] = now[w] THEN FreshNow(own, w) + c ELSE 0)
    BY ONLY own \in Key, c \in Nat, view \in [Window -> Nat], <1>6, <1>7, <1>7a, DebitFacts
  <1>9. excused' \in Money /\ \A p \in Key \ {own} : excused'[p] = excused[p]
    BY ONLY own \in Key, view \in [Window -> Nat], amount \in [Window -> Nat],
            <1>6, <1>7, <1>7a, ExcuseOthers
  <1>10. \A w \in Window : excused[own][w] + amount[w] <= excused'[own][w]
    BY ONLY own \in Key, view \in [Window -> Nat], amount \in [Window -> Nat],
            <1>6, <1>7, <1>7a, ExcuseAmount
  <1>11. \A w \in Window : view[w] # now[w] =>
             excused[own][w] + amount[w] + FreshNow(own, w) <= excused'[own][w]
    BY ONLY own \in Key, view \in [Window -> Nat], amount \in [Window -> Nat],
            <1>6, <1>7, <1>7a, ExcuseLost
  <1>12. /\ spent' \in Money /\ \A p \in Key \ {own} : spent'[p] = spent[p]
         /\ \A w \in Window : spent'[own][w] = spent[own][w] + (IF tx[w] = now[w] THEN c ELSE 0)
    <2> DEFINE m == [w \in Window |-> spent[own][w] + (IF tx[w] = now[w] THEN c ELSE 0)]
    <2>1. spent \in Money /\ spent[own] \in [Window -> Nat]
      BY <1>7 DEF CostTyped, Money
    <2>2. m \in [Window -> Nat]
      BY <2>1
    <2>3. \A w \in Window : m[w] = spent[own][w] + (IF tx[w] = now[w] THEN c ELSE 0)
      OBVIOUS
    <2>4. spent' = [spent EXCEPT ![own] = m]
      BY <1>6
    <2> HIDE DEF m
    <2>5. spent' \in Money /\ spent'[own] = m /\ \A p \in Key \ {own} : spent'[p] = spent[p]
      BY <2>1, <2>2, <2>4 DEF Money
    <2> QED BY <2>3, <2>5
  <1>13. b \in AttState /\ Sound(b) /\ Weightless(b)
    BY <1>2, BookedSound
  <1>14. CostTyped'
    BY <1>2, <1>8, <1>9, <1>12, <1>13 DEF CostTyped
  <1>15. \A k : \A w \in Window : Has(b, k, w) = 0 /\ Today(b, k, w, now[w]) = 0
    BY <1>7, <1>13, LightFacts DEF Weightless
  <1>16. \A k : \A w \in Window : Has(a, k, w) = 0 /\ Today(a, k, w, now[w]) = 0
    <2>1. Light(a)
      BY <1>2, <1>5 DEF Sound, Light
    <2> QED
      BY <1>7, <2>1, LightFacts
  <1>17. /\ Owed(b) = 0 /\ \A k : Due(b, k) = 0
         /\ \A w \in Window : Pending(b, w) = 0 /\ Pending(a, w) = Owed(a)
         /\ Owed(a) \in Nat /\ Due(a, own) = Owed(a) /\ \A k : Due(a, k) \in Nat
    BY <1>2, <1>5, <1>13, WeightTypes DEF Weightless, Due, Pending, Passed, Window
  <1>18. ASSUME NEW w \in Window
         PROVE  /\ amount[w] \in Nat
                /\ tx[w] = now[w] => c <= amount[w] + Owed(a)
                /\ (tx[w] = now[w] /\ view[w] # now[w]) => amount[w] = c
                /\ view[w] = now[w] => tx[w] = now[w]
    BY <1>2, <1>3, <1>5, ExcusedFacts
  <1>19. ASSUME NEW w \in Window
         PROVE  spent'[own][w] + excused[own][w] <= spent[own][w] + Owed(a) + excused'[own][w]
    <2>1. /\ spent[own][w] \in Nat /\ excused[own][w] \in Nat /\ excused'[own][w] \in Nat
      BY <1>7, <1>9, FreshType DEF Money
    <2> QED
      BY <1>10, <1>12, <1>17, <1>18, <2>1
  <1>20. ASSUME NEW k \in Key, NEW w \in KeyWin[k] PROVE KeyKept(a, b, k, w)
    <2>0. w \in Window /\ KeyCap[k][w] \in Nat
      BY <1>2, PlanFacts
    <2>1. /\ FreshNow(k, w) \in Nat /\ spent[k][w] \in Nat /\ leaked[k][w] \in Nat
          /\ excused[k][w] \in Nat /\ excused'[k][w] \in Nat /\ leaked' = leaked
      BY <1>7, <1>9, <2>0, FreshType DEF Money
    <2>2. /\ Has(b, k, w) = 0 /\ Today(b, k, w, now[w]) = 0 /\ Due(b, k) = 0
          /\ Has(a, k, w) = 0 /\ Today(a, k, w, now[w]) = 0 /\ Due(a, k) \in Nat
      BY <1>15, <1>16, <1>17, <2>0
    <2>3. CASE k # own
      <3>1. spent'[k] = spent[k] /\ excused'[k] = excused[k] /\ FreshNow(k, w)' = FreshNow(k, w)
        BY <1>8, <1>9, <1>12, <2>0, <2>3
      <3> QED
        BY <2>1, <2>2, <3>1 DEF KeyKept
    <2>4. CASE k = own
      <3>1. spent'[k][w] + excused[k][w] <= spent[k][w] + Due(a, k) + excused'[k][w]
        BY <1>17, <1>19, <2>0, <2>4
      <3>2. CASE view[w] = now[w]
        <4>1. FreshNow(k, w)' = FreshNow(k, w) + c /\ spent'[k][w] = spent[k][w] + c
          BY <1>8, <1>12, <1>18, <2>0, <2>4, <3>2
        <4>2. excused[k][w] <= excused'[k][w]
          BY <1>10, <1>18, <2>0, <2>1, <2>4
        <4> QED
          BY <2>1, <2>2, <3>1, <4>1, <4>2 DEF KeyKept
      <3>3. CASE view[w] # now[w]
        <4>1. FreshNow(k, w)' = 0 /\ excused[k][w] + amount[w] + FreshNow(k, w) <= excused'[k][w]
          BY <1>8, <1>11, <2>0, <2>4, <3>3
        <4>2. spent'[k][w] <= spent[k][w] + amount[w] /\ spent'[k][w] \in Nat /\ amount[w] \in Nat
          BY <1>12, <1>18, <2>0, <2>1, <2>4, <3>3
        <4> QED
          BY <2>1, <2>2, <3>1, <4>1, <4>2 DEF KeyKept
      <3> QED BY <3>2, <3>3
    <2> QED BY <2>3, <2>4
  <1>21. ASSUME NEW w \in ProjWin PROVE ProjectKept(a, b, own, w)
    <2>0. w \in Window
      BY <1>2, PlanFacts
    <2>1. /\ spent[own][w] \in Nat /\ excused[own][w] \in Nat /\ spent'[own][w] \in Nat
      BY <1>7, <1>12, <2>0, FreshType DEF Money
    <2>2. Pending(b, w) = 0 /\ Pending(a, w) = Owed(a)
      BY <1>17, <2>0
    <2> QED
      BY <1>19, <2>0, <2>1, <2>2 DEF ProjectKept
  <1> QED
    BY <1>2, <1>5, <1>6, <1>8, <1>9, <1>12, <1>13, <1>14, <1>20, <1>21, SlotStep

(* A booking that is acknowledged, or not and repeated or given up.        *)
LEMMA BookKeeps ==
  ASSUME CostInv, plan' = plan, NEW s \in Slot, Book(s) \/ BookUnacked(s)
  PROVE  CostInv'
  <1>1. CASE Book(s)
    BY <1>1, BookingStep DEF Book
  <1>2. CASE BookUnacked(s)
    BY <1>2, BookingStep DEF BookUnacked
  <1> QED BY <1>1, <1>2

(* What the counters will not answer for in a window that begins: what is  *)
(* held or owed when the one before it ends.                               *)
LEMMA CarriedOver ==
  ASSUME att \in [Slot -> AttState], NEW k, NEW w \in Window
  PROVE  SumFunction([s \in Slot |-> OnKey(s, k, Holds(att[s], w) + Owed(att[s]))])
           = AllHeld(att, k, w) + AllDue(att, k)
  <1> DEFINE f == [s \in Slot |-> Has(att[s], k, w)]
             e == [s \in Slot |-> Due(att[s], k)]
             d == [s \in Slot |-> OnKey(s, k, Holds(att[s], w) + Owed(att[s]))]
  <1>0. \A s \in Slot : Has(att[s], k, w) \in Nat /\ Due(att[s], k) \in Nat
    BY WeightTypes
  <1>1. f \in [Slot -> Nat] /\ e \in [Slot -> Nat] /\ IsFiniteSet(Slot)
    BY <1>0, CapAssumption
  <1>2. ASSUME NEW s \in Slot PROVE d[s] = f[s] + e[s] /\ d[s] \in Nat
    <2>1. Holds(att[s], w) \in Nat /\ Owed(att[s]) \in Nat
      BY WeightTypes
    <2> QED
      BY <2>1 DEF OnKey, Has, Due
  <1>3. d \in [Slot -> Nat]
    BY <1>2
  <1> HIDE DEF f, e, d
  <1>4. SumFunction(d) = SumFunction(f) + SumFunction(e)
    BY <1>1, <1>2, <1>3, SumAdd
  <1> QED
    BY <1>4 DEF AllHeld, AllDue, f, e, d

(* The windows, the log and the histories after a roll.                    *)
LEMMA RollFacts ==
  ASSUME CostTyped, Roll
  PROVE  \E ws \in SUBSET Window :
           /\ now' \in [Window -> Nat \ {0}]
           /\ spent' \in Money /\ leaked' \in Money /\ excused' \in Money
           /\ \A w \in Window : now[w] <= now'[w]
           /\ \A w \in ws : now[w] < now'[w]
           /\ \A w \in Window \ ws : now'[w] = now[w]
           /\ \A k \in Key : \A w \in ws :
                spent'[k][w] = 0 /\ leaked'[k][w] = 0
                /\ excused'[k][w] = AllHeld(att, k, w) + AllDue(att, k)
           /\ \A k \in Key : \A w \in Window \ ws :
                spent'[k][w] = spent[k][w] /\ leaked'[k][w] = leaked[k][w]
                /\ excused'[k][w] = excused[k][w]
  <1>1. PICK ws \in {{"daily"}, Window} :
          /\ now' = [w \in Window |-> IF w \in ws THEN now[w] + 1 ELSE now[w]]
          /\ spent' = [k \in Key |-> [w \in Window |-> IF w \in ws THEN 0 ELSE spent[k][w]]]
          /\ leaked' = [k \in Key |-> [w \in Window |-> IF w \in ws THEN 0 ELSE leaked[k][w]]]
          /\ excused' = [k \in Key |-> [w \in Window |->
               IF w \in ws THEN SumFunction([s \in Slot |-> OnKey(s, k, Holds(att[s], w) + Owed(att[s]))])
               ELSE excused[k][w]]]
    BY Zenon DEF Roll
  <1>2. ws \in SUBSET Window
    BY DEF Window
  <1>3. /\ now \in [Window -> Nat \ {0}] /\ spent \in Money /\ leaked \in Money /\ excused \in Money
        /\ att \in [Slot -> AttState]
    BY DEF CostTyped
  <1>4. /\ now' \in [Window -> Nat \ {0}] /\ \A w \in Window : now[w] <= now'[w]
        /\ \A w \in ws : now[w] < now'[w]
        /\ \A w \in Window \ ws : now'[w] = now[w]
    BY <1>1, <1>2, <1>3
  <1>5. /\ spent' \in Money /\ leaked' \in Money
        /\ \A k \in Key : \A w \in ws : spent'[k][w] = 0 /\ leaked'[k][w] = 0
        /\ \A k \in Key : \A w \in Window \ ws :
             spent'[k][w] = spent[k][w] /\ leaked'[k][w] = leaked[k][w]
    BY <1>1, <1>2, <1>3 DEF Money
  <1>6. \A k \in Key : \A w \in Window :
          excused'[k][w] = (IF w \in ws THEN AllHeld(att, k, w) + AllDue(att, k) ELSE excused[k][w])
    BY <1>1, <1>3, CarriedOver
  <1>7. excused' \in Money
    <2>1. \A k \in Key : \A w \in Window : AllHeld(att, k, w) \in Nat /\ AllDue(att, k) \in Nat
      BY <1>3, SumTypes
    <2>2. \A k \in Key : \A w \in Window : excused'[k][w] \in Nat
      BY <1>3, <1>6, <2>1 DEF Money
    <2> QED
      BY <1>1, <2>2 DEF Money
  <1>8. /\ \A k \in Key : \A w \in ws :
             spent'[k][w] = 0 /\ leaked'[k][w] = 0
             /\ excused'[k][w] = AllHeld(att, k, w) + AllDue(att, k)
        /\ \A k \in Key : \A w \in Window \ ws :
             spent'[k][w] = spent[k][w] /\ leaked'[k][w] = leaked[k][w]
             /\ excused'[k][w] = excused[k][w]
    BY <1>2, <1>5, <1>6
  <1> QED
    BY <1>2, <1>4, <1>5, <1>7, <1>8

(* The end of a window.                                                    *)
LEMMA RollKeeps ==
  ASSUME CostInv, plan' = plan, Roll
  PROVE  CostInv'
  <1>1. CostTyped /\ StampsPast /\ AttemptsSound /\ plan \in Plan
    BY DEF CostInv, CostTyped
  <1>2. PICK ws \in SUBSET Window :
           /\ now' \in [Window -> Nat \ {0}]
           /\ spent' \in Money /\ leaked' \in Money /\ excused' \in Money
           /\ \A w \in Window : now[w] <= now'[w]
           /\ \A w \in ws : now[w] < now'[w]
           /\ \A w \in Window \ ws : now'[w] = now[w]
           /\ \A k \in Key : \A w \in ws :
                spent'[k][w] = 0 /\ leaked'[k][w] = 0
                /\ excused'[k][w] = AllHeld(att, k, w) + AllDue(att, k)
           /\ \A k \in Key : \A w \in Window \ ws :
                spent'[k][w] = spent[k][w] /\ leaked'[k][w] = leaked[k][w]
                /\ excused'[k][w] = excused[k][w]
    BY <1>1, RollFacts
  <1>3. UNCHANGED <<key, cache, att>>
    BY DEF Roll
  <1>4. /\ KeyWin' = KeyWin /\ KeyCap' = KeyCap /\ ProjWin' = ProjWin /\ ProjCap' = ProjCap
        /\ MaxCost' = MaxCost /\ Slack' = Slack
    BY DEF KeyWin, KeyCap, ProjWin, ProjCap, MaxCost, Slack
  <1>5. /\ now \in [Window -> Nat \ {0}] /\ key \in Counters /\ att \in [Slot -> AttState]
        /\ KeyWin \in [Key -> SUBSET Window] /\ KeyCap \in [Key -> [Window -> Nat]]
        /\ ProjWin \subseteq Window /\ ProjCap \in [Window -> Nat]
        /\ spent \in Money /\ leaked \in Money /\ excused \in Money
    BY <1>1, PlanFacts DEF CostTyped
  <1>6. CostTyped'
    BY <1>1, <1>2, <1>3 DEF CostTyped
  <1>7. StampsPast'
    <2>1. \A k \in Key, w \in Window : key[k].stamp[w] \in Nat
      BY <1>5 DEF Counters
    <2> QED
      BY <1>1, <1>2, <1>3, <1>5, <2>1 DEF StampsPast
  <1>8. AttemptsSound'
    <2> SUFFICES ASSUME NEW s \in Slot PROVE Sound(att[s])'
      BY DEF AttemptsSound
    <2>1. att[s] \in AttState /\ Sound(att[s]) /\ att'[s] = att[s]
      BY <1>1, <1>3, <1>5 DEF AttemptsSound
    <2>2. \A w \in Window : att[s].at[w] <= now'[w]
      <3>1. \A w \in Window : att[s].at[w] \in Nat /\ att[s].at[w] <= now[w]
        BY <2>1 DEF AttState, Sound
      <3> QED
        BY <1>2, <1>5, <3>1
    <2> QED
      BY <1>4, <2>1, <2>2 DEF Sound
  <1>9. \E s \in Slot : TRUE
    BY CapAssumption
  <1>10. PICK s \in Slot : TRUE
    BY <1>9
  <1>11. \A t \in Slot : att[t].est <= MaxCost
    BY <1>1 DEF AttemptsSound, Sound
  <1>12. ASSUME NEW k \in Key, NEW w \in KeyWin[k]
         PROVE  Covers(k, w)' /\ Bounded(k, w)' /\ KeyBelow(k, w)'
    <2>0. w \in Window /\ KeyCap[k][w] \in Nat /\ Slack \in Nat
      BY <1>1, <1>5, <1>10, <1>11, SlackBound
    <2>1. /\ AllHeld(att, k, w) \in Nat /\ AllDue(att, k) \in Nat
          /\ AllToday(att, k, w, now'[w]) \in Nat
      BY <1>5, <2>0, SumTypes
    <2>2. CASE w \in ws
      <3>1. FreshNow(k, w)' = 0
        <4>1. key[k].stamp[w] \in Nat /\ now[w] \in Nat /\ now'[w] \in Nat /\ key[k].stamp[w] <= now[w]
          BY <1>1, <1>2, <1>5, <2>0 DEF Counters, StampsPast
        <4>2. key'[k].stamp[w] # now'[w]
          BY <1>2, <1>3, <2>2, <4>1
        <4> QED
          BY <4>2 DEF FreshNow
      <3>2. spent'[k][w] = 0 /\ leaked'[k][w] = 0
            /\ excused'[k][w] = AllHeld(att, k, w) + AllDue(att, k)
        BY <1>2, <2>2
      <3>3. spent'[k][w] + AllHeld(att, k, w) <= FreshNow(k, w)' + excused'[k][w]
        BY <2>1, <3>1, <3>2
      <3>4. FreshNow(k, w)' <= spent'[k][w] + AllToday(att, k, w, now'[w]) + leaked'[k][w]
        BY <2>1, <3>1, <3>2
      <3>5. spent'[k][w] + AllHeld(att, k, w) + AllDue(att, k) <= KeyCap[k][w] + Slack + excused'[k][w]
        BY <2>0, <2>1, <3>2
      <3> QED
        BY <1>3, <1>4, <3>3, <3>4, <3>5 DEF Covers, Bounded, KeyBelow
    <2>3. CASE w \notin ws
      <3>1. /\ now'[w] = now[w] /\ spent'[k][w] = spent[k][w] /\ leaked'[k][w] = leaked[k][w]
            /\ excused'[k][w] = excused[k][w]
        BY <1>2, <2>0, <2>3
      <3>2. FreshNow(k, w)' = FreshNow(k, w)
        BY <1>3, <3>1 DEF FreshNow
      <3>3. Covers(k, w) /\ Bounded(k, w) /\ KeyBelow(k, w)
        BY DEF CostInv
      <3> QED
        BY <1>3, <1>4, <3>1, <3>2, <3>3 DEF Covers, Bounded, KeyBelow
    <2> QED BY <2>2, <2>3
  <1>13. ASSUME NEW w \in ProjWin PROVE ProjectBelow(w)'
    <2>0. w \in Window /\ ProjCap[w] \in Nat
      BY <1>5
    <2>1. /\ Slack \in Nat /\ AllPending(att, w) <= Pending(att[s], w) + Slack
      BY <1>1, <1>5, <1>10, <1>11, <2>0, SlackBound
    <2>2. Pending(att[s], w) \in Nat /\ AllPending(att, w) \in Nat
      BY <1>5, <2>0, WeightTypes, SumTypes
    <2>3. Pending(att[s], w) <= ProjCap[w]
      BY <1>1 DEF AttemptsSound, Sound
    <2>4. IsFiniteSet(Key) /\ OverKeys(excused', w) \in Nat
      <3>1. [k \in Key |-> excused'[k][w]] \in [Key -> Nat] /\ IsFiniteSet(Key)
        BY <1>2, <2>0, CapAssumption DEF Money
      <3>2. SumFunction([k \in Key |-> excused'[k][w]]) \in Nat
        BY <3>1, SumType, Zenon
      <3> QED BY <3>1, <3>2 DEF OverKeys
    <2>5. CASE w \in ws
      <3>1. [k \in Key |-> spent'[k][w]] = [k \in Key |-> 0]
        BY <1>2, <2>5
      <3>2. SumFunction([k \in Key |-> 0]) = 0
        BY <2>4, SumZero
      <3>3. OverKeys(spent', w) = 0
        BY <3>1, <3>2 DEF OverKeys
      <3>4. OverKeys(spent', w) + AllPending(att, w) <= ProjCap[w] + Slack + OverKeys(excused', w)
        BY <2>0, <2>1, <2>2, <2>3, <2>4, <3>3
      <3> QED
        BY <1>3, <1>4, <3>4 DEF ProjectBelow
    <2>6. CASE w \notin ws
      <3>1. /\ [k \in Key |-> spent'[k][w]] = [k \in Key |-> spent[k][w]]
            /\ [k \in Key |-> excused'[k][w]] = [k \in Key |-> excused[k][w]]
        BY <1>2, <2>0, <2>6
      <3>2. OverKeys(spent', w) = OverKeys(spent, w) /\ OverKeys(excused', w) = OverKeys(excused, w)
        BY <3>1 DEF OverKeys
      <3>3. ProjectBelow(w)
        BY DEF CostInv
      <3> QED
        BY <1>3, <1>4, <3>2, <3>3 DEF ProjectBelow
    <2> QED BY <2>5, <2>6
  <1> QED
    BY <1>4, <1>6, <1>7, <1>8, <1>12, <1>13 DEF CostInv

(* Nothing but the invariant's variables matters.                          *)
LEMMA StillKeeps ==
  ASSUME CostInv, UNCHANGED <<plan, now, key, spent, leaked, excused, att>>,
         cache' \in CacheType
  PROVE  CostInv'
  BY DEF CostInv, CostTyped, CacheType, StampsPast, AttemptsSound, Sound, Covers, Bounded, KeyBelow,
    ProjectBelow, Slack, FreshNow, KeyWin, KeyCap, ProjWin, ProjCap, MaxCost

(* Every step of the cost guard keeps the invariant.                       *)
LEMMA CostSteps ==
  ASSUME CostInv, [Next]_vars
  PROVE  CostInv'
  <1>1. CASE UNCHANGED vars
    <2>1. cache \in CacheType
      BY DEF CostInv, CostTyped, CacheType
    <2> QED
      BY <1>1, <2>1, StillKeeps DEF vars
  <1>2. CASE Next
    <2>0. plan' = plan
      BY <1>2 DEF Next
    <2>1. CASE Roll
      BY <2>0, <2>1, RollKeeps
    <2>2. CASE CacheExpires
      <3>1. cache' = [cache EXCEPT !.live = FALSE] /\ UNCHANGED <<now, key, spent, leaked, excused, att>>
        BY <2>2 DEF CacheExpires, hist
      <3>2. cache \in CacheType
        BY DEF CostInv, CostTyped, CacheType
      <3>3. cache' \in CacheType
        BY <3>1, <3>2 DEF CacheType
      <3> QED
        BY <2>0, <3>1, <3>3, StillKeeps
    <2>3. ASSUME NEW s \in Slot, Step(s) PROVE CostInv'
      <3>1. CASE Pick(s)
        BY <2>0, <3>1, PickKeeps
      <3>2. CASE Reserve(s)
        BY <2>0, <3>2, ReserveKeeps
      <3>3. CASE ReserveRefused(s)
        BY <2>0, <3>3, RefusedKeeps
      <3>4. CASE ReserveDies(s)
        BY <2>0, <3>4, ReserveDiesKeeps
      <3>5. CASE CheckProject(s)
        BY <2>0, <3>5, ProjectKeeps
      <3>6. CASE CheckGlobal(s)
        BY <2>0, <3>6, GlobalKeeps
      <3>7. CASE Undo(s) \/ CheckDies(s) \/ Release(s)
        BY <2>0, <3>7, RefundKeeps
      <3>8. CASE Call(s)
        BY <2>0, <3>8, CallKeeps
      <3>9. CASE ReleaseCancelled(s)
        BY <2>0, <3>9, CancelKeeps
      <3>10. CASE Book(s) \/ BookUnacked(s)
        BY <2>0, <3>10, BookKeeps
      <3>11. CASE BookFails(s) \/ BookCancelled(s)
        BY <2>0, <3>11, BookFailsKeeps
      <3> QED
        BY <2>3, <3>1, <3>2, <3>3, <3>4, <3>5, <3>6, <3>7, <3>8, <3>9, <3>10, <3>11 DEF Step
    <2> QED
      BY <1>2, <2>1, <2>2, <2>3 DEF Next
  <1> QED
    BY <1>1, <1>2

(* It holds at the start, when nothing is booked, reserved or owed.        *)
LEMMA CostStart == Init => CostInv
  <1> SUFFICES ASSUME Init PROVE CostInv
    OBVIOUS
  <1>1. /\ plan \in Plan /\ Over \in AttState /\ NoWindow \in [Window -> Nat]
        /\ \A w \in Window : NoWindow[w] = 0
    BY CapAssumption, OverType DEF Init, NoWindow
  <1>2. /\ now = [w \in Window |-> 1] /\ att = [s \in Slot |-> Over]
        /\ key = [k \in Key |-> [used |-> NoWindow, stamp |-> NoWindow]]
        /\ spent = NoMoney /\ leaked = NoMoney /\ excused = NoMoney
        /\ cache = [val |-> 0, live |-> FALSE]
    BY DEF Init
  <1>3. NoMoney \in Money /\ \A k \in Key, w \in Window : NoMoney[k][w] = 0
    BY DEF NoMoney, Money
  <1>4. CostTyped
    BY <1>1, <1>2, <1>3 DEF CostTyped, Counters
  <1>5. \A k \in Key, w \in Window : key[k].stamp[w] = 0 /\ key[k].used[w] = 0
    BY <1>1, <1>2
  <1>6. StampsPast /\ \A k \in Key, w \in Window : FreshNow(k, w) = 0
    BY <1>2, <1>5 DEF StampsPast, FreshNow
  <1>7. /\ Sound(Over) /\ Weightless(Over)
    BY <1>1, <1>4, OverSound
  <1>8. AttemptsSound
    BY <1>2, <1>7 DEF AttemptsSound
  <1>9. /\ KeyWin \in [Key -> SUBSET Window] /\ KeyCap \in [Key -> [Window -> Nat]]
        /\ ProjWin \subseteq Window /\ ProjCap \in [Window -> Nat]
    BY <1>1, PlanFacts
  <1>10. Slack \in Nat
    <2>1. \A s \in Slot : att[s].est <= MaxCost
      BY <1>8 DEF AttemptsSound, Sound
    <2> QED
      BY <1>1, <1>4, <2>1, CapAssumption, SlackBound DEF CostTyped, Window
  <1>11. \A k \in Key, w \in Window :
           /\ AllHeld(att, k, w) = 0 /\ AllDue(att, k) = 0 /\ AllPending(att, w) = 0
           /\ AllToday(att, k, w, now[w]) \in Nat
    <2> SUFFICES ASSUME NEW k \in Key, NEW w \in Window
                 PROVE  /\ AllHeld(att, k, w) = 0 /\ AllDue(att, k) = 0 /\ AllPending(att, w) = 0
                        /\ AllToday(att, k, w, now[w]) \in Nat
      OBVIOUS
    <2>1. Has(Over, k, w) = 0 /\ Due(Over, k) = 0 /\ Pending(Over, w) = 0
      BY <1>1, <1>4, <1>7, LightFacts DEF Weightless, Due
    <2>2. /\ [s \in Slot |-> Has(att[s], k, w)] = [s \in Slot |-> 0]
          /\ [s \in Slot |-> Due(att[s], k)] = [s \in Slot |-> 0]
          /\ [s \in Slot |-> Pending(att[s], w)] = [s \in Slot |-> 0]
      BY <1>2, <2>1
    <2>3. SumFunction([s \in Slot |-> 0]) = 0
      BY CapAssumption, SumZero
    <2>4. AllToday(att, k, w, now[w]) \in Nat
      BY <1>4, SumTypes DEF CostTyped
    <2> QED
      BY <2>2, <2>3, <2>4 DEF AllHeld, AllDue, AllPending
  <1>12. ASSUME NEW k \in Key, NEW w \in KeyWin[k]
         PROVE  Covers(k, w) /\ Bounded(k, w) /\ KeyBelow(k, w)
    <2>1. w \in Window /\ KeyCap[k][w] \in Nat
      BY <1>9
    <2>2. /\ spent[k][w] = 0 /\ leaked[k][w] = 0 /\ excused[k][w] = 0 /\ FreshNow(k, w) = 0
          /\ AllHeld(att, k, w) = 0 /\ AllDue(att, k) = 0 /\ AllToday(att, k, w, now[w]) \in Nat
      BY <1>2, <1>3, <1>6, <1>11, <2>1
    <2> QED
      BY <1>10, <2>1, <2>2 DEF Covers, Bounded, KeyBelow
  <1>13. ASSUME NEW w \in ProjWin PROVE ProjectBelow(w)
    <2>1. w \in Window /\ ProjCap[w] \in Nat
      BY <1>9
    <2>2. [k \in Key |-> NoMoney[k][w]] = [k \in Key |-> 0]
      BY <1>3, <2>1
    <2>3. OverKeys(spent, w) = 0 /\ OverKeys(excused, w) = 0
      BY <1>2, <2>2, CapAssumption, SumZero DEF OverKeys
    <2>4. AllPending(att, w) = 0
      <3>1. [s \in Slot |-> Pending(att[s], w)] = [s \in Slot |-> 0]
        BY <1>2, <1>7, <2>1 DEF Weightless
      <3> QED
        BY <3>1, CapAssumption, SumZero DEF AllPending
    <2> QED
      BY <1>10, <2>1, <2>3, <2>4 DEF ProjectBelow
  <1> QED
    BY <1>4, <1>6, <1>8, <1>12, <1>13 DEF CostInv

(* What the invariant says of the counters, in the terms of the run.       *)
LEMMA CostAnswers ==
  ASSUME CostInv, plan \in Plans
  PROVE  CountersAnswer
  <1>1. CostTyped /\ plan \in Plan /\ att \in [Slot -> AttState] /\ AttemptsSound
    BY DEF CostInv, CostTyped
  <1>2. /\ now \in [Window -> Nat \ {0}]
        /\ KeyWin \in [Key -> SUBSET Window] /\ KeyCap \in [Key -> [Window -> Nat]]
        /\ ProjWin \subseteq Window /\ ProjCap \in [Window -> Nat]
    BY <1>1, PlanFacts DEF CostTyped
  <1>3. TypeOK
    BY <1>1 DEF CostTyped, Counters, TypeOK
  <1>4. \A t \in Slot : att[t].est <= MaxCost
    BY <1>1 DEF AttemptsSound, Sound
  <1>5. PICK s \in Slot : TRUE
    BY CapAssumption
  <1>6. ASSUME NEW k \in Key, NEW w \in Window
        PROVE  /\ Held(k, w) = AllToday(att, k, w, now[w])
               /\ AllToday(att, k, w, now[w]) <= AllHeld(att, k, w)
    <2> DEFINE f == [t \in Slot |-> Today(att[t], k, w, now[w])]
               e == [t \in Slot |-> Has(att[t], k, w)]
               h == [t \in Slot |-> OnKey(t, k, IF att[t].hold[w] = now[w] THEN att[t].est ELSE 0)]
    <2>1. h = f
      BY DEF OnKey, Today
    <2>2. \A t \in Slot : Today(att[t], k, w, now[w]) \in Nat /\ Has(att[t], k, w) \in Nat /\ att[t].est \in Nat
      BY <1>1, WeightTypes
    <2>3. f \in [Slot -> Nat] /\ e \in [Slot -> Nat] /\ IsFiniteSet(Slot)
      BY <2>2, CapAssumption
    <2>4. \A t \in Slot : f[t] <= e[t]
      BY <1>2, <2>2 DEF Today, Has, Holds
    <2>5. Held(k, w) = SumFunction(h)
      BY DEF Held
    <2> HIDE DEF f, e, h
    <2>6. SumFunction(f) <= SumFunction(e)
      BY <2>3, <2>4, SumMono
    <2> QED
      BY <2>1, <2>5, <2>6 DEF AllToday, AllHeld, f, e
  <1>7. ASSUME NEW k \in Key, NEW w \in KeyWin[k]
        PROVE  /\ Fresh(k, w, now) + excused[k][w] >= spent[k][w] + Held(k, w)
               /\ Fresh(k, w, now) <= spent[k][w] + Held(k, w) + leaked[k][w]
               /\ spent[k][w] <= KeyCap[k][w] + (Cardinality(Slot) - 1) * MaxCost + excused[k][w]
    <2>0. w \in Window /\ KeyCap[k][w] \in Nat /\ Slack \in Nat
      BY <1>1, <1>2, <1>4, <1>5, SlackBound
    <2>1. /\ FreshNow(k, w) \in Nat /\ spent[k][w] \in Nat /\ leaked[k][w] \in Nat
          /\ excused[k][w] \in Nat
      BY <1>1, <2>0, FreshType
    <2>2. /\ AllToday(att, k, w, now[w]) \in Nat /\ AllHeld(att, k, w) \in Nat /\ AllDue(att, k) \in Nat
      BY <1>1, <2>0, SumTypes
    <2>3. Held(k, w) = AllToday(att, k, w, now[w]) /\ AllToday(att, k, w, now[w]) <= AllHeld(att, k, w)
      BY <1>6, <2>0
    <2>4. Covers(k, w) /\ Bounded(k, w) /\ KeyBelow(k, w)
      BY DEF CostInv
    <2>5. Fresh(k, w, now) = FreshNow(k, w)
      BY DEF Fresh, FreshNow
    <2>6. spent[k][w] <= KeyCap[k][w] + Slack + excused[k][w]
      BY <2>0, <2>1, <2>2, <2>4 DEF KeyBelow
    <2> QED
      BY <2>1, <2>2, <2>3, <2>4, <2>5, <2>6 DEF Covers, Bounded, Slack
  <1>8. ASSUME NEW w \in ProjWin
        PROVE  Project(w) <= ProjCap[w] + (Cardinality(Slot) - 1) * MaxCost
                               + SumFunction([k \in Key |-> excused[k][w]])
    <2>0. w \in Window /\ ProjCap[w] \in Nat /\ Slack \in Nat
      BY <1>1, <1>2, <1>4, <1>5, SlackBound
    <2>1. Project(w) = OverKeys(spent, w) /\ Project(w) \in Nat
      BY <1>1, <2>0, ProjectType
    <2>2. AllPending(att, w) \in Nat
      BY <1>1, <2>0, SumTypes
    <2>3. OverKeys(excused, w) \in Nat
      <3>1. [k \in Key |-> excused[k][w]] \in [Key -> Nat] /\ IsFiniteSet(Key)
        BY <1>1, <2>0, CapAssumption DEF CostTyped, Money
      <3>2. SumFunction([k \in Key |-> excused[k][w]]) \in Nat
        BY <3>1, SumType, Zenon
      <3> QED BY <3>2 DEF OverKeys
    <2>4. ProjectBelow(w)
      BY DEF CostInv
    <2>5. Project(w) <= ProjCap[w] + Slack + OverKeys(excused, w)
      BY <2>0, <2>1, <2>2, <2>3, <2>4 DEF ProjectBelow
    <2> QED
      BY <2>5 DEF Slack, OverKeys
  <1>9. NothingMissed /\ NothingInvented /\ KeyOvershoot
    BY <1>7 DEF NothingMissed, NothingInvented, KeyOvershoot
  <1>10. ProjectOvershoot
    BY <1>8 DEF ProjectOvershoot
  <1> QED
    BY <1>3, <1>9, <1>10 DEF CountersAnswer

(* The counters answer for the money, for every number of attempts, every  *)
(* set of keys, all caps, estimates and costs, and whatever is lost, late  *)
(* or repeated on the way (routing/cost_guard.py, services/attempt.py):    *)
(* they miss nothing, invent nothing, and the caps are overshot by one     *)
(* estimate per other attempt at most.                                     *)
THEOREM CountersAnswerAlways == SpecAll => []CountersAnswer
  <1>1. InitAll => CostInv /\ plan \in Plans
    BY CostStart DEF InitAll, Init
  <1>2. (CostInv /\ plan \in Plans) /\ [NextAll]_allVars => (CostInv /\ plan \in Plans)'
    <2> SUFFICES ASSUME CostInv, plan \in Plans, [NextAll]_allVars
                 PROVE  (CostInv /\ plan \in Plans)'
      OBVIOUS
    <2>1. [Next]_vars
      BY DEF NextAll, Guarding, Counting, Seeing, allVars
    <2>2. plan' = plan
      BY <2>1 DEF Next, vars
    <2> QED
      BY <2>1, <2>2, CostSteps
  <1>3. CostInv /\ plan \in Plans => CountersAnswer
    BY CostAnswers
  <1> QED
    BY <1>1, <1>2, <1>3, PTL DEF SpecAll
=============================================================================
