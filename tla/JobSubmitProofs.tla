--------------------------- MODULE JobSubmitProofs ---------------------------
(***************************************************************************)
(* What a submission promises, for any number of requests, keys, payloads, *)
(* accounts and caps, however their sessions interleave with one another,  *)
(* with the retention sweep and with the owner's edits; what the table of  *)
(* projects promises under sign-ups, owners' forms and clients; and that   *)
(* what a worker remembers between requests is true when it is used.       *)
(***************************************************************************)
EXTENDS MCFrontEnd, FiniteSetTheorems, SequenceTheorems, Sums, TLAPS

-----------------------------------------------------------------------------
(* The inductive invariant.                                                *)

(* A request is charged at most once, and one of /v1/jobs that is past the *)
(* cap was charged or met no cap.                                          *)
ChargeOnce(q) ==
  /\ q.phase \in {"idle", "known", "admit", "recheck"} => ~ q.paid /\ ~ q.free
  /\ q.lane = "agent" /\ q.phase # "done" => ~ q.paid /\ ~ q.free
  /\ q.lane \in JobsApi /\ q.phase \in {"find", "insert", "race"} => q.paid # q.free
  /\ q.ans = "ran" => q.paid # q.free

(* What a request knows in each phase.                                     *)
Filled(q) ==
  /\ q.phase # "done" => q.ans = "none"
  /\ q.phase # "idle" => q.payload \in Payload
  /\ q.phase = "dup" => q.lane = "agent"
  /\ q.phase = "known" => q.lane \in JobsApi
  /\ q.lane = "sync" => q.key = None
  /\ q.lane = "sub" /\ q.key = None /\ q.phase \in {"admit", "recheck", "find", "insert", "race"}
       => q.acct \in Account
  /\ q.base <= Len(jobs) /\ q.since <= Len(jobs)

(* The job a caller of /v1/jobs is given, or is about to be.               *)
OwnJob(q) ==
  (q.phase = "replay" \/ q.ans \in {"created", "dedup", "replay"}) /\ q.lane \in JobsApi =>
    /\ q.job \in 1 .. Len(jobs)
    /\ jobs[q.job].lane = q.lane /\ jobs[q.job].payload = q.payload
    /\ q.key # None => jobs[q.job].jkey = q.key

InFlight(i, h) == jobs[i].here /\ jobs[i].live /\ jobs[i].fresh /\ jobs[i].hash = h

(* A request about to insert has seen no row of its hash in flight among   *)
(* those that were there when it looked; rows only leave that state.       *)
Looked(q) ==
  q.phase \in {"insert", "race"} /\ (q.lane = "agent" \/ q.key = None) =>
    \A i \in 1 .. Len(jobs) : i <= q.since => ~ InFlight(i, PayloadHash(q))

(* A keyed request was turned away only with no row of its key among those *)
(* that were there when it began.                                          *)
TurnedAway(q) ==
  q.ans = "refused" /\ q.key # None =>
    \A j \in 1 .. Len(jobs) : j <= q.base => ~ (jobs[j].here /\ jobs[j].jkey = q.key)

RequestOK(q) == ChargeOnce(q) /\ Filled(q) /\ OwnJob(q) /\ Looked(q) /\ TurnedAway(q)

(* The request has inserted its row if it ever will.                       *)
Passed(q) == q.phase = "done" \/ (q.phase \in {"admit", "recheck"} /\ q.lane = "agent")

(* The request a row belongs to.                                           *)
ByOwner(j) ==
  /\ Passed(req[jobs[j].by]) /\ req[jobs[j].by].lane = jobs[j].lane
  /\ jobs[j].lane \in JobsApi => req[jobs[j].by].paid # req[jobs[j].by].free

(* What a row's hash says of its entry point and payload.                  *)
HashTrue(j) ==
  IF jobs[j].lane = "sub" /\ jobs[j].jkey = None
  THEN \E a \in Account : jobs[j].hash = <<"run", jobs[j].payload, a>>
  ELSE jobs[j].hash = <<jobs[j].lane, jobs[j].payload>>

Collapsed(j) ==
  /\ jobs[j].since < j
  /\ jobs[j].jkey = None =>
       \A i \in 1 .. Len(jobs) : i <= jobs[j].since => ~ InFlight(i, jobs[j].hash)

RowOK(j) == ByOwner(j) /\ HashTrue(j) /\ Collapsed(j)

(* The unique index on the key.                                            *)
KeysUnique ==
  \A i, j \in 1 .. Len(jobs) :
    i < j /\ jobs[i].jkey # None /\ jobs[i].jkey = jobs[j].jkey => ~ jobs[i].here

(* Every request inserts at most one row, and is charged at most once.     *)
Owners == {jobs[j].by : j \in 1 .. Len(jobs)}
Charged == {r \in Request : req[r].paid}
Counted == Len(jobs) = Cardinality(Owners) /\ used = Cardinality(Charged)

SubmitInv ==
  /\ TypeOK
  /\ \A r \in Request : RequestOK(req[r])
  /\ \A j \in 1 .. Len(jobs) : RowOK(j)
  /\ KeysUnique
  /\ Counted

-----------------------------------------------------------------------------
(* Operators.                                                              *)

(* The newest of some rows is one of them: a finite set of numbers has a   *)
(* greatest element, as strict inclusion of finite sets is well-founded.   *)
LEMMA NewestIn ==
  ASSUME NEW n \in Nat, NEW S \in SUBSET (1 .. n), S # {}
  PROVE  Newest(S) \in S
  <1> DEFINE Up(i) == {j \in S : i <= j}
             T == {Up(i) : i \in S}
  <1>1. IsFiniteSet(1 .. n)
    BY FS_Interval
  <1>1a. IsFiniteSet(S)
    BY <1>1, FS_Subset
  <1>2. T \subseteq FiniteSubsetsOf(S)
    <2>1. \A i \in S : Up(i) \in SUBSET S
      OBVIOUS
    <2>2. FiniteSubsetsOf(S) = SUBSET S
      BY <1>1a, FS_FiniteSubsetsOfFinite
    <2> QED
      BY <2>1, <2>2
  <1>3. T # {}
    OBVIOUS
  <1>4. PICK x \in T : \A y \in T : ~ (<<y, x>> \in StrictSubsetOrdering(S))
    <2>1. IsWellFoundedOn(StrictSubsetOrdering(S), FiniteSubsetsOf(S))
      BY FS_StrictSubsetOrderingWellFounded
    <2> HIDE DEF T
    <2> QED
      BY <1>2, <1>3, <2>1, WFMin
  <1>5. PICK i \in S : x = Up(i)
    BY <1>4
  <1>6. \A j \in S : j <= i
    <2> SUFFICES ASSUME NEW j \in S, ~ (j <= i) PROVE FALSE
      OBVIOUS
    <2>1. i \in Int /\ j \in Int
      OBVIOUS
    <2>2. \A k \in S : j <= k => i <= k
      BY <2>1
    <2>2a. Up(j) \subseteq Up(i)
      BY <2>2
    <2>2b. i <= i
      BY <2>1
    <2>2c. i \in Up(i) /\ i \notin Up(j)
      BY <2>2b
    <2>3. Up(j) \in T /\ Up(j) \in SUBSET S /\ Up(i) \in SUBSET S
      OBVIOUS
    <2>4. <<Up(j), Up(i)>> \in StrictSubsetOrdering(S)
      BY <2>2a, <2>2c, <2>3 DEF StrictSubsetOrdering
    <2> QED
      BY <1>4, <1>5, <2>3, <2>4
  <1> QED
    BY <1>6 DEF Newest

(* The table as a sequence of rows.                                        *)
LEMMA RowFacts ==
  ASSUME TypeOK
  PROVE  /\ Len(jobs) \in Nat /\ DOMAIN jobs = 1 .. Len(jobs)
         /\ \A i \in 1 .. Len(jobs) : jobs[i] \in Row
         /\ Cardinality(Request) \in Nat /\ Len(jobs) <= Cardinality(Request)
         /\ 0 \in Ids /\ Len(jobs) \in Ids /\ 1 .. Len(jobs) \subseteq Ids /\ Ids \subseteq Nat
  <1>1. /\ Len(jobs) \in Nat /\ DOMAIN jobs = 1 .. Len(jobs)
        /\ \A i \in 1 .. Len(jobs) : jobs[i] \in Row
        /\ Cardinality(Request) \in Nat /\ Len(jobs) <= Cardinality(Request)
    BY LenProperties, ElementOfSeq, FS_CardinalityType, SubmitAssumption DEF TypeOK
  <1> QED
    BY <1>1 DEF Ids

(* The state of a request whose handler has returned.                      *)
LEMMA DoneFields ==
  ASSUME TypeOK, NEW q \in ReqState, NEW ans \in Answer, NEW j \in Ids
  PROVE  /\ Done(q, ans, j) \in ReqState
         /\ Done(q, ans, j).phase = "done" /\ Done(q, ans, j).ans = ans
         /\ Done(q, ans, j).job = j /\ Done(q, ans, j).lane = q.lane
         /\ Done(q, ans, j).payload = q.payload /\ Done(q, ans, j).key = q.key
         /\ Done(q, ans, j).paid = q.paid /\ Done(q, ans, j).free = q.free
         /\ Done(q, ans, j).since = 0
         /\ Done(q, ans, j).base = IF ans = "refused" THEN q.base ELSE 0
  <1>1. 0 \in Ids /\ q.base \in Ids /\ 0 \in Nat /\ "done" \in Phase
    BY RowFacts DEF ReqState, Phase
  <1> QED
    BY <1>1 DEF Done, ReqState

(* A state of a finished request, from what is asked of its answer.        *)
LEMMA DoneRequest ==
  ASSUME TypeOK, NEW q \in ReqState, RequestOK(q), NEW ans \in Answer, NEW j \in Ids,
         ans = "ran" => q.paid # q.free,
         q.phase # "idle",
         ans \in {"created", "dedup", "replay"} /\ q.lane \in JobsApi =>
           /\ j \in 1 .. Len(jobs)
           /\ jobs[j].lane = q.lane /\ jobs[j].payload = q.payload
           /\ q.key # None => jobs[j].jkey = q.key,
         ans = "refused" /\ q.key # None =>
           \A i \in 1 .. Len(jobs) : ~ (jobs[i].here /\ jobs[i].jkey = q.key)
  PROVE  RequestOK(Done(q, ans, j))
  <1> DEFINE d == Done(q, ans, j)
  <1>1. /\ d.phase = "done" /\ d.ans = ans /\ d.job = j /\ d.lane = q.lane
        /\ d.payload = q.payload /\ d.key = q.key /\ d.paid = q.paid /\ d.free = q.free
        /\ d.since = 0 /\ d.base \in {q.base, 0}
    BY DoneFields
  <1>2. 0 <= Len(jobs) /\ q.base <= Len(jobs)
    BY RowFacts DEF RequestOK, Filled
  <1> HIDE DEF d
  <1>3. ChargeOnce(d) /\ Filled(d)
    BY <1>1, <1>2 DEF RequestOK, ChargeOnce, Filled
  <1>4. OwnJob(d) /\ Looked(d) /\ TurnedAway(d)
    BY <1>1 DEF OwnJob, Looked, TurnedAway
  <1> QED
    BY <1>3, <1>4 DEF RequestOK, d

(* The rows a lookup finds.                                                *)
LEMMA LookupIn ==
  ASSUME TypeOK, NEW q
  PROVE  /\ KeyRows(q) # {} => Newest(KeyRows(q)) \in KeyRows(q)
         /\ InFlightRows(q) # {} => Newest(InFlightRows(q)) \in InFlightRows(q)
         /\ KeyRows(q) \subseteq 1 .. Len(jobs) /\ InFlightRows(q) \subseteq 1 .. Len(jobs)
  <1>1. KeyRows(q) \subseteq 1 .. Len(jobs) /\ InFlightRows(q) \subseteq 1 .. Len(jobs)
    BY RowFacts DEF KeyRows, InFlightRows, Rows
  <1>2. Len(jobs) \in Nat
    BY RowFacts
  <1>3. KeyRows(q) # {} => Newest(KeyRows(q)) \in KeyRows(q)
    BY <1>1, <1>2, NewestIn
  <1>4. InFlightRows(q) # {} => Newest(InFlightRows(q)) \in InFlightRows(q)
    BY <1>1, <1>2, NewestIn
  <1> QED
    BY <1>1, <1>3, <1>4

(* Equal hashes are of one entry point and one payload.                    *)
LEMMA HashTells ==
  ASSUME SubmitInv, NEW q \in ReqState, NEW j \in 1 .. Len(jobs),
         jobs[j].hash = PayloadHash(q), q.lane \in JobsApi
  PROVE  jobs[j].lane = q.lane /\ jobs[j].payload = q.payload
  <1>1. HashTrue(j) /\ jobs[j] \in Row
    BY RowFacts DEF SubmitInv, RowOK
  <1>2. CASE q.lane = "sub" /\ q.key = None
    <2>1. jobs[j].hash = <<"run", q.payload, q.acct>>
      BY <1>2 DEF PayloadHash
    <2>2. CASE jobs[j].lane = "sub" /\ jobs[j].jkey = None
      BY <1>1, <1>2, <2>1, <2>2 DEF HashTrue
    <2>3. CASE ~ (jobs[j].lane = "sub" /\ jobs[j].jkey = None)
      <3>1. jobs[j].hash = <<jobs[j].lane, jobs[j].payload>>
        BY <1>1, <2>3 DEF HashTrue
      <3>2. jobs[j].hash[1] = jobs[j].lane /\ jobs[j].hash[1] = "run"
        BY <2>1, <3>1
      <3> QED
        BY <1>1, <3>2, SubmitAssumption DEF Row
    <2> QED
      BY <2>2, <2>3
  <1>3. CASE ~ (q.lane = "sub" /\ q.key = None)
    <2>1. jobs[j].hash = <<q.lane, q.payload>>
      BY <1>3 DEF PayloadHash
    <2>2. CASE jobs[j].lane = "sub" /\ jobs[j].jkey = None
      <3>1. jobs[j].hash[1] = "run" /\ jobs[j].hash[1] = q.lane
        BY <1>1, <2>1, <2>2 DEF HashTrue
      <3> QED
        BY <3>1 DEF JobsApi
    <2>3. CASE ~ (jobs[j].lane = "sub" /\ jobs[j].jkey = None)
      BY <1>1, <2>1, <2>3 DEF HashTrue
    <2> QED
      BY <2>2, <2>3
  <1> QED
    BY <1>2, <1>3

-----------------------------------------------------------------------------
(* Steps that change no row                                                *)

(* A request moves on: what has to be shown of its new state.              *)
MovesTo(r, q) ==
  /\ q \in ReqState /\ RequestOK(q)
  /\ req[r].phase # "done"
  /\ Passed(req[r]) => Passed(q) /\ q.lane = req[r].lane

(* One request's state is replaced, and charged if it is now.              *)
LEMMA MoveInv ==
  ASSUME SubmitInv, NEW r \in Request, NEW q, MovesTo(r, q), Set(r, q),
         UNCHANGED <<jobs, cap, enabled>>,
         \/ q.paid = req[r].paid /\ used' = used
         \/ q.paid /\ ~ req[r].paid /\ used' = used + 1
  PROVE  SubmitInv'
  <1>1. req' \in [Request -> ReqState] /\ req'[r] = q /\ \A s \in Request \ {r} : req'[s] = req[s]
    BY DEF SubmitInv, TypeOK, Set, MovesTo
  <1>2. used' = Cardinality(Charged') /\ used' \in 0 .. Cardinality(Request)
    <2>1. Charged \subseteq Request /\ Charged' \subseteq Request
      BY DEF Charged
    <2>2. IsFiniteSet(Charged) /\ Cardinality(Request) \in Nat
      BY <2>1, SubmitAssumption, FS_Subset, FS_CardinalityType
    <2>3. IsFiniteSet(Charged') /\ Cardinality(Charged') <= Cardinality(Request)
          /\ Cardinality(Charged') \in Nat
      BY <2>1, SubmitAssumption, FS_Subset, FS_CardinalityType
    <2>4. CASE q.paid = req[r].paid /\ used' = used
      <3>1. Charged' = Charged
        BY <1>1, <2>4 DEF Charged
      <3> QED
        BY <2>3, <2>4, <3>1 DEF SubmitInv, Counted
    <2>5. CASE q.paid /\ ~ req[r].paid /\ used' = used + 1
      <3>1. Charged' = Charged \cup {r} /\ r \notin Charged
        BY <1>1, <2>5 DEF Charged
      <3>2. Cardinality(Charged') = Cardinality(Charged) + 1
        BY <2>2, <3>1, FS_AddElement
      <3> QED
        BY <2>3, <2>5, <3>2 DEF SubmitInv, Counted
    <2> QED
      BY <2>4, <2>5
  <1>3. TypeOK' /\ Counted' /\ KeysUnique'
    BY <1>1, <1>2 DEF SubmitInv, TypeOK, Counted, Owners, KeysUnique
  <1>4. ASSUME NEW s \in Request PROVE RequestOK(req[s])'
    BY <1>1
    DEF SubmitInv, MovesTo, RequestOK, ChargeOnce, Filled, OwnJob, Looked, TurnedAway, InFlight,
        PayloadHash
  <1>5. ASSUME NEW j \in 1 .. Len(jobs) PROVE RowOK(j)'
    <2>1. HashTrue(j)' /\ Collapsed(j)'
      BY DEF SubmitInv, RowOK, HashTrue, Collapsed, InFlight
    <2>2. ByOwner(j)'
      <3>1. ByOwner(j) /\ jobs[j].by \in Request
        BY RowFacts DEF SubmitInv, RowOK, Row
      <3>2. CASE jobs[j].by # r
        BY <1>1, <3>1, <3>2 DEF ByOwner, Passed
      <3>3. CASE jobs[j].by = r
        BY <1>1, <3>1, <3>3 DEF ByOwner, Passed, MovesTo, JobsApi
      <3> QED
        BY <3>2, <3>3
    <2> QED
      BY <2>1, <2>2 DEF RowOK
  <1> QED
    BY <1>3, <1>4, <1>5 DEF SubmitInv

(* A handler that returns with an answer that names no job.                *)
LEMMA DoneOK ==
  ASSUME SubmitInv, NEW r \in Request, req[r].phase \notin {"idle", "done"},
         NEW ans \in {"conflict", "capped", "failed", "gone"}, NEW j \in Ids
  PROVE  MovesTo(r, Done(req[r], ans, j)) /\ Done(req[r], ans, j).paid = req[r].paid
  <1>1. req[r] \in ReqState /\ RequestOK(req[r])
    BY DEF SubmitInv, TypeOK
  <1>2. ans \in Answer /\ TypeOK
    BY DEF Answer, SubmitInv
  <1> QED
    BY <1>1, <1>2, DoneFields, DoneRequest DEF MovesTo, Passed

(* A key that is found: the caller's own job, or a conflict.               *)
LEMMA ReplayedOK ==
  ASSUME SubmitInv, NEW r \in Request, req[r].phase \in {"known", "find", "race"},
         req[r].lane \in JobsApi, KeyRows(req[r]) # {}, NEW x
  PROVE  /\ MovesTo(r, Replayed(req[r], x))
         /\ Replayed(req[r], x).paid = req[r].paid
  <1> DEFINE q == req[r]
             j == Newest(KeyRows(q))
  <1>1. q \in ReqState /\ RequestOK(q) /\ j \in 1 .. Len(jobs) /\ j \in KeyRows(q)
    BY LookupIn DEF SubmitInv, TypeOK
  <1>2. q.key # None /\ jobs[j].jkey = q.key /\ j \in Ids
    BY <1>1, RowFacts DEF SubmitInv, KeyRows, JobsApi
  <1>3. CASE jobs[j].hash = PayloadHash(q)
    <2>1. jobs[j].lane = q.lane /\ jobs[j].payload = q.payload
      BY <1>1, <1>3, HashTells
    <2> DEFINE t == [Goto(q, "replay") EXCEPT !.job = j]
    <2>2. Replayed(q, x) = t
      BY <1>3 DEF Replayed
    <2>3. t \in ReqState /\ t.paid = q.paid
      BY <1>1, <1>2 DEF Goto, ReqState, Phase
    <2>4. RequestOK(t)
      BY <1>1, <1>2, <2>1
      DEF Goto, ReqState, RequestOK, ChargeOnce, Filled, OwnJob, Looked, TurnedAway, JobsApi
    <2> QED
      BY <1>1, <2>2, <2>3, <2>4 DEF MovesTo, Passed, Goto, ReqState
  <1>4. CASE jobs[j].hash # PayloadHash(q)
    <2>1. Replayed(q, x) = Done(q, "conflict", j)
      BY <1>4 DEF Replayed
    <2> QED
      BY <1>2, <2>1, DoneOK
  <1> QED
    BY <1>3, <1>4

(* A request begins with the project's row as it is.                       *)
LEMMA BeginInv ==
  ASSUME SubmitInv, NEW r \in Request, Begin(r)
  PROVE  SubmitInv'
  <1>1. PICK l \in Lane, p \in Payload, k \in Key \cup {None} :
          (l = "sync" => k = None) /\ Set(r, [Idle EXCEPT !.lane = l, !.payload = p, !.key = k, !.base = Len(jobs),
                              !.capped = cap # NoCap, !.spent = used,
                              !.phase = CASE l \in JobsApi -> "known"
                                          [] l = "agent"   -> "find"
                                          [] l = "sync"    -> "admit"])
    BY DEF Begin
  <1>2. PICK ph \in {"known", "find", "admit"} :
          /\ ph = CASE l \in JobsApi -> "known" [] l = "agent" -> "find" [] l = "sync" -> "admit"
          /\ ph = "known" => l \in JobsApi
          /\ ph = "find" => l = "agent"
          /\ ph = "admit" => l = "sync"
    BY SubmitAssumption DEF JobsApi
  <1> DEFINE q == [Idle EXCEPT !.lane = l, !.payload = p, !.key = k, !.base = Len(jobs),
                               !.capped = cap # NoCap, !.spent = used, !.phase = ph]
  <1>3. Idle \in ReqState
    BY SubmitAssumption, FS_CardinalityType DEF Idle, ReqState, Phase, Answer, Ids
  <1>4. q \in ReqState
    <2>1. /\ ph \in Phase /\ Len(jobs) \in Ids /\ used \in Nat /\ (cap # NoCap) \in BOOLEAN
          /\ k \in Key \cup {None} /\ p \in Payload \cup {None}
      BY RowFacts DEF Phase, SubmitInv, TypeOK
    <2> QED
      BY <1>3, <2>1 DEF ReqState
  <1>5. /\ q.phase = ph /\ q.lane = l /\ q.payload = p /\ q.key = k /\ q.base = Len(jobs)
        /\ q.ans = "none" /\ ~ q.paid /\ ~ q.free /\ q.since = 0
    BY DEF Idle
  <1>6. RequestOK(q)
    <2>1. 0 <= Len(jobs) /\ Len(jobs) <= Len(jobs)
      BY RowFacts DEF SubmitInv
    <2> HIDE DEF q
    <2> QED
      BY <1>1, <1>2, <1>5, <2>1
      DEF RequestOK, ChargeOnce, Filled, OwnJob, Looked, TurnedAway, JobsApi
  <1>7. req[r].phase = "idle" /\ ~ req[r].paid /\ req[r].paid \in BOOLEAN /\ q.paid \in BOOLEAN
    BY <1>4 DEF Begin, SubmitInv, TypeOK, ReqState, RequestOK, ChargeOnce
  <1>8. MovesTo(r, q) /\ Set(r, q) /\ q.paid = req[r].paid
    BY <1>1, <1>2, <1>4, <1>5, <1>6, <1>7 DEF MovesTo, Passed
  <1> QED
    BY <1>8, MoveInv DEF Begin

(* The lookup before everything else: a keyed request is turned away only  *)
(* when its key is not in the table.                                       *)
LEMMA KnownInv ==
  ASSUME SubmitInv, NEW r \in Request, Known(r)
  PROVE  SubmitInv'
  <1> DEFINE q == req[r]
  <1>1. /\ q \in ReqState /\ RequestOK(q) /\ q.phase = "known" /\ q.lane \in JobsApi
        /\ UNCHANGED <<jobs, cap, used, enabled>>
    BY DEF Known, SubmitInv, TypeOK, RequestOK, Filled
  <1>2. CASE KeyRows(q) # {}
    <2>1. \E x : Set(r, Replayed(q, x))
      BY <1>1, <1>2 DEF Known
    <2> QED
      BY <1>1, <1>2, <2>1, ReplayedOK, MoveInv
  <1>3. CASE KeyRows(q) = {} /\ Set(r, Done(q, "refused", 0))
    <2> DEFINE t == Done(q, "refused", 0)
    <2>1. TypeOK /\ "refused" \in Answer /\ 0 \in Ids
      BY RowFacts DEF SubmitInv, Answer
    <2>2. q.key # None => \A j \in 1 .. Len(jobs) : ~ (jobs[j].here /\ jobs[j].jkey = q.key)
      BY <1>1, <1>3, RowFacts DEF SubmitInv, KeyRows, Rows, JobsApi
    <2>3. t \in ReqState /\ t.paid = q.paid /\ RequestOK(t)
      BY <1>1, <2>1, <2>2, DoneFields, DoneRequest
    <2>4. MovesTo(r, t)
      BY <1>1, <2>3 DEF MovesTo, Passed, JobsApi
    <2> QED
      BY <1>1, <1>3, <2>3, <2>4, MoveInv
  <1>4. CASE KeyRows(q) = {} /\ \E a \in Account \cup {q.acct} :
               /\ Set(r, Goto([q EXCEPT !.acct = a], "admit"))
               /\ q.lane = "sub" => a \in Account
    <2>1. PICK a \in Account \cup {q.acct} :
            /\ Set(r, Goto([q EXCEPT !.acct = a], "admit"))
            /\ q.lane = "sub" => a \in Account
      BY <1>4
    <2> DEFINE t == Goto([q EXCEPT !.acct = a], "admit")
    <2>2. t \in ReqState /\ t.paid = q.paid
      BY <1>1 DEF Goto, ReqState, Phase
    <2>3. RequestOK(t)
      BY <1>1, <2>1
      DEF Goto, ReqState, RequestOK, ChargeOnce, Filled, OwnJob, Looked, TurnedAway, JobsApi
    <2>4. MovesTo(r, t)
      BY <1>1, <2>2, <2>3 DEF MovesTo, Passed, JobsApi
    <2> QED
      BY <1>1, <2>1, <2>2, <2>4, MoveInv
  <1>5. q = [q EXCEPT !.acct = q.acct]
    BY <1>1 DEF ReqState
  <1>6. KeyRows(q) = {} => \A x : Replayed(q, x) = x
    BY DEF Replayed
  <1>7. KeyRows(q) = {} =>
          \/ Set(r, Done(q, "refused", 0))
          \/ q.lane = "sub" /\ \E a \in Account : Set(r, Goto([q EXCEPT !.acct = a], "admit"))
          \/ q.lane = "plain" /\ Set(r, Goto(q, "admit"))
    BY <1>6 DEF Known
  <1>8. KeyRows(q) = {} /\ q.lane = "plain" /\ Set(r, Goto(q, "admit")) =>
          \E a \in Account \cup {q.acct} :
               /\ Set(r, Goto([q EXCEPT !.acct = a], "admit"))
               /\ q.lane = "sub" => a \in Account
    BY <1>5
  <1> QED
    BY <1>2, <1>3, <1>4, <1>7, <1>8

(* The cap lets a request go on, once: charged, or met without a cap.      *)
LEMMA AdmittedOK ==
  ASSUME SubmitInv, NEW r \in Request, req[r].phase \in {"admit", "recheck"},
         NEW p \in BOOLEAN, NEW f \in BOOLEAN, p # f
  PROVE  LET t == Admitted([req[r] EXCEPT !.paid = p, !.free = f])
         IN  MovesTo(r, t) /\ t.paid = p
  <1> DEFINE q == [req[r] EXCEPT !.paid = p, !.free = f, !.capped = FALSE, !.spent = 0, !.base = 0]
             t == Admitted([req[r] EXCEPT !.paid = p, !.free = f])
  <1>1. req[r] \in ReqState /\ RequestOK(req[r])
    BY DEF SubmitInv, TypeOK
  <1>2. q \in ReqState /\ q.lane = req[r].lane /\ q.phase = req[r].phase
    <2>1. 0 \in Ids /\ 0 \in Nat
      BY RowFacts DEF SubmitInv
    <2> QED
      BY <1>1, <2>1 DEF ReqState
  <1>3. /\ q.paid = p /\ q.free = f /\ q.key = req[r].key /\ q.payload = req[r].payload
        /\ q.acct = req[r].acct /\ q.job = req[r].job /\ q.since = req[r].since /\ q.base = 0
        /\ q.ans = req[r].ans
    BY <1>1 DEF ReqState
  <1>4. t = CASE q.lane \in JobsApi -> Goto(q, "find")
              [] q.lane = "sync"    -> Done(q, "ran", 0)
              [] q.lane = "agent"   -> Done(q, "created", q.job)
    BY <1>1 DEF Admitted, ReqState
  <1>5. q.lane \in JobsApi \/ q.lane = "sync" \/ q.lane = "agent"
    BY <1>2, SubmitAssumption DEF ReqState, JobsApi
  <1>5a. TypeOK /\ req[r].phase # "idle" /\ 0 <= Len(jobs)
    BY RowFacts DEF SubmitInv
  <1> HIDE DEF q
  <1>5b. q.phase # "idle" /\ q.payload \in Payload /\ q.ans = "none" /\ q.since <= Len(jobs)
         /\ (q.lane = "sub" /\ q.key = None => q.acct \in Account)
         /\ (q.lane = "sync" => q.key = None)
    BY <1>1, <1>2, <1>3, <1>5a DEF RequestOK, Filled
  <1>6. CASE q.lane \in JobsApi
    <2>1. t = [q EXCEPT !.phase = "find"]
      BY <1>4, <1>6 DEF Goto, JobsApi
    <2> HIDE DEF t
    <2>2. /\ t \in ReqState /\ t.paid = p /\ t.free = f /\ t.phase = "find" /\ t.lane = q.lane
          /\ t.payload = q.payload /\ t.key = q.key /\ t.acct = q.acct /\ t.ans = "none"
          /\ t.base = 0 /\ t.since = q.since
      BY <1>2, <1>3, <1>5b, <2>1 DEF ReqState, Phase
    <2>3. RequestOK(t)
      BY <1>5a, <1>5b, <1>6, <2>2
      DEF RequestOK, ChargeOnce, Filled, OwnJob, Looked, TurnedAway, JobsApi
    <2>4. ~ Passed(req[r]) /\ req[r].phase # "done"
      BY <1>2, <1>6 DEF Passed, JobsApi
    <2> QED
      BY <2>2, <2>3, <2>4 DEF MovesTo, t
  <1>7. CASE q.lane = "sync" \/ q.lane = "agent"
    <2>1. \E ans \in {"ran", "created"}, j \in Ids :
             t = Done(q, ans, j) /\ (ans = "created" => q.lane = "agent")
      <3>1. 0 \in Ids /\ q.job \in Ids
        BY <1>2, <1>5a, RowFacts DEF ReqState
      <3> QED
        BY <1>4, <1>7, <3>1 DEF JobsApi
    <2>2. PICK ans \in {"ran", "created"}, j \in Ids :
             t = Done(q, ans, j) /\ (ans = "created" => q.lane = "agent")
      BY <2>1
    <2> HIDE DEF t
    <2>3. ans \in Answer
      BY DEF Answer
    <2>4. /\ t \in ReqState /\ t.paid = p /\ t.free = f /\ t.lane = q.lane /\ t.phase = "done"
          /\ t.ans = ans /\ t.payload = q.payload /\ t.key = q.key /\ t.base = 0 /\ t.since = 0
      BY <1>2, <1>3, <1>5a, <2>2, <2>3, DoneFields
    <2>5. RequestOK(t)
      BY <1>5a, <1>5b, <1>7, <2>2, <2>4
      DEF RequestOK, ChargeOnce, Filled, OwnJob, Looked, TurnedAway, JobsApi
    <2> QED
      BY <1>2, <2>4, <2>5 DEF MovesTo, Passed, t
  <1> QED
    BY <1>5, <1>6, <1>7

(* admit_request: its first statement counts and compares in one.          *)
LEMMA AdmitInv ==
  ASSUME SubmitInv, NEW r \in Request, Admit(r)
  PROVE  SubmitInv'
  <1> DEFINE q == req[r]
  <1>1. /\ q \in ReqState /\ RequestOK(q) /\ q.phase = "admit" /\ ~ q.paid /\ ~ q.free
        /\ UNCHANGED <<jobs, cap, enabled>>
    BY DEF Admit, SubmitInv, TypeOK, RequestOK, ChargeOnce
  <1>2. /\ [q EXCEPT !.free = TRUE] = [q EXCEPT !.paid = FALSE, !.free = TRUE]
        /\ [q EXCEPT !.paid = TRUE] = [q EXCEPT !.paid = TRUE, !.free = FALSE]
    BY <1>1 DEF ReqState
  <1>3. CASE Set(r, Admitted([q EXCEPT !.free = TRUE])) /\ UNCHANGED used
    <2> DEFINE t == Admitted([q EXCEPT !.free = TRUE])
    <2>1. MovesTo(r, t) /\ t.paid = FALSE
      BY <1>1, <1>2, AdmittedOK
    <2>2. t.paid = q.paid
      BY <1>1, <2>1 DEF ReqState
    <2> QED
      BY <1>1, <1>3, <2>1, <2>2, MoveInv
  <1>4. CASE used' = used + 1 /\ Set(r, Admitted([q EXCEPT !.paid = TRUE]))
    <2> DEFINE t == Admitted([q EXCEPT !.paid = TRUE])
    <2>1. MovesTo(r, t) /\ t.paid = TRUE
      BY <1>1, <1>2, AdmittedOK
    <2> QED
      BY <1>1, <1>4, <2>1, MoveInv
  <1>5. CASE Set(r, Goto(q, "recheck")) /\ UNCHANGED used
    <2> DEFINE t == Goto(q, "recheck")
    <2>1. t \in ReqState /\ t.paid = q.paid
      BY <1>1 DEF Goto, ReqState, Phase
    <2>2. RequestOK(t)
      BY <1>1 DEF Goto, ReqState, RequestOK, ChargeOnce, Filled, OwnJob, Looked, TurnedAway
    <2>3. MovesTo(r, t)
      BY <1>1, <2>1, <2>2 DEF MovesTo, Passed, Goto, ReqState
    <2> QED
      BY <1>1, <1>5, <2>1, <2>3, MoveInv
  <1> QED
    BY <1>3, <1>4, <1>5 DEF Admit

(* The second statement of admit_request.                                  *)
LEMMA RecheckInv ==
  ASSUME SubmitInv, NEW r \in Request, Recheck(r)
  PROVE  SubmitInv'
  <1> DEFINE q == req[r]
  <1>1. /\ q \in ReqState /\ RequestOK(q) /\ q.phase = "recheck" /\ ~ q.paid /\ ~ q.free
        /\ UNCHANGED <<jobs, cap, used, enabled>>
    BY DEF Recheck, SubmitInv, TypeOK, RequestOK, ChargeOnce
  <1>2. [q EXCEPT !.free = TRUE] = [q EXCEPT !.paid = FALSE, !.free = TRUE]
    BY <1>1 DEF ReqState
  <1>3. CASE Set(r, Admitted([q EXCEPT !.free = TRUE]))
    <2> DEFINE t == Admitted([q EXCEPT !.free = TRUE])
    <2>1. MovesTo(r, t) /\ t.paid = FALSE
      BY <1>1, <1>2, AdmittedOK
    <2>2. t.paid = q.paid
      BY <1>1, <2>1 DEF ReqState
    <2> QED
      BY <1>1, <1>3, <2>1, <2>2, MoveInv
  <1>4. CASE Set(r, Done(q, "capped", q.job))
    <2>1. q.job \in Ids
      BY <1>1 DEF ReqState
    <2> QED
      BY <1>1, <1>4, <2>1, DoneOK, MoveInv
  <1> QED
    BY <1>3, <1>4 DEF Recheck

(* The lookup of the rows in flight: one of them, or the way to the insert.*)
LEMMA OrDuplicateOK ==
  ASSUME SubmitInv, NEW r \in Request, req[r].phase \in {"find", "dup"},
         req[r].lane \in JobsApi => req[r].key = None
  PROVE  MovesTo(r, OrDuplicate(req[r])) /\ OrDuplicate(req[r]).paid = req[r].paid
  <1> DEFINE q == req[r]
  <1>1. q \in ReqState /\ RequestOK(q)
    BY DEF SubmitInv, TypeOK
  <1>2. CASE InFlightRows(q) = {}
    <2> DEFINE t == Insertable(q)
    <2>1. OrDuplicate(q) = t /\ t = [q EXCEPT !.phase = "insert", !.since = Len(jobs)]
      BY <1>2 DEF OrDuplicate, Insertable
    <2>2. t \in ReqState /\ t.paid = q.paid
      <3>1. Len(jobs) \in Ids /\ "insert" \in Phase
        BY RowFacts DEF SubmitInv, Phase
      <3> QED
        BY <1>1, <2>1, <3>1 DEF ReqState
    <2>3. PayloadHash(t) = PayloadHash(q)
      BY <1>1, <2>1 DEF ReqState, PayloadHash
    <2>4. \A i \in 1 .. Len(jobs) : ~ InFlight(i, PayloadHash(t))
      BY <1>2, <2>3, RowFacts DEF SubmitInv, InFlightRows, Rows, InFlight
    <2>5. Looked(t)
      BY <2>4 DEF Looked
    <2>6. ChargeOnce(t) /\ Filled(t) /\ OwnJob(t) /\ TurnedAway(t)
      BY <1>1, <2>1, RowFacts
      DEF SubmitInv, ReqState, RequestOK, ChargeOnce, Filled, OwnJob, TurnedAway, JobsApi
    <2> QED
      BY <1>1, <2>1, <2>2, <2>5, <2>6 DEF MovesTo, Passed, RequestOK
  <1>3. CASE InFlightRows(q) # {}
    <2> DEFINE j == Newest(InFlightRows(q))
               t == Done(q, "dedup", j)
    <2>1. OrDuplicate(q) = t
      BY <1>3 DEF OrDuplicate
    <2>2. j \in 1 .. Len(jobs) /\ jobs[j].hash = PayloadHash(q) /\ j \in Ids
      <3>1. j \in InFlightRows(q) /\ j \in 1 .. Len(jobs)
        BY <1>3, LookupIn DEF SubmitInv
      <3> QED
        BY <3>1, RowFacts DEF SubmitInv, InFlightRows
    <2>3. q.lane \in JobsApi => jobs[j].lane = q.lane /\ jobs[j].payload = q.payload
      BY <1>1, <2>2, HashTells
    <2>4. TypeOK /\ "dedup" \in Answer
      BY DEF SubmitInv, Answer
    <2>5. t \in ReqState /\ t.paid = q.paid /\ t.lane = q.lane /\ t.phase = "done" /\ RequestOK(t)
      BY <1>1, <2>2, <2>3, <2>4, DoneFields, DoneRequest
    <2> QED
      BY <2>1, <2>5 DEF MovesTo, Passed
  <1> QED
    BY <1>2, <1>3

(* An agent run that is given a row of its key or hash.                    *)
LEMMA AgentDone ==
  ASSUME SubmitInv, NEW r \in Request, req[r].phase \notin {"idle", "done"},
         req[r].lane = "agent",
         NEW j \in Ids
  PROVE  MovesTo(r, Done(req[r], "dedup", j)) /\ Done(req[r], "dedup", j).paid = req[r].paid
  <1>1. req[r] \in ReqState /\ RequestOK(req[r])
    BY DEF SubmitInv, TypeOK
  <1>2. "dedup" \in Answer /\ TypeOK
    BY DEF Answer, SubmitInv
  <1> QED
    BY <1>1, <1>2, DoneFields, DoneRequest DEF MovesTo, Passed, JobsApi

(* The lookup before the insert.                                           *)
LEMMA FindInv ==
  ASSUME SubmitInv, NEW r \in Request, Find(r)
  PROVE  SubmitInv'
  <1> DEFINE q == req[r]
  <1>1. /\ q \in ReqState /\ RequestOK(q) /\ q.phase = "find"
        /\ UNCHANGED <<jobs, cap, used, enabled>>
    BY DEF Find, SubmitInv, TypeOK
  <1>2. CASE q.lane = "agent"
    <2>1. CASE KeyRows(q) = {}
      <3> DEFINE t == Goto(q, "dup")
      <3>1. Set(r, t)
        BY <1>2, <2>1 DEF Find, JobsApi
      <3>2. t \in ReqState /\ t.paid = q.paid
        BY <1>1 DEF Goto, ReqState, Phase
      <3>3. RequestOK(t)
        BY <1>1, <1>2
        DEF Goto, ReqState, RequestOK, ChargeOnce, Filled, OwnJob, Looked, TurnedAway, JobsApi
      <3> QED
        BY <1>1, <3>1, <3>2, <3>3, MoveInv DEF MovesTo, Passed
    <2>2. CASE KeyRows(q) # {}
      <3>1. Newest(KeyRows(q)) \in Ids
        <4>1. Newest(KeyRows(q)) \in 1 .. Len(jobs)
          BY <2>2, LookupIn DEF SubmitInv
        <4> QED
          BY <4>1, RowFacts DEF SubmitInv
      <3>2. Set(r, Done(q, "dedup", Newest(KeyRows(q)))) \/ Set(r, Done(q, "conflict", Newest(KeyRows(q))))
        BY <1>2, <2>2 DEF Find, JobsApi
      <3> QED
        BY <1>1, <1>2, <3>1, <3>2, AgentDone, DoneOK, MoveInv
    <2> QED
      BY <2>1, <2>2
  <1>3. CASE q.lane \in JobsApi /\ q.key # None
    <2>1. Set(r, Replayed(q, Insertable(q)))
      BY <1>3 DEF Find, JobsApi
    <2>2. CASE KeyRows(q) # {}
      BY <1>1, <1>3, <2>1, <2>2, ReplayedOK, MoveInv
    <2>3. CASE KeyRows(q) = {}
      <3> DEFINE t == Insertable(q)
      <3>1. Set(r, t)
        BY <2>1, <2>3 DEF Replayed
      <3>2. t \in ReqState /\ t.paid = q.paid
        <4>1. Len(jobs) \in Ids /\ "insert" \in Phase
          BY RowFacts DEF SubmitInv, Phase
        <4> QED
          BY <1>1, <4>1 DEF Insertable, ReqState
      <3>3. RequestOK(t)
        BY <1>1, <1>3, RowFacts
        DEF SubmitInv, Insertable, ReqState, RequestOK, ChargeOnce, Filled, OwnJob, Looked,
            TurnedAway, JobsApi
      <3> QED
        BY <1>1, <1>3, <3>1, <3>2, <3>3, MoveInv DEF MovesTo, Passed
    <2> QED
      BY <2>2, <2>3
  <1>4. CASE q.lane # "agent" /\ ~ (q.lane \in JobsApi /\ q.key # None)
    <2>1. Set(r, OrDuplicate(q))
      BY <1>4 DEF Find
    <2> QED
      BY <1>1, <1>4, <2>1, OrDuplicateOK, MoveInv
  <1> QED
    BY <1>2, <1>3, <1>4

(* The second lookup of create_run.                                        *)
LEMMA DuplicateInv ==
  ASSUME SubmitInv, NEW r \in Request, Duplicate(r)
  PROVE  SubmitInv'
  <1>1. req[r].phase = "dup" /\ req[r].lane = "agent" /\ UNCHANGED <<jobs, cap, used, enabled>>
    BY DEF Duplicate, SubmitInv, RequestOK, Filled
  <1>2. Set(r, OrDuplicate(req[r]))
    BY DEF Duplicate
  <1> QED
    BY <1>1, <1>2, OrDuplicateOK, MoveInv DEF JobsApi

(* The loser of an insert is given the winner's row.                       *)
LEMMA RaceInv ==
  ASSUME SubmitInv, NEW r \in Request, Race(r)
  PROVE  SubmitInv'
  <1> DEFINE q == req[r]
  <1>1. /\ q \in ReqState /\ RequestOK(q) /\ q.phase = "race"
        /\ UNCHANGED <<jobs, cap, used, enabled>> /\ 0 \in Ids
    BY RowFacts DEF Race, SubmitInv, TypeOK, Ids
  <1>2. CASE KeyRows(q) = {}
    <2>1. Set(r, Done(q, "failed", 0))
      BY <1>2 DEF Race
    <2> QED
      BY <1>1, <2>1, DoneOK, MoveInv
  <1>3. CASE KeyRows(q) # {} /\ q.lane = "agent"
    <2>1. Newest(KeyRows(q)) \in Ids
      <3>1. Newest(KeyRows(q)) \in 1 .. Len(jobs)
        BY <1>3, LookupIn DEF SubmitInv
      <3> QED
        BY <3>1, RowFacts DEF SubmitInv
    <2>2. Set(r, Done(q, "dedup", Newest(KeyRows(q))))
      BY <1>3 DEF Race
    <2> QED
      BY <1>1, <1>3, <2>1, <2>2, AgentDone, MoveInv
  <1>4. CASE KeyRows(q) # {} /\ q.lane # "agent"
    <2>1. q.key # None
      BY <1>4 DEF KeyRows
    <2>2. q.lane \in JobsApi
      BY <1>1, <1>4, <2>1, SubmitAssumption DEF ReqState, RequestOK, Filled, JobsApi
    <2>3. Set(r, Replayed(q, q))
      BY <1>4 DEF Race
    <2> QED
      BY <1>1, <1>4, <2>2, <2>3, ReplayedOK, MoveInv
  <1> QED
    BY <1>2, <1>3, <1>4

(* The poll body of a replayed job.                                        *)
LEMMA ReplayInv ==
  ASSUME SubmitInv, NEW r \in Request, Replay(r)
  PROVE  SubmitInv'
  <1> DEFINE q == req[r]
             t == Done(q, "replay", q.job)
  <1>1. /\ q \in ReqState /\ RequestOK(q) /\ q.phase = "replay" /\ q.job \in Ids
        /\ UNCHANGED <<jobs, cap, used, enabled>>
    BY DEF Replay, SubmitInv, TypeOK, ReqState
  <1>2. CASE Set(r, Done(q, "gone", q.job))
    BY <1>1, <1>2, DoneOK, MoveInv
  <1>3. CASE Set(r, t)
    <2>1. TypeOK /\ "replay" \in Answer
      BY DEF SubmitInv, Answer
    <2>2. t \in ReqState /\ t.paid = q.paid /\ RequestOK(t)
      BY <1>1, <2>1, DoneFields, DoneRequest DEF RequestOK, OwnJob
    <2> QED
      BY <1>1, <1>3, <2>2, MoveInv DEF MovesTo, Passed
  <1> QED
    BY <1>2, <1>3 DEF Replay

-----------------------------------------------------------------------------
(* Steps that change rows                                                  *)

(* The insert: the row is the request's only one, no row of the table has  *)
(* its key, and none that was there when it looked is in flight with its   *)
(* hash.                                                                   *)
LEMMA InsertInv ==
  ASSUME SubmitInv, NEW r \in Request, Insert(r)
  PROVE  SubmitInv'
  <1> DEFINE q == req[r]
             n == Len(jobs)
             new == NewRow(q, r)
             t == Created(q, n + 1)
  <1>1. /\ q \in ReqState /\ RequestOK(q) /\ q.phase = "insert" /\ UNCHANGED <<cap, used, enabled>>
        /\ n \in Nat /\ DOMAIN jobs = 1 .. n /\ jobs \in Seq(Row)
    BY RowFacts DEF Insert, SubmitInv, TypeOK
  <1>2. CASE KeyRows(q) # {} /\ Set(r, Goto(q, "race")) /\ UNCHANGED jobs
    <2> DEFINE u == Goto(q, "race")
    <2>1. u \in ReqState /\ u.paid = q.paid
      BY <1>1 DEF Goto, ReqState, Phase
    <2>2. PayloadHash(u) = PayloadHash(q)
      BY <1>1 DEF Goto, ReqState, PayloadHash
    <2>3. RequestOK(u)
      BY <1>1, <2>2
      DEF Goto, ReqState, RequestOK, ChargeOnce, Filled, OwnJob, Looked, TurnedAway, JobsApi
    <2> QED
      BY <1>1, <1>2, <2>1, <2>3, MoveInv DEF MovesTo, Passed
  <1>3. CASE KeyRows(q) = {} /\ jobs' = Append(jobs, new) /\ Set(r, t)
    <2>1. new \in Row
      <3>1. PayloadHash(q) \in Hash
        BY <1>1 DEF PayloadHash, Hash, RequestOK, Filled, ReqState
      <3> QED
        BY <1>1, <3>1 DEF NewRow, Row, ReqState, RequestOK, Filled
    <2>2. /\ jobs' \in Seq(Row) /\ Len(jobs') = n + 1 /\ jobs'[n + 1] = new
          /\ \A i \in 1 .. n : jobs'[i] = jobs[i]
      BY <1>1, <1>3, <2>1
    <2>3. /\ new.lane = q.lane /\ new.payload = q.payload /\ new.hash = PayloadHash(q)
          /\ new.jkey = (IF q.lane = "agent" THEN None ELSE q.key) /\ new.by = r
          /\ new.since = q.since
      BY DEF NewRow
    <2> HIDE DEF new
    <2>4. r \notin Owners
      BY <1>1 DEF Owners, SubmitInv, RowOK, ByOwner, Passed
    <2>5. Owners' = Owners \cup {r} /\ Owners' \subseteq Request
      <3>1. Owners' \subseteq Owners \cup {r}
        BY <1>1, <2>2, <2>3 DEF Owners
      <3>2. Owners \cup {r} \subseteq Owners'
        <4>1. ASSUME NEW i \in 1 .. n PROVE jobs[i].by \in Owners'
          BY <1>1, <2>2 DEF Owners
        <4>2. r \in Owners'
          BY <1>1, <2>2, <2>3 DEF Owners
        <4> QED
          BY <4>1, <4>2 DEF Owners
      <3>3. Owners \subseteq Request
        BY RowFacts DEF SubmitInv, Owners, Row
      <3> QED
        BY <3>1, <3>2, <3>3
    <2>6. Len(jobs') = Cardinality(Owners') /\ Len(jobs') <= Cardinality(Request)
      <3>1. IsFiniteSet(Owners') /\ Cardinality(Owners') <= Cardinality(Request)
        BY <2>5, SubmitAssumption, FS_Subset
      <3>2. IsFiniteSet(Owners)
        BY <2>5, <3>1, FS_Subset
      <3>3. Cardinality(Owners') = Cardinality(Owners) + 1
        BY <2>4, <2>5, <3>2, FS_AddElement
      <3> QED
        BY <2>2, <3>1, <3>3 DEF SubmitInv, Counted
    <2>7. /\ t \in ReqState /\ Passed(t) /\ t.lane = q.lane /\ t.paid = q.paid /\ t.free = q.free
          /\ t.key = q.key /\ t.payload = q.payload /\ t.job = n + 1
          /\ t.acct \in {None, q.acct} /\ t.base \in {0, q.base} /\ t.since \in {0, q.since}
          /\ \/ q.lane = "agent" /\ t.phase = "admit" /\ t.ans = q.ans
             \/ q.lane # "agent" /\ t.phase = "done" /\ t.ans = "created"
      <3>1. n + 1 \in Ids /\ 0 \in Ids
        BY <1>1, <2>2, <2>6, RowFacts DEF Ids, SubmitInv
      <3> QED
        BY ZenonT(30), <1>1, <3>1 DEF Created, Goto, Done, Passed, ReqState, Phase, Answer
    <2> HIDE DEF t
    <2>8. req' \in [Request -> ReqState] /\ req'[r] = t /\ \A s \in Request \ {r} : req'[s] = req[s]
      BY <1>3, <2>7 DEF SubmitInv, TypeOK, Set
    <2>9. Charged' = Charged
      BY <2>7, <2>8 DEF Charged
    <2>10. TypeOK' /\ Counted'
      BY <1>1, <2>2, <2>6, <2>8, <2>9 DEF SubmitInv, TypeOK, Counted
    <2>11. KeysUnique'
      <3> SUFFICES ASSUME NEW i \in 1 .. (n + 1), NEW j \in 1 .. (n + 1), i < j,
                          jobs'[i].jkey # None, jobs'[i].jkey = jobs'[j].jkey
                   PROVE  ~ jobs'[i].here
        BY <2>2 DEF KeysUnique
      <3>1. CASE j <= n
        BY <1>1, <2>2, <3>1 DEF SubmitInv, KeysUnique
      <3>2. CASE j = n + 1
        <4>1. i \in 1 .. n /\ jobs[i].jkey = q.key /\ q.key # None /\ q.lane # "agent"
          BY <1>1, <2>2, <2>3, <3>2
        <4> QED
          BY <1>1, <1>3, <2>2, <4>1 DEF KeyRows, Rows
      <3> QED
        BY <1>1, <3>1, <3>2
    <2>12. ASSUME NEW s \in Request PROVE RequestOK(req[s])'
      <3>1. CASE s = r
        <4>1. ChargeOnce(t)
          BY <1>1, <2>7 DEF RequestOK, ChargeOnce, JobsApi
        <4>2. /\ t.ans \in {"none", "created"} /\ t.payload \in Payload
              /\ t.base <= n + 1 /\ t.since <= n + 1
          BY <1>1, <2>7, RowFacts DEF SubmitInv, RequestOK, Filled, ReqState, Ids
        <4>3. t.lane = "sync" => t.key = None
          BY <1>1, <2>7 DEF RequestOK, Filled
        <4>3a. ChargeOnce(req[s])'
          BY <2>8, <3>1, <4>1 DEF ChargeOnce
        <4>4. Filled(req[s])'
          <5>1. Len(jobs') = n + 1 /\ req'[s] = t
            BY <2>2, <2>8, <3>1
          <5>2. CASE q.lane = "agent"
            <6>1. q.ans = "none"
              BY <1>1 DEF RequestOK, Filled
            <6> QED
              BY <2>7, <4>2, <5>1, <5>2, <6>1 DEF Filled
          <5>3. CASE q.lane # "agent"
            BY <2>7, <4>2, <4>3, <5>1, <5>3 DEF Filled
          <5> QED
            BY <5>2, <5>3
        <4>5. OwnJob(req[s])'
          BY <1>1, <2>2, <2>3, <2>7, <2>8, <3>1 DEF OwnJob, JobsApi
        <4>6. Looked(req[s])' /\ TurnedAway(req[s])'
          BY <2>7, <2>8, <3>1, <4>2 DEF Looked, TurnedAway
        <4> QED
          BY <4>3a, <4>4, <4>5, <4>6 DEF RequestOK
      <3>2. CASE s # r
        <4>1. req'[s] = req[s] /\ RequestOK(req[s]) /\ req[s] \in ReqState
          BY <2>8, <3>2 DEF SubmitInv, TypeOK
        <4>2. req[s].base \in Nat /\ req[s].since \in Nat
              /\ req[s].base <= n /\ req[s].since <= n
          BY <4>1, RowFacts DEF SubmitInv, ReqState, Ids, RequestOK, Filled
        <4>3. ChargeOnce(req[s])' /\ Filled(req[s])'
          BY <1>1, <2>2, <4>1, <4>2 DEF RequestOK, ChargeOnce, Filled
        <4>4. OwnJob(req[s])'
          BY <1>1, <2>2, <4>1 DEF RequestOK, OwnJob
        <4>5. PayloadHash(req[s])' = PayloadHash(req[s])
          BY <4>1 DEF PayloadHash
        <4>6. Looked(req[s])'
          BY <1>1, <2>2, <4>1, <4>2, <4>5 DEF RequestOK, Looked, InFlight
        <4>7. TurnedAway(req[s])'
          BY <1>1, <2>2, <4>1, <4>2 DEF RequestOK, TurnedAway
        <4> QED
          BY <4>3, <4>4, <4>6, <4>7 DEF RequestOK
      <3> QED
        BY <3>1, <3>2
    <2>13. ASSUME NEW j \in 1 .. (n + 1) PROVE RowOK(j)'
      <3>1. CASE j <= n
        <4>1. j \in 1 .. n /\ jobs'[j] = jobs[j] /\ RowOK(j) /\ jobs[j] \in Row
          BY <1>1, <2>2, <3>1, RowFacts DEF SubmitInv
        <4>2. jobs[j].by \in Request \ {r} /\ jobs[j].since \in Nat
          BY <2>4, <4>1, RowFacts DEF SubmitInv, Owners, Row, Ids
        <4>3. ByOwner(j)'
          BY <2>8, <4>1, <4>2 DEF RowOK, ByOwner, Passed
        <4>4. HashTrue(j)'
          BY <4>1 DEF RowOK, HashTrue
        <4>5. Collapsed(j)'
          BY <1>1, <2>2, <4>1, <4>2 DEF RowOK, Collapsed, InFlight
        <4> QED
          BY <4>3, <4>4, <4>5 DEF RowOK
      <3>2. CASE j = n + 1
        <4>1. ByOwner(j)'
          BY <1>1, <2>2, <2>3, <2>7, <2>8, <3>2 DEF ByOwner, Passed, RequestOK, ChargeOnce
        <4>2. HashTrue(j)'
          BY <1>1, <2>2, <2>3, <3>2 DEF HashTrue, PayloadHash, RequestOK, Filled
        <4>3. q.since \in Nat /\ q.since <= n
          BY <1>1, RowFacts DEF SubmitInv, ReqState, Ids, RequestOK, Filled
        <4>4. new.jkey = None => \A i \in 1 .. n : i <= q.since => ~ InFlight(i, PayloadHash(q))
          BY <1>1, <2>3 DEF RequestOK, Looked
        <4>5. Collapsed(j)'
          BY <1>1, <2>2, <2>3, <3>2, <4>3, <4>4 DEF Collapsed, InFlight
        <4> QED
          BY <4>1, <4>2, <4>5 DEF RowOK
      <3> QED
        BY <1>1, <3>1, <3>2
    <2> QED
      BY <2>2, <2>10, <2>11, <2>12, <2>13 DEF SubmitInv
  <1> QED
    BY <1>2, <1>3 DEF Insert

(* A new ends, ages or is purged: it only ever leaves the lookups.         *)
LEMMA FadeInv ==
  ASSUME SubmitInv, NEW k \in DOMAIN jobs, End(k) \/ Age(k) \/ Purge(k)
  PROVE  SubmitInv'
  <1> DEFINE n == Len(jobs)
  <1>1. /\ n \in Nat /\ DOMAIN jobs = 1 .. n /\ jobs \in Seq(Row)
        /\ \A i \in 1 .. n : jobs[i] \in Row /\ UNCHANGED <<req, cap, used, enabled>>
    BY RowFacts DEF SubmitInv, TypeOK, End, Age, Purge
  <1>2. PICK e \in Row :
          /\ jobs' = [jobs EXCEPT ![k] = e]
          /\ e.lane = jobs[k].lane /\ e.payload = jobs[k].payload /\ e.hash = jobs[k].hash
          /\ e.jkey = jobs[k].jkey /\ e.since = jobs[k].since /\ e.by = jobs[k].by
          /\ (e.here => jobs[k].here) /\ (e.live => jobs[k].live) /\ (e.fresh => jobs[k].fresh)
    <2>1. CASE End(k)
      <3>1. [jobs[k] EXCEPT !.live = FALSE] \in Row
        BY <1>1 DEF Row
      <3> QED
        BY <1>1, <2>1, <3>1 DEF End, Row
    <2>2. CASE Age(k)
      <3>1. [jobs[k] EXCEPT !.fresh = FALSE] \in Row
        BY <1>1 DEF Row
      <3> QED
        BY <1>1, <2>2, <3>1 DEF Age, Row
    <2>3. CASE Purge(k)
      <3>1. [jobs[k] EXCEPT !.here = FALSE] \in Row
        BY <1>1 DEF Row
      <3> QED
        BY <1>1, <2>3, <3>1 DEF Purge, Row
    <2> QED
      BY <2>1, <2>2, <2>3
  <1>3. jobs' \in Seq(Row) /\ Len(jobs') = n
    BY <1>1, <1>2, ExceptSeq
  <1>4. ASSUME NEW i \in 1 .. n
        PROVE  /\ jobs'[i].lane = jobs[i].lane /\ jobs'[i].payload = jobs[i].payload
               /\ jobs'[i].hash = jobs[i].hash /\ jobs'[i].jkey = jobs[i].jkey
               /\ jobs'[i].since = jobs[i].since /\ jobs'[i].by = jobs[i].by
               /\ (jobs'[i].here => jobs[i].here) /\ (jobs'[i].live => jobs[i].live)
               /\ (jobs'[i].fresh => jobs[i].fresh)
    BY <1>1, <1>2
  <1>6. Owners' = Owners /\ Charged' = Charged
    BY <1>1, <1>3, <1>4 DEF Owners, Charged
  <1>7. TypeOK' /\ Counted' /\ KeysUnique'
    <2>1. TypeOK'
      BY <1>1, <1>3 DEF SubmitInv, TypeOK
    <2>2. Counted'
      BY <1>1, <1>3, <1>6 DEF SubmitInv, Counted
    <2>3. KeysUnique'
      <3>1. SUFFICES ASSUME NEW i \in 1 .. n, NEW j \in 1 .. n, i < j,
                            jobs'[i].jkey # None, jobs'[i].jkey = jobs'[j].jkey
                     PROVE  ~ jobs'[i].here
        BY <1>3 DEF KeysUnique
      <3>2. jobs'[i].jkey = jobs[i].jkey /\ jobs'[j].jkey = jobs[j].jkey
        BY <1>4
      <3>3. ~ jobs[i].here
        BY <3>1, <3>2 DEF SubmitInv, KeysUnique
      <3> QED
        BY <1>4, <3>3
    <2> QED
      BY <2>1, <2>2, <2>3
  <1>8. ASSUME NEW s \in Request PROVE RequestOK(req[s])'
    <2>1. RequestOK(req[s]) /\ req' = req
      BY <1>1 DEF SubmitInv
    <2>2. ChargeOnce(req[s])' /\ Filled(req[s])'
      BY <1>3, <2>1 DEF RequestOK, ChargeOnce, Filled
    <2>3. OwnJob(req[s])'
      BY <1>3, <1>4, <2>1 DEF RequestOK, OwnJob
    <2>4. PayloadHash(req[s])' = PayloadHash(req[s])
      BY <2>1 DEF PayloadHash
    <2>5. Looked(req[s])'
      BY <1>3, <1>4, <2>1, <2>4 DEF RequestOK, Looked, InFlight
    <2>6. TurnedAway(req[s])'
      BY <1>3, <1>4, <2>1 DEF RequestOK, TurnedAway
    <2> QED
      BY <2>2, <2>3, <2>5, <2>6 DEF RequestOK
  <1>9. ASSUME NEW j \in 1 .. n PROVE RowOK(j)'
    <2>1. RowOK(j)
      BY DEF SubmitInv
    <2>2. ByOwner(j)' /\ HashTrue(j)'
      BY <1>1, <1>4, <2>1 DEF RowOK, ByOwner, Passed, HashTrue
    <2>3. Collapsed(j)'
      BY <1>3, <1>4, <2>1 DEF RowOK, Collapsed, InFlight
    <2> QED
      BY <2>2, <2>3 DEF RowOK
  <1> QED
    BY <1>3, <1>7, <1>8, <1>9 DEF SubmitInv

(* Settings say nothing of the rows and the requests.                      *)
LEMMA SameInv ==
  ASSUME SubmitInv, UNCHANGED <<jobs, req, used>>, cap' \in Cap \cup {NoCap},
         enabled' \in BOOLEAN
  PROVE  SubmitInv'
  <1>1. TypeOK' /\ KeysUnique' /\ Counted'
    BY DEF SubmitInv, TypeOK, KeysUnique, Counted, Owners, Charged
  <1>2. ASSUME NEW r \in Request PROVE RequestOK(req[r])'
    <2>1. RequestOK(req[r])
      BY DEF SubmitInv
    <2> QED
      BY <2>1
      DEF RequestOK, ChargeOnce, Filled, OwnJob, Looked, TurnedAway, InFlight, PayloadHash
  <1>3. ASSUME NEW j \in 1 .. Len(jobs) PROVE RowOK(j)'
    <2>1. RowOK(j)
      BY DEF SubmitInv
    <2> QED
      BY <2>1 DEF RowOK, ByOwner, Passed, HashTrue, Collapsed, InFlight
  <1> QED
    BY <1>1, <1>2, <1>3 DEF SubmitInv

-----------------------------------------------------------------------------
(* The empty table and idle requests satisfy the invariant.                *)
LEMMA SubmitInit == Init => SubmitInv
  <1> SUFFICES ASSUME Init PROVE SubmitInv
    OBVIOUS
  <1>1. Cardinality(Request) \in Nat /\ Idle \in ReqState
    BY SubmitAssumption, FS_CardinalityType DEF Idle, ReqState, Phase, Answer, Ids
  <1>2. jobs = <<>> /\ Len(jobs) = 0 /\ jobs \in Seq(Row)
    BY EmptySeq DEF Init
  <1>3. TypeOK
    BY <1>1, <1>2 DEF Init, TypeOK
  <1>4. ASSUME NEW r \in Request PROVE RequestOK(req[r])
    <2>1. req[r] = Idle
      BY DEF Init
    <2> QED
      BY <1>2, <2>1
      DEF Idle, RequestOK, ChargeOnce, Filled, OwnJob, Looked, TurnedAway, JobsApi
  <1>5. Owners = {} /\ Charged = {}
    BY <1>2 DEF Owners, Charged, Init, Idle
  <1>6. Counted
    BY <1>2, <1>5, FS_EmptySet DEF Counted, Init
  <1> QED
    BY <1>2, <1>3, <1>4, <1>6 DEF SubmitInv, KeysUnique

(* The invariant holds in every reachable state, for all constants.        *)
THEOREM SubmitInvariance == Spec => []SubmitInv
  <1>1. ASSUME SubmitInv, [Next]_vars
        PROVE  SubmitInv'
    <2>1. CASE UNCHANGED vars
      BY <1>1, <2>1, SameInv DEF vars, SubmitInv, TypeOK
    <2>2. ASSUME NEW r \in Request, Step(r) PROVE SubmitInv'
      BY <1>1, <2>2, BeginInv, KnownInv, AdmitInv, RecheckInv, FindInv, DuplicateInv, InsertInv,
         RaceInv, ReplayInv DEF Step
    <2>3. ASSUME NEW j \in DOMAIN jobs, End(j) \/ Age(j) \/ Purge(j) PROVE SubmitInv'
      BY <1>1, <2>3, FadeInv
    <2>4. CASE SetCap \/ Configure
      <3>1. UNCHANGED <<jobs, req, used>> /\ cap' \in Cap \cup {NoCap} /\ enabled' \in BOOLEAN
        BY <1>1, <2>4 DEF SetCap, Configure, SubmitInv, TypeOK
      <3> QED
        BY <1>1, <3>1, SameInv
    <2> QED
      BY <1>1, <2>1, <2>2, <2>3, <2>4 DEF Next
  <1> QED
    BY SubmitInit, <1>1, PTL DEF Spec

(* Every variable keeps its type; in particular no request inserts more    *)
(* than one row or is charged more than once.                              *)
THEOREM SubmitTypes == Spec => []TypeOK
  <1>1. SubmitInv => TypeOK
    BY DEF SubmitInv
  <1> QED
    BY SubmitInvariance, <1>1, PTL

(* What a submission promises its caller and its project (submit_job_ex,   *)
(* create_run, known_job_id, admit_request) holds for any number of        *)
(* concurrent submissions.                                                 *)
THEOREM SubmissionsSound == Spec => []SubmitSound
  <1>1. ASSUME SubmitInv PROVE SubmitSound
    <2>0. /\ DOMAIN jobs = 1 .. Len(jobs) /\ Len(jobs) \in Nat
          /\ \A i \in 1 .. Len(jobs) : jobs[i] \in Row
          /\ \A r \in Request : RequestOK(req[r]) /\ req[r] \in ReqState
      BY <1>1, RowFacts DEF SubmitInv, TypeOK
    <2>1. AnsweredWithOwnJob
      BY <2>0 DEF AnsweredWithOwnJob, OwnPayload, HasJob, RequestOK, OwnJob
    <2>2. SameKeySameJob
      <3> SUFFICES ASSUME NEW r \in Request, NEW s \in Request, HasJob(r), HasJob(s),
                          req[r].lane \in JobsApi, req[r].key # None, req[r].key = req[s].key,
                          req[r].lane = req[s].lane, req[r].job < req[s].job
                   PROVE  ~ jobs[req[r].job].here
        BY DEF SameKeySameJob
      <3>1. /\ req[r].job \in 1 .. Len(jobs) /\ jobs[req[r].job].jkey = req[r].key
            /\ req[s].job \in 1 .. Len(jobs) /\ jobs[req[s].job].jkey = req[r].key
        BY <2>0 DEF HasJob, RequestOK, OwnJob
      <3> QED
        BY <1>1, <3>1 DEF SubmitInv, KeysUnique
    <2>3. SerialResubmitsCollapse
      <3> SUFFICES ASSUME NEW i \in Rows, NEW j \in Rows, i < j, jobs[i].hash = jobs[j].hash,
                          jobs[i].live, jobs[i].fresh, jobs[j].jkey = None,
                          ~ (i > jobs[j].since)
                   PROVE  FALSE
        BY DEF SerialResubmitsCollapse
      <3>1. i \in 1 .. Len(jobs) /\ j \in 1 .. Len(jobs) /\ jobs[i].here /\ Collapsed(j)
        BY <1>1, <2>0 DEF Rows, SubmitInv, RowOK
      <3>2. jobs[j].since \in Nat
        BY <1>1, <2>0, <3>1, RowFacts DEF SubmitInv, Row, Ids
      <3> QED
        BY <2>0, <3>1, <3>2 DEF Collapsed, InFlight
    <2>4. CapAccounts
      <3>1. used = Cardinality({r \in Request : req[r].paid})
        BY <1>1 DEF SubmitInv, Counted, Charged
      <3>2. \A r \in Request : req[r].ans = "ran" => req[r].paid # req[r].free
        BY <2>0 DEF RequestOK, ChargeOnce
      <3>3. \A j \in 1 .. Len(jobs) :
              jobs[j].lane \in JobsApi => req[jobs[j].by].paid # req[jobs[j].by].free
        BY <1>1 DEF SubmitInv, RowOK, ByOwner
      <3> QED
        BY <2>0, <3>1, <3>2, <3>3 DEF CapAccounts
    <2>5. RetryIsNotRefused
      <3> SUFFICES ASSUME NEW r \in Request, req[r].ans = "refused", req[r].key # None,
                          NEW j \in 1 .. req[r].base, jobs[j].here, jobs[j].jkey = req[r].key
                   PROVE  FALSE
        BY DEF RetryIsNotRefused
      <3>1. req[r].base \in Nat /\ req[r].base <= Len(jobs)
        BY <1>1, <2>0, RowFacts DEF SubmitInv, ReqState, Ids, RequestOK, Filled
      <3> QED
        BY <2>0, <3>1 DEF RequestOK, TurnedAway
    <2> QED
      BY <2>1, <2>2, <2>3, <2>4, <2>5 DEF SubmitSound
  <1> QED
    BY SubmitInvariance, <1>1, PTL
-----------------------------------------------------------------------------
(***************************************************************************)
(* The other table a request meets in the run `front_end': the projects.   *)
(***************************************************************************)
ProjectRow ==
  [name : Name \cup {"noname"}, token : Nat, cap : {-1, SignupCap}, used : Nat,
   ip : Ip \cup {"noname"}, recent : BOOLEAN]

SignupState ==
  [pc : {"idle", "count", "insert", "done", "refused"}, ip : Ip \cup {"noname"},
   name : Name \cup {"noname"}, tries : Nat, token : Nat, id : Nat]

FormState ==
  [pc : {"idle", "flush"}, kind : {"noname", "edit", "rotate", "delete"}, id : Nat,
   name : Name \cup {"noname"}, cap : {-1, SignupCap}, set : SUBSET {"name", "cap"},
   old : SUBSET ProjectRow]

(* Ids are given out in order, so no row is ever written over by another.  *)
TableTyped ==
  /\ ids \in Nat /\ tokens \in Nat
  /\ row \in [DOMAIN row -> ProjectRow] /\ DOMAIN row \subseteq 1..ids

SessionsTyped ==
  /\ signup \in [Worker -> SignupState] /\ form \in [Tab -> FormState]
  /\ client \in [pc : {"idle", "in", "admitted"}, id : Nat, capped : BOOLEAN]

(* The id a sign-up was answered with was given out.                       *)
IdsGiven == \A w \in Worker : signup[w].pc = "done" => signup[w].id \in 1..ids

(* A sign-up that has been counted and not inserted holds a place.         *)
Counting == {w \in Worker : signup[w].pc = "insert"}
CountingFrom(a) == {w \in Worker : signup[w].pc = "insert" /\ signup[w].ip = a}

Places ==
  /\ Cardinality(Proj!Recent) + Cardinality(Counting) <= PerDay + Cardinality(Worker) - 1
  /\ \A a \in Ip : Cardinality(Proj!From(a)) + Cardinality(CountingFrom(a))
                     <= PerIp + Cardinality(Worker) - 1

ProjectsInv ==
  /\ TableTyped /\ SessionsTyped /\ IdsGiven /\ Places
  /\ Proj!SignupOwnsItsProject /\ Proj!JobsGoWithProject

(* The instance counts the way this module does.                           *)
LEMMA ProjCounts ==
  ASSUME NEW S
  PROVE  Proj!Cardinality(S) = Cardinality(S)
  BY Zenon DEF Proj!Cardinality, Cardinality

(* The rows and the sign-ups that are counted are finitely many.           *)
LEMMA PlacesFinite ==
  ASSUME ProjectLimits, TableTyped
  PROVE  /\ IsFiniteSet(Proj!Recent) /\ Cardinality(Proj!Recent) \in Nat
         /\ IsFiniteSet(Counting) /\ Cardinality(Counting) \in Nat
         /\ \A a : /\ IsFiniteSet(Proj!From(a)) /\ Cardinality(Proj!From(a)) \in Nat
                   /\ IsFiniteSet(CountingFrom(a)) /\ Cardinality(CountingFrom(a)) \in Nat
         /\ Cardinality(Worker) \in Nat
  <1>1. IsFiniteSet(1..ids)
    BY FS_Interval DEF TableTyped
  <1>2. IsFiniteSet(Proj!Recent) /\ IsFiniteSet(Counting)
    <2>1. Proj!Recent \in SUBSET (1..ids) /\ Counting \in SUBSET Worker
      BY DEF Proj!Recent, Counting, TableTyped
    <2> QED
      BY <1>1, <2>1, FS_Subset DEF ProjectLimits
  <1>3. ASSUME NEW a
        PROVE  IsFiniteSet(Proj!From(a)) /\ IsFiniteSet(CountingFrom(a))
    <2>1. Proj!From(a) \in SUBSET (1..ids) /\ CountingFrom(a) \in SUBSET Worker
      BY DEF Proj!From, Proj!Recent, CountingFrom, TableTyped
    <2> QED
      BY <1>1, <2>1, FS_Subset DEF ProjectLimits
  <1> QED
    BY <1>2, <1>3, FS_CardinalityType DEF ProjectLimits

(* Places are only given back.                                             *)
LEMMA SumFalls ==
  ASSUME NEW A, NEW B, IsFiniteSet(A), IsFiniteSet(B), NEW C \in SUBSET A, NEW D \in SUBSET B
  PROVE  Cardinality(C) + Cardinality(D) <= Cardinality(A) + Cardinality(B)
  <1>1. /\ IsFiniteSet(C) /\ Cardinality(C) <= Cardinality(A)
        /\ IsFiniteSet(D) /\ Cardinality(D) <= Cardinality(B)
    BY FS_Subset
  <1>2. /\ Cardinality(A) \in Nat /\ Cardinality(B) \in Nat
        /\ Cardinality(C) \in Nat /\ Cardinality(D) \in Nat
    BY <1>1, FS_CardinalityType
  <1> QED
    BY <1>1, <1>2

(* A place that was held is taken by one row.                              *)
LEMMA SumMoves ==
  ASSUME NEW A, NEW B, IsFiniteSet(A), IsFiniteSet(B), NEW w \in B, NEW i,
         NEW C \in SUBSET (A \cup {i}), NEW D \in SUBSET (B \ {w})
  PROVE  Cardinality(C) + Cardinality(D) <= Cardinality(A) + Cardinality(B)
  <1>1. /\ IsFiniteSet(A \cup {i}) /\ Cardinality(A \cup {i}) <= Cardinality(A) + 1
        /\ IsFiniteSet(B \ {w}) /\ Cardinality(B \ {w}) = Cardinality(B) - 1
        /\ Cardinality(A) \in Nat /\ Cardinality(B) \in Nat
    BY FS_AddElement, FS_RemoveElement, FS_CardinalityType
  <1>2. Cardinality(C) + Cardinality(D) <= Cardinality(A \cup {i}) + Cardinality(B \ {w})
    BY <1>1, SumFalls
  <1>3. /\ IsFiniteSet(C) /\ IsFiniteSet(D)
        /\ Cardinality(C) \in Nat /\ Cardinality(D) \in Nat
        /\ Cardinality(A \cup {i}) \in Nat /\ Cardinality(B \ {w}) \in Nat
    BY <1>1, FS_Subset, FS_CardinalityType
  <1> QED
    BY <1>1, <1>2, <1>3

(* Places are kept by every step that adds no row and counts nobody.       *)
LEMMA PlacesFall ==
  ASSUME ProjectLimits, TableTyped, Places,
         Proj!Recent' \subseteq Proj!Recent, Counting' \subseteq Counting,
         \A a \in Ip : Proj!From(a)' \subseteq Proj!From(a) /\ CountingFrom(a)' \subseteq CountingFrom(a),
         TableTyped'
  PROVE  Places'
  <1>0. /\ IsFiniteSet(Proj!Recent') /\ Cardinality(Proj!Recent') \in Nat
        /\ IsFiniteSet(Counting') /\ Cardinality(Counting') \in Nat
    BY PlacesFinite, FS_Subset, FS_CardinalityType
  <1>1. Cardinality(Proj!Recent') + Cardinality(Counting') <= Cardinality(Proj!Recent) + Cardinality(Counting)
    BY PlacesFinite, SumFalls
  <1>2. Cardinality(Proj!Recent') + Cardinality(Counting') <= PerDay + Cardinality(Worker) - 1
    BY <1>0, <1>1, PlacesFinite DEF Places, ProjectLimits
  <1>3. ASSUME NEW a \in Ip
        PROVE  Cardinality(Proj!From(a)') + Cardinality(CountingFrom(a)') <= PerIp + Cardinality(Worker) - 1
    <2>0. /\ IsFiniteSet(Proj!From(a)') /\ Cardinality(Proj!From(a)') \in Nat
          /\ IsFiniteSet(CountingFrom(a)') /\ Cardinality(CountingFrom(a)') \in Nat
      BY PlacesFinite, FS_Subset, FS_CardinalityType
    <2>1. Cardinality(Proj!From(a)') + Cardinality(CountingFrom(a)')
            <= Cardinality(Proj!From(a)) + Cardinality(CountingFrom(a))
      BY PlacesFinite, SumFalls
    <2>2. Cardinality(Proj!From(a)) + Cardinality(CountingFrom(a)) <= PerIp + Cardinality(Worker) - 1
      BY DEF Places
    <2>3. /\ Cardinality(Proj!From(a)) \in Nat /\ Cardinality(CountingFrom(a)) \in Nat
          /\ Cardinality(Worker) \in Nat
      BY PlacesFinite
    <2> QED
      BY <2>0, <2>1, <2>2, <2>3 DEF ProjectLimits
  <1> QED
    BY <1>2, <1>3 DEF Places

(* A step of the forms, of a client or of the clock: no row is added, no   *)
(* row changes owner, no count falls, and a key changes to a new one only. *)
RowsKept ==
  /\ DOMAIN row' \subseteq DOMAIN row /\ row' \in [DOMAIN row' -> ProjectRow]
  /\ \A i \in DOMAIN row' :
       /\ row'[i].ip = row[i].ip /\ (row'[i].recent => row[i].recent)
       /\ row'[i].used >= row[i].used
       /\ row'[i].token = row[i].token \/ row'[i].token = tokens + 1

(* Such a step keeps the places, the owners and, with its jobs, the rows.  *)
LEMMA KeptInv ==
  ASSUME ProjectLimits, ProjectsInv, RowsKept, SessionsTyped',
         UNCHANGED <<ids, signup>>, tokens' \in Nat, projectsJobs' \subseteq DOMAIN row'
  PROVE  ProjectsInv' /\ Proj!KeyReplaced /\ Proj!CountGrows
  <1>1. TableTyped'
    BY DEF ProjectsInv, TableTyped, RowsKept
  <1>2. Counting' = Counting /\ \A a \in Ip : CountingFrom(a)' = CountingFrom(a)
    BY DEF Counting, CountingFrom
  <1>3. Proj!Recent' \subseteq Proj!Recent /\ \A a \in Ip : Proj!From(a)' \subseteq Proj!From(a)
    BY DEF Proj!Recent, Proj!From, RowsKept, ProjectsInv, TableTyped, ProjectRow
  <1>4. Places'
    BY <1>1, <1>2, <1>3, PlacesFall DEF ProjectsInv
  <1>5. IdsGiven' /\ Proj!JobsGoWithProject'
    BY DEF ProjectsInv, IdsGiven, Proj!JobsGoWithProject
  <1>6. Proj!SignupOwnsItsProject'
    BY DEF ProjectsInv, Proj!SignupOwnsItsProject, RowsKept
  <1>7. Proj!KeyReplaced
    BY DEF Proj!KeyReplaced, RowsKept, ProjectsInv, TableTyped
  <1>8. Proj!CountGrows
    BY DEF Proj!CountGrows, RowsKept
  <1> QED
    BY <1>1, <1>4, <1>5, <1>6, <1>7, <1>8 DEF ProjectsInv

(* A step that leaves the table alone.                                     *)
LEMMA SameRows ==
  ASSUME ProjectsInv, row' = row
  PROVE  RowsKept
  <1>1. \A i \in DOMAIN row : row[i].used \in Nat
    BY DEF ProjectsInv, TableTyped, ProjectRow
  <1> QED
    BY <1>1 DEF RowsKept, ProjectsInv, TableTyped

(* Replacing one row by one that keeps its owner, its count and its day.   *)
LEMMA OneRow ==
  ASSUME ProjectsInv, NEW i, NEW r \in ProjectRow,
         row' = [row EXCEPT ![i] = r],
         i \in DOMAIN row => /\ r.ip = row[i].ip /\ r.recent = row[i].recent
                             /\ r.used >= row[i].used
                             /\ r.token = row[i].token \/ r.token = tokens + 1
  PROVE  RowsKept /\ DOMAIN row' = DOMAIN row
  <1>1. /\ DOMAIN row' = DOMAIN row /\ row' \in [DOMAIN row -> ProjectRow]
        /\ \A k \in DOMAIN row : row'[k] = IF k = i THEN r ELSE row[k]
    BY DEF ProjectsInv, TableTyped
  <1>2. \A k \in DOMAIN row : row[k].used \in Nat
    BY DEF ProjectsInv, TableTyped, ProjectRow
  <1>3. ASSUME NEW k \in DOMAIN row
        PROVE  /\ row'[k].ip = row[k].ip /\ (row'[k].recent => row[k].recent)
               /\ row'[k].used >= row[k].used
               /\ row'[k].token = row[k].token \/ row'[k].token = tokens + 1
    <2>1. CASE k = i
      BY <1>1, <2>1
    <2>2. CASE k # i
      BY <1>1, <1>2, <2>2
    <2> QED
      BY <2>1, <2>2
  <1> QED
    BY <1>1, <1>3 DEF RowsKept

(* A form writes the columns it changed.                                   *)
LEMMA EditInv ==
  ASSUME ProjectLimits, ProjectsInv, NEW t \in Tab, Proj!dash_edit_project(t)
  PROVE  ProjectsInv' /\ Proj!KeyReplaced /\ Proj!CountGrows
  <1>1. /\ UNCHANGED <<ids, tokens, projectsJobs, signup, client>>
        /\ form' = [form EXCEPT ![t] = Proj!NoForm]
        /\ \/ row' = row
           \/ form[t].id \in DOMAIN row
              /\ row' = [row EXCEPT ![form[t].id] = Proj!Edited(row[form[t].id], form[t])]
    BY DEF Proj!dash_edit_project
  <1>2. SessionsTyped'
    <2>1. Proj!NoForm \in FormState
      BY DEF Proj!NoForm, Proj!NoName, Proj!Unlimited, FormState
    <2> QED
      BY <1>1, <2>1 DEF ProjectsInv, SessionsTyped
  <1>3. RowsKept /\ DOMAIN row' = DOMAIN row
    <2>1. CASE row' = row
      BY <2>1, SameRows
    <2>2. CASE form[t].id \in DOMAIN row
               /\ row' = [row EXCEPT ![form[t].id] = Proj!Edited(row[form[t].id], form[t])]
      <3> DEFINE i == form[t].id
      <3> DEFINE r == Proj!Edited(row[i], form[t])
      <3>1. row[i] \in ProjectRow /\ form[t] \in FormState
        BY <2>2 DEF ProjectsInv, TableTyped, SessionsTyped
      <3>2. /\ r \in ProjectRow /\ r.ip = row[i].ip /\ r.recent = row[i].recent
            /\ r.used >= row[i].used /\ r.token = row[i].token
        <4> DEFINE n == IF "name" \in form[t].set THEN form[t].name ELSE row[i].name
        <4> DEFINE cp == IF "cap" \in form[t].set THEN form[t].cap ELSE row[i].cap
        <4>1. r = [row[i] EXCEPT !.name = n, !.cap = cp]
          BY DEF Proj!Edited
        <4>2. n \in Name \cup {"noname"} /\ cp \in {-1, SignupCap}
          BY <3>1 DEF ProjectRow, FormState
        <4> HIDE DEF n, cp, r
        <4>3. /\ r \in ProjectRow /\ r.ip = row[i].ip /\ r.recent = row[i].recent
              /\ r.used = row[i].used /\ r.token = row[i].token
          BY <3>1, <4>1, <4>2 DEF ProjectRow
        <4> QED
          BY <3>1, <4>3 DEF ProjectRow
      <3>3. row' = [row EXCEPT ![i] = r]
        BY <2>2
      <3> HIDE DEF i, r
      <3> QED
        BY <3>2, <3>3, OneRow
    <2> QED
      BY <1>1, <2>1, <2>2
  <1> QED
    BY <1>1, <1>2, <1>3, KeptInv DEF ProjectsInv, Proj!JobsGoWithProject, TableTyped

(* A new key for the row, if it is still there.                            *)
LEMMA RotateInv ==
  ASSUME ProjectLimits, ProjectsInv, NEW t \in Tab, Proj!dash_rotate_project_token(t)
  PROVE  ProjectsInv' /\ Proj!KeyReplaced /\ Proj!CountGrows
  <1>1. /\ UNCHANGED <<ids, projectsJobs, signup, client>> /\ tokens' = tokens + 1
        /\ form' = [form EXCEPT ![t] = Proj!NoForm]
        /\ \/ row' = row
           \/ form[t].id \in DOMAIN row /\ row' = [row EXCEPT ![form[t].id].token = tokens + 1]
    BY DEF Proj!dash_rotate_project_token
  <1>2. SessionsTyped'
    <2>1. Proj!NoForm \in FormState
      BY DEF Proj!NoForm, Proj!NoName, Proj!Unlimited, FormState
    <2> QED
      BY <1>1, <2>1 DEF ProjectsInv, SessionsTyped
  <1>3. RowsKept /\ DOMAIN row' = DOMAIN row
    <2>1. CASE row' = row
      BY <2>1, SameRows
    <2>2. CASE form[t].id \in DOMAIN row /\ row' = [row EXCEPT ![form[t].id].token = tokens + 1]
      <3> DEFINE i == form[t].id
      <3> DEFINE r == [row[i] EXCEPT !.token = tokens + 1]
      <3>1. row[i] \in ProjectRow /\ tokens + 1 \in Nat
        BY <2>2 DEF ProjectsInv, TableTyped
      <3>2. /\ r \in ProjectRow /\ r.ip = row[i].ip /\ r.recent = row[i].recent
            /\ r.used >= row[i].used /\ r.token = tokens + 1
        BY <3>1 DEF ProjectRow
      <3>3. row' = [row EXCEPT ![i] = r]
        BY <2>2
      <3> HIDE DEF i, r
      <3> QED
        BY <3>2, <3>3, OneRow
    <2> QED
      BY <1>1, <2>1, <2>2
  <1> QED
    BY <1>1, <1>2, <1>3, KeptInv DEF ProjectsInv, Proj!JobsGoWithProject, TableTyped

(* The row goes, and its jobs with it.                                     *)
LEMMA DeleteInv ==
  ASSUME ProjectLimits, ProjectsInv, NEW t \in Tab, Proj!dash_delete_project(t)
  PROVE  ProjectsInv' /\ Proj!KeyReplaced /\ Proj!CountGrows
  <1>1. /\ UNCHANGED <<ids, tokens, signup, client>>
        /\ form' = [form EXCEPT ![t] = Proj!NoForm]
        /\ row' = [i \in DOMAIN row \ {form[t].id} |-> row[i]]
        /\ projectsJobs' = projectsJobs \ {form[t].id}
    BY DEF Proj!dash_delete_project, Proj!Cascade
  <1>2. SessionsTyped'
    <2>1. Proj!NoForm \in FormState
      BY DEF Proj!NoForm, Proj!NoName, Proj!Unlimited, FormState
    <2> QED
      BY <1>1, <2>1 DEF ProjectsInv, SessionsTyped
  <1>3. \A i \in DOMAIN row : row[i].used \in Nat
    BY DEF ProjectsInv, TableTyped, ProjectRow
  <1>4. RowsKept
    BY <1>1, <1>3 DEF RowsKept, ProjectsInv, TableTyped
  <1>5. projectsJobs' \subseteq DOMAIN row'
    BY <1>1 DEF ProjectsInv, Proj!JobsGoWithProject
  <1> QED
    BY <1>1, <1>2, <1>4, <1>5, KeptInv DEF ProjectsInv, TableTyped

(* A form is opened.                                                       *)
LEMMA LoadInv ==
  ASSUME ProjectLimits, ProjectsInv, NEW t \in Tab, NEW k \in {"edit", "rotate", "delete"},
         Proj!Load(t, k)
  PROVE  ProjectsInv' /\ Proj!KeyReplaced /\ Proj!CountGrows
  <1>1. UNCHANGED <<row, ids, tokens, projectsJobs, signup, client>>
    BY DEF Proj!Load
  <1>2. PICK i \in DOMAIN row, n \in Name, present \in BOOLEAN,
             cp \in {Proj!Unlimited, SignupCap} :
          /\ n \in {row[i].name, Slug}
          /\ k # "edit" => n = row[i].name /\ ~present
          /\ ~present => cp = Proj!Unlimited
          /\ form' = [form EXCEPT ![t] = Proj!Opened(i, k, n, present, cp)]
    BY Zenon DEF Proj!Load
  <1>3. SessionsTyped'
    <2>1. i \in Nat /\ row[i] \in ProjectRow /\ cp \in {-1, SignupCap}
      BY DEF ProjectsInv, TableTyped, Proj!Unlimited
    <2>2. Proj!NoForm \in FormState
      BY DEF Proj!NoForm, Proj!NoName, Proj!Unlimited, FormState
    <2>3. Proj!Opened(i, k, n, present, cp) \in FormState
      <3> DEFINE st == {f \in {"name", "cap"} : \/ f = "name" /\ n # row[i].name
                                                \/ f = "cap" /\ present /\ cp # row[i].cap}
      <3>1. Proj!Opened(i, k, n, present, cp)
              = [Proj!NoForm EXCEPT !.pc = "flush", !.kind = k, !.id = i, !.name = n,
                   !.cap = cp, !.old = {row[i]}, !.set = st]
        BY DEF Proj!Opened
      <3>2. st \in SUBSET {"name", "cap"}
        OBVIOUS
      <3> HIDE DEF st
      <3>3. [Proj!NoForm EXCEPT !.pc = "flush", !.kind = k, !.id = i, !.name = n,
               !.cap = cp, !.old = {row[i]}, !.set = st] \in FormState
        BY <2>1, <2>2, <3>2 DEF FormState
      <3> QED
        BY <3>1, <3>3
    <2> QED
      BY <1>1, <1>2, <2>3 DEF ProjectsInv, SessionsTyped
  <1> QED
    BY <1>1, <1>3, SameRows, KeptInv DEF ProjectsInv, Proj!JobsGoWithProject, TableTyped

(* The clock, and one request: checked, admitted, submitted.               *)
LEMMA DayInv ==
  ASSUME ProjectLimits, ProjectsInv, Proj!Day
  PROVE  ProjectsInv' /\ Proj!KeyReplaced /\ Proj!CountGrows
  <1>1. /\ UNCHANGED <<ids, tokens, projectsJobs, signup, form, client>>
        /\ row' = [i \in DOMAIN row |-> [row[i] EXCEPT !.recent = FALSE]]
    BY DEF Proj!Day
  <1>2. RowsKept /\ DOMAIN row' = DOMAIN row
    <2>1. ASSUME NEW i \in DOMAIN row
          PROVE  /\ [row[i] EXCEPT !.recent = FALSE] \in ProjectRow
                 /\ row'[i].ip = row[i].ip /\ ~row'[i].recent
                 /\ row'[i].used >= row[i].used /\ row'[i].token = row[i].token
      <3>1. row[i] \in ProjectRow /\ row'[i] = [row[i] EXCEPT !.recent = FALSE]
        BY <1>1 DEF ProjectsInv, TableTyped
      <3>2. [row[i] EXCEPT !.recent = FALSE] \in ProjectRow
        BY <3>1 DEF ProjectRow
      <3>3. row'[i].ip = row[i].ip /\ row'[i].used = row[i].used /\ row'[i].token = row[i].token
        BY <3>1 DEF ProjectRow
      <3>4. ~row'[i].recent
        BY <3>1, Zenon DEF ProjectRow
      <3>5. row[i].used \in Nat
        BY <3>1 DEF ProjectRow
      <3> QED
        BY <3>2, <3>3, <3>4, <3>5
    <2>2. DOMAIN row' = DOMAIN row /\ row' \in [DOMAIN row -> ProjectRow]
      BY <1>1, <2>1
    <2> QED
      BY <2>1, <2>2 DEF RowsKept
  <1> QED
    BY <1>1, <1>2, KeptInv DEF ProjectsInv, Proj!JobsGoWithProject, TableTyped, SessionsTyped

(* A request is checked against the live row and counted on it.            *)
LEMMA ClientInv ==
  ASSUME ProjectLimits, ProjectsInv, Proj!require_project \/ Proj!Admit \/ Proj!Submit
  PROVE  ProjectsInv' /\ Proj!KeyReplaced /\ Proj!CountGrows
  <1>0. Proj!NoClient \in [pc : {"idle", "in", "admitted"}, id : Nat, capped : BOOLEAN]
    BY DEF Proj!NoClient
  <1>1. CASE Proj!require_project
    <2>1. UNCHANGED <<row, ids, tokens, projectsJobs, signup, form>>
      BY <1>1 DEF Proj!require_project
    <2>2. PICK i \in DOMAIN row : client' = [pc |-> "in", id |-> i, capped |-> row[i].cap # -1]
      BY <1>1 DEF Proj!require_project, Proj!Unlimited
    <2>3. SessionsTyped'
      BY <2>1, <2>2 DEF ProjectsInv, SessionsTyped, TableTyped
    <2> QED
      BY <2>1, <2>3, SameRows, KeptInv DEF ProjectsInv, Proj!JobsGoWithProject, TableTyped
  <1>2. CASE Proj!Admit
    <2>1. /\ UNCHANGED <<ids, tokens, projectsJobs, signup, form>>
          /\ client' \in {Proj!NoClient, [client EXCEPT !.pc = "admitted", !.capped = FALSE]}
          /\ \/ row' = row
             \/ /\ client.id \in DOMAIN row
                /\ row' = [row EXCEPT ![client.id].used = IF @ < SignupCap THEN @ + 1 ELSE @]
      BY <1>2 DEF Proj!Admit
    <2>2. SessionsTyped'
      BY <1>0, <2>1 DEF ProjectsInv, SessionsTyped
    <2>3. RowsKept /\ DOMAIN row' = DOMAIN row
      <3>1. CASE row' = row
        BY <3>1, SameRows
      <3>2. CASE /\ client.id \in DOMAIN row
                 /\ row' = [row EXCEPT ![client.id].used = IF @ < SignupCap THEN @ + 1 ELSE @]
        <4> DEFINE i == client.id
        <4> DEFINE r == [row[i] EXCEPT !.used = IF @ < SignupCap THEN @ + 1 ELSE @]
        <4>1. row[i] \in ProjectRow
          BY <3>2 DEF ProjectsInv, TableTyped
        <4>2. /\ r \in ProjectRow /\ r.ip = row[i].ip /\ r.recent = row[i].recent
              /\ r.used >= row[i].used /\ r.token = row[i].token
          BY <4>1 DEF ProjectRow, ProjectLimits
        <4>3. row' = [row EXCEPT ![i] = r]
          BY <3>2
        <4> HIDE DEF i, r
        <4> QED
          BY <4>2, <4>3, OneRow
      <3> QED
        BY <2>1, <3>1, <3>2
    <2> QED
      BY <2>1, <2>2, <2>3, KeptInv DEF ProjectsInv, Proj!JobsGoWithProject, TableTyped
  <1>3. CASE Proj!Submit
    <2>1. /\ UNCHANGED <<row, ids, tokens, signup, form>> /\ client' = Proj!NoClient
          /\ projectsJobs' \subseteq projectsJobs \cup (DOMAIN row)
      BY <1>3 DEF Proj!Submit
    <2>2. SessionsTyped'
      BY <1>0, <2>1 DEF ProjectsInv, SessionsTyped
    <2> QED
      BY <2>1, <2>2, SameRows, KeptInv DEF ProjectsInv, Proj!JobsGoWithProject, TableTyped
  <1> QED
    BY <1>1, <1>2, <1>3

(* A new row under a new id: nothing that was there is touched.            *)
LEMMA NewRowFact ==
  ASSUME TableTyped, NEW r \in ProjectRow, Proj!Inserted(r)
  PROVE  /\ ids' = ids + 1 /\ ids' \in Nat /\ ids + 1 \notin DOMAIN row
         /\ DOMAIN row' = DOMAIN row \cup {ids + 1} /\ DOMAIN row' \subseteq 1..ids'
         /\ row' \in [DOMAIN row' -> ProjectRow]
         /\ row'[ids + 1] = r /\ \A i \in DOMAIN row : row'[i] = row[i]
  <1>1. /\ ids' = ids + 1 /\ ids' \in Nat /\ ids + 1 \notin DOMAIN row
        /\ \A i \in DOMAIN row : i \in 1..(ids + 1)
    BY DEF TableTyped, Proj!Inserted
  <1>2. row' = [i \in DOMAIN row \cup {ids + 1} |-> IF i = ids + 1 THEN r ELSE row[i]]
    BY DEF Proj!Inserted
  <1>3. /\ DOMAIN row' = DOMAIN row \cup {ids + 1}
        /\ row'[ids + 1] = r /\ \A i \in DOMAIN row : row'[i] = row[i]
    BY <1>1, <1>2
  <1>4. \A i \in DOMAIN row : row[i] \in ProjectRow
    BY DEF TableTyped
  <1>5. row' \in [DOMAIN row' -> ProjectRow]
    BY <1>2, <1>3, <1>4
  <1>6. DOMAIN row' \subseteq 1..ids'
    BY <1>1, <1>3 DEF TableTyped
  <1> QED
    BY <1>1, <1>3, <1>5, <1>6

(* Rows are only added: keys and counts stay.                              *)
LEMMA AddedKeeps ==
  ASSUME ProjectsInv, \A i \in DOMAIN row : row'[i] = row[i]
  PROVE  Proj!KeyReplaced /\ Proj!CountGrows
  <1>1. \A i \in DOMAIN row : row[i].used \in Nat
    BY DEF ProjectsInv, TableTyped, ProjectRow
  <1> QED
    BY <1>1 DEF Proj!KeyReplaced, Proj!CountGrows

(* The owner creates a project: no sign-up's row.                          *)
LEMMA CreateInv ==
  ASSUME ProjectLimits, ProjectsInv, Proj!CreateProject
  PROVE  ProjectsInv' /\ Proj!KeyReplaced /\ Proj!CountGrows
  <1> DEFINE r == Proj!NewRow(Slug, tokens + 1, -1, "noname")
  <1>1. /\ Proj!Inserted(r) /\ tokens' = tokens + 1
        /\ UNCHANGED <<projectsJobs, signup, form, client>>
    BY DEF Proj!CreateProject, Proj!Unlimited, Proj!NoName
  <1>2. r \in ProjectRow /\ r.ip = "noname"
    BY DEF Proj!NewRow, ProjectRow, ProjectLimits, ProjectsInv, TableTyped
  <1> HIDE DEF r
  <1>3. /\ ids' = ids + 1 /\ ids' \in Nat /\ ids + 1 \notin DOMAIN row
        /\ DOMAIN row' = DOMAIN row \cup {ids + 1} /\ DOMAIN row' \subseteq 1..ids'
        /\ row' \in [DOMAIN row' -> ProjectRow]
        /\ row'[ids + 1] = r /\ \A i \in DOMAIN row : row'[i] = row[i]
    BY <1>1, <1>2, NewRowFact DEF ProjectsInv
  <1>4. TableTyped' /\ SessionsTyped'
    BY <1>1, <1>3 DEF ProjectsInv, TableTyped, SessionsTyped
  <1>5. Counting' = Counting /\ \A a \in Ip : CountingFrom(a)' = CountingFrom(a)
    BY <1>1 DEF Counting, CountingFrom
  <1>6. Proj!Recent' = Proj!Recent
    BY <1>2, <1>3 DEF Proj!Recent, Proj!NoName
  <1>7. \A a \in Ip : Proj!From(a)' \subseteq Proj!From(a)
    BY <1>3, <1>6 DEF Proj!From, Proj!Recent
  <1>8. Places'
    BY <1>4, <1>5, <1>6, <1>7, PlacesFall DEF ProjectsInv
  <1>9. IdsGiven' /\ Proj!JobsGoWithProject'
    BY <1>1, <1>3 DEF ProjectsInv, IdsGiven, Proj!JobsGoWithProject, SessionsTyped, SignupState, TableTyped
  <1>10. Proj!SignupOwnsItsProject'
    <2>1. \A w \in Worker : signup[w].pc = "done" => signup[w].id # ids + 1
      BY DEF ProjectsInv, IdsGiven, TableTyped
    <2> QED
      BY <1>1, <1>3, <2>1 DEF ProjectsInv, Proj!SignupOwnsItsProject
  <1> QED
    BY <1>3, <1>4, <1>8, <1>9, <1>10, AddedKeeps DEF ProjectsInv

(* Sessions of sign-up: one worker moves.                                  *)
LEMMA SignupMoves ==
  ASSUME SessionsTyped, NEW w \in Worker, NEW s \in SignupState,
         signup' = [signup EXCEPT ![w] = s], UNCHANGED <<form, client>>
  PROVE  /\ SessionsTyped' /\ signup'[w] = s
         /\ \A v \in Worker : v # w => signup'[v] = signup[v]
  BY DEF SessionsTyped

(* A sign-up that holds no place and has no project afterwards.            *)
LEMMA OffInv ==
  ASSUME ProjectLimits, ProjectsInv, NEW w \in Worker, NEW s \in SignupState,
         signup' = [signup EXCEPT ![w] = s], s.pc \in {"count", "refused"},
         UNCHANGED <<row, ids, tokens, projectsJobs, form, client>>
  PROVE  ProjectsInv' /\ Proj!KeyReplaced /\ Proj!CountGrows
  <1>1. /\ SessionsTyped' /\ signup'[w] = s
        /\ \A v \in Worker : v # w => signup'[v] = signup[v]
    BY SignupMoves DEF ProjectsInv
  <1>2. TableTyped' /\ IdsGiven' /\ Proj!JobsGoWithProject'
    BY <1>1 DEF ProjectsInv, TableTyped, IdsGiven, Proj!JobsGoWithProject
  <1>3. /\ Counting' \subseteq Counting /\ \A a \in Ip : CountingFrom(a)' \subseteq CountingFrom(a)
        /\ Proj!Recent' = Proj!Recent /\ \A a \in Ip : Proj!From(a)' = Proj!From(a)
    BY <1>1 DEF Counting, CountingFrom, Proj!Recent, Proj!From
  <1>4. Places'
    BY <1>2, <1>3, PlacesFall DEF ProjectsInv
  <1>5. Proj!SignupOwnsItsProject'
    BY <1>1 DEF ProjectsInv, Proj!SignupOwnsItsProject
  <1> QED
    BY <1>1, <1>2, <1>4, <1>5, AddedKeeps DEF ProjectsInv

(* The count of a sign-up: within the limits it takes a place.             *)
LEMMA CountInv ==
  ASSUME ProjectLimits, ProjectsInv, NEW w \in Worker, Proj!_check_limits(w)
  PROVE  ProjectsInv' /\ Proj!KeyReplaced /\ Proj!CountGrows
  <1>0. Proj!Idle \in SignupState /\ signup[w] \in SignupState /\ tokens + 1 \in Nat
    BY DEF Proj!Idle, Proj!NoName, SignupState, ProjectsInv, SessionsTyped, TableTyped
  <1>1. CASE Proj!OverLimit(signup[w].ip)
    <2> DEFINE s == [Proj!Idle EXCEPT !.pc = "refused"]
    <2>1. /\ signup' = [signup EXCEPT ![w] = s]
          /\ UNCHANGED <<row, ids, tokens, projectsJobs, form, client>>
      BY <1>1 DEF Proj!_check_limits
    <2>2. s \in SignupState /\ s.pc = "refused"
      BY <1>0 DEF SignupState
    <2> HIDE DEF s
    <2> QED
      BY <2>1, <2>2, OffInv
  <1>2. CASE ~Proj!OverLimit(signup[w].ip)
    <2> DEFINE s == [signup[w] EXCEPT !.pc = "insert", !.name = Slug, !.token = tokens + 1]
    <2>1. /\ signup' = [signup EXCEPT ![w] = s] /\ tokens' = tokens + 1
          /\ UNCHANGED <<row, ids, projectsJobs, form, client>>
      BY <1>2 DEF Proj!_check_limits
    <2>2. s \in SignupState /\ s.pc = "insert" /\ s.ip = signup[w].ip
      BY <1>0 DEF SignupState, ProjectLimits
    <2> HIDE DEF s
    <2>3. /\ SessionsTyped' /\ signup'[w] = s
          /\ \A v \in Worker : v # w => signup'[v] = signup[v]
      BY <2>1, <2>2, SignupMoves DEF ProjectsInv
    <2>4. TableTyped' /\ IdsGiven' /\ Proj!JobsGoWithProject'
      BY <1>0, <2>1, <2>2, <2>3 DEF ProjectsInv, TableTyped, IdsGiven, Proj!JobsGoWithProject
    <2>5. Proj!SignupOwnsItsProject'
      BY <2>1, <2>2, <2>3 DEF ProjectsInv, Proj!SignupOwnsItsProject
    <2>6. Cardinality(Proj!Recent) < PerDay /\ Cardinality(Proj!From(signup[w].ip)) < PerIp
      BY <1>2, ProjCounts, PlacesFinite DEF Proj!OverLimit, ProjectLimits, ProjectsInv
    <2>7. Proj!Recent' = Proj!Recent /\ \A a \in Ip : Proj!From(a)' = Proj!From(a)
      BY <2>1 DEF Proj!Recent, Proj!From
    <2>8. /\ Counting' \in SUBSET Worker
          /\ \A a \in Ip : CountingFrom(a)' \in SUBSET Worker
          /\ \A a \in Ip : a # signup[w].ip => CountingFrom(a)' \subseteq CountingFrom(a)
      BY <2>2, <2>3 DEF Counting, CountingFrom
    <2>9. ASSUME NEW D \in SUBSET Worker
          PROVE  Cardinality(D) \in Nat /\ Cardinality(D) <= Cardinality(Worker)
      BY FS_Subset, FS_CardinalityType DEF ProjectLimits
    <2>10. Cardinality(Proj!Recent') + Cardinality(Counting') <= PerDay + Cardinality(Worker) - 1
      BY <2>6, <2>7, <2>8, <2>9, PlacesFinite DEF ProjectsInv, ProjectLimits
    <2>11. ASSUME NEW a \in Ip
           PROVE  Cardinality(Proj!From(a)') + Cardinality(CountingFrom(a)')
                    <= PerIp + Cardinality(Worker) - 1
      <3>1. /\ Cardinality(Proj!From(a)') = Cardinality(Proj!From(a))
            /\ Cardinality(Proj!From(a)) \in Nat /\ Cardinality(Worker) \in Nat
            /\ Cardinality(CountingFrom(a)) \in Nat /\ IsFiniteSet(CountingFrom(a))
        BY <2>7, PlacesFinite DEF ProjectsInv
      <3>2. /\ Cardinality(CountingFrom(a)') \in Nat
            /\ Cardinality(CountingFrom(a)') <= Cardinality(Worker)
        BY <2>8, <2>9
      <3>3. CASE a = signup[w].ip
        BY <2>6, <3>1, <3>2, <3>3 DEF ProjectLimits
      <3>4. CASE a # signup[w].ip
        <4>1. Cardinality(CountingFrom(a)') <= Cardinality(CountingFrom(a))
          BY <2>8, <3>1, <3>4, FS_Subset
        <4>2. Cardinality(Proj!From(a)) + Cardinality(CountingFrom(a)) <= PerIp + Cardinality(Worker) - 1
          BY DEF ProjectsInv, Places
        <4> QED
          BY <3>1, <3>2, <4>1, <4>2 DEF ProjectLimits
      <3> QED
        BY <3>3, <3>4
    <2>12. Places'
      BY <2>10, <2>11 DEF Places
    <2> QED
      BY <2>1, <2>3, <2>4, <2>5, <2>12, AddedKeeps DEF ProjectsInv
  <1> QED
    BY <1>1, <1>2

(* The insert: the place becomes a row, the name was taken, or no name was *)
(* found.                                                                  *)
LEMMA InsertedInv ==
  ASSUME ProjectLimits, ProjectsInv, NEW w \in Worker, signup[w].pc = "insert",
         Proj!Inserted(Proj!NewRow(signup[w].name, signup[w].token, SignupCap, signup[w].ip)),
         signup' = [signup EXCEPT ![w] = [signup[w] EXCEPT !.pc = "done", !.id = ids + 1]],
         UNCHANGED <<tokens, projectsJobs, form, client>>
  PROVE  ProjectsInv' /\ Proj!KeyReplaced /\ Proj!CountGrows
  <1> DEFINE r == Proj!NewRow(signup[w].name, signup[w].token, SignupCap, signup[w].ip)
  <1> DEFINE s == [signup[w] EXCEPT !.pc = "done", !.id = ids + 1]
  <1>0. signup[w] \in SignupState /\ ids + 1 \in Nat
    BY DEF ProjectsInv, SessionsTyped, TableTyped
  <1>1. r \in ProjectRow /\ r.ip = signup[w].ip
    BY <1>0 DEF Proj!NewRow, ProjectRow, SignupState, ProjectLimits
  <1>2. s \in SignupState /\ s.pc = "done" /\ s.id = ids + 1 /\ s.ip = signup[w].ip
    BY <1>0 DEF SignupState
  <1>3. signup' = [signup EXCEPT ![w] = s] /\ Proj!Inserted(r)
    OBVIOUS
  <1> HIDE DEF r, s
  <1>4. /\ ids' = ids + 1 /\ ids' \in Nat /\ ids + 1 \notin DOMAIN row
        /\ DOMAIN row' = DOMAIN row \cup {ids + 1} /\ DOMAIN row' \subseteq 1..ids'
        /\ row' \in [DOMAIN row' -> ProjectRow]
        /\ row'[ids + 1] = r /\ \A i \in DOMAIN row : row'[i] = row[i]
    BY <1>1, <1>3, NewRowFact DEF ProjectsInv
  <1>5. /\ SessionsTyped' /\ signup'[w] = s
        /\ \A v \in Worker : v # w => signup'[v] = signup[v]
    BY <1>2, <1>3, SignupMoves DEF ProjectsInv
  <1>6. TableTyped'
    BY <1>4 DEF ProjectsInv, TableTyped
  <1>7. IdsGiven' /\ Proj!JobsGoWithProject'
    BY <1>2, <1>4, <1>5 DEF ProjectsInv, IdsGiven, Proj!JobsGoWithProject, TableTyped,
      SessionsTyped, SignupState
  <1>8. Proj!SignupOwnsItsProject'
    <2>1. \A v \in Worker : signup[v].pc = "done" => signup[v].id # ids + 1
      BY DEF ProjectsInv, IdsGiven, TableTyped
    <2>2. ASSUME NEW v \in Worker, signup'[v].pc = "done"
          PROVE  signup'[v].id \in DOMAIN row' => row'[signup'[v].id].ip = signup'[v].ip
      <3>1. CASE v = w
        BY <1>1, <1>2, <1>4, <1>5, <3>1
      <3>2. CASE v # w
        BY <1>4, <1>5, <2>1, <2>2, <3>2 DEF ProjectsInv, Proj!SignupOwnsItsProject
      <3> QED
        BY <3>1, <3>2
    <2>3. ASSUME NEW v \in Worker, NEW u \in Worker \ {v}, signup'[v].pc = "done",
                 signup'[u].pc = "done"
          PROVE  signup'[u].id # signup'[v].id
      <3>1. CASE v = w
        BY <1>2, <1>5, <2>1, <2>3, <3>1
      <3>2. CASE u = w
        BY <1>2, <1>5, <2>1, <2>3, <3>2
      <3>3. CASE v # w /\ u # w
        BY <1>5, <2>3, <3>3 DEF ProjectsInv, Proj!SignupOwnsItsProject
      <3> QED
        BY <3>1, <3>2, <3>3
    <2> QED
      BY <2>2, <2>3 DEF Proj!SignupOwnsItsProject
  <1>9. Places'
    <2>1. /\ Proj!Recent' \in SUBSET (Proj!Recent \cup {ids + 1})
          /\ Counting' \in SUBSET (Counting \ {w}) /\ w \in Counting
      BY <1>2, <1>4, <1>5 DEF Proj!Recent, Counting
    <2>2. Cardinality(Proj!Recent') + Cardinality(Counting')
            <= Cardinality(Proj!Recent) + Cardinality(Counting)
      BY <2>1, PlacesFinite, SumMoves DEF ProjectsInv
    <2>3. /\ Cardinality(Proj!Recent') \in Nat /\ Cardinality(Counting') \in Nat
          /\ Cardinality(Proj!Recent) \in Nat /\ Cardinality(Counting) \in Nat
          /\ Cardinality(Worker) \in Nat
      <3>1. IsFiniteSet(Proj!Recent \cup {ids + 1}) /\ IsFiniteSet(Counting \ {w})
        BY PlacesFinite, FS_AddElement, FS_RemoveElement DEF ProjectsInv
      <3>2. IsFiniteSet(Proj!Recent') /\ IsFiniteSet(Counting')
        BY <2>1, <3>1, FS_Subset
      <3> QED
        BY <3>2, PlacesFinite, FS_CardinalityType DEF ProjectsInv
    <2>4. Cardinality(Proj!Recent') + Cardinality(Counting') <= PerDay + Cardinality(Worker) - 1
      BY <2>2, <2>3 DEF ProjectsInv, Places, ProjectLimits
    <2>5. ASSUME NEW a \in Ip
          PROVE  Cardinality(Proj!From(a)') + Cardinality(CountingFrom(a)')
                   <= PerIp + Cardinality(Worker) - 1
      <3>1. /\ IsFiniteSet(Proj!From(a)) /\ IsFiniteSet(CountingFrom(a))
            /\ Cardinality(Proj!From(a)) \in Nat /\ Cardinality(CountingFrom(a)) \in Nat
            /\ Cardinality(Worker) \in Nat
        BY PlacesFinite DEF ProjectsInv
      <3>2. CASE a = signup[w].ip
        <4>1. /\ Proj!From(a)' \in SUBSET (Proj!From(a) \cup {ids + 1})
              /\ CountingFrom(a)' \in SUBSET (CountingFrom(a) \ {w}) /\ w \in CountingFrom(a)
          BY <1>2, <1>4, <1>5, <3>2 DEF Proj!From, Proj!Recent, CountingFrom
        <4>2. Cardinality(Proj!From(a)') + Cardinality(CountingFrom(a)')
                <= Cardinality(Proj!From(a)) + Cardinality(CountingFrom(a))
          BY <3>1, <4>1, SumMoves
        <4>3. IsFiniteSet(Proj!From(a)') /\ IsFiniteSet(CountingFrom(a)')
          <5>1. IsFiniteSet(Proj!From(a) \cup {ids + 1}) /\ IsFiniteSet(CountingFrom(a) \ {w})
            BY <3>1, FS_AddElement, FS_RemoveElement
          <5> QED
            BY <4>1, <5>1, FS_Subset
        <4>4. Cardinality(Proj!From(a)') \in Nat /\ Cardinality(CountingFrom(a)') \in Nat
          BY <4>3, FS_CardinalityType
        <4> QED
          BY <3>1, <4>2, <4>4 DEF ProjectsInv, Places, ProjectLimits
      <3>3. CASE a # signup[w].ip
        <4>1. /\ Proj!From(a)' \in SUBSET Proj!From(a)
              /\ CountingFrom(a)' \in SUBSET CountingFrom(a)
          BY <1>1, <1>2, <1>4, <1>5, <3>3 DEF Proj!From, Proj!Recent, CountingFrom
        <4>2. Cardinality(Proj!From(a)') + Cardinality(CountingFrom(a)')
                <= Cardinality(Proj!From(a)) + Cardinality(CountingFrom(a))
          BY <3>1, <4>1, SumFalls
        <4>3. Cardinality(Proj!From(a)') \in Nat /\ Cardinality(CountingFrom(a)') \in Nat
          BY <3>1, <4>1, FS_Subset, FS_CardinalityType
        <4> QED
          BY <3>1, <4>2, <4>3 DEF ProjectsInv, Places, ProjectLimits
      <3> QED
        BY <3>2, <3>3
    <2> QED
      BY <2>4, <2>5 DEF Places
  <1> QED
    BY <1>4, <1>5, <1>6, <1>7, <1>8, <1>9, AddedKeeps DEF ProjectsInv

(* A clash of names: another name, the same place.                         *)
LEMMA RenamedInv ==
  ASSUME ProjectLimits, ProjectsInv, NEW w \in Worker, NEW n \in Name,
         signup[w].pc = "insert",
         signup' = [signup EXCEPT ![w] = Proj!Renamed(signup[w], n)],
         signup[w].tries + 1 # NameRetries,
         UNCHANGED <<row, ids, tokens, projectsJobs, form, client>>
  PROVE  ProjectsInv' /\ Proj!KeyReplaced /\ Proj!CountGrows
  <1> DEFINE s == Proj!Renamed(signup[w], n)
  <1>0. signup[w] \in SignupState /\ signup[w].tries + 1 \in Nat
    BY DEF ProjectsInv, SessionsTyped, SignupState
  <1>1. s \in SignupState /\ s.pc = "insert" /\ s.ip = signup[w].ip
    <2> DEFINE k == signup[w].tries + 1
    <2>1. s = [signup[w] EXCEPT !.name = n, !.tries = k] /\ k \in Nat
      BY <1>0, Zenon DEF Proj!Renamed
    <2> HIDE DEF k, s
    <2> QED
      BY <1>0, <2>1 DEF SignupState
  <1>2. signup' = [signup EXCEPT ![w] = s]
    OBVIOUS
  <1> HIDE DEF s
  <1>3. /\ SessionsTyped' /\ signup'[w] = s
        /\ \A v \in Worker : v # w => signup'[v] = signup[v]
    BY <1>1, <1>2, SignupMoves DEF ProjectsInv
  <1>4. TableTyped' /\ IdsGiven' /\ Proj!JobsGoWithProject'
    BY <1>1, <1>3 DEF ProjectsInv, TableTyped, IdsGiven, Proj!JobsGoWithProject
  <1>5. /\ Counting' \subseteq Counting /\ \A a \in Ip : CountingFrom(a)' \subseteq CountingFrom(a)
        /\ Proj!Recent' = Proj!Recent /\ \A a \in Ip : Proj!From(a)' = Proj!From(a)
    BY <1>1, <1>3 DEF Counting, CountingFrom, Proj!Recent, Proj!From
  <1>6. Places'
    BY <1>4, <1>5, PlacesFall DEF ProjectsInv
  <1>7. Proj!SignupOwnsItsProject'
    BY <1>1, <1>3 DEF ProjectsInv, Proj!SignupOwnsItsProject
  <1> QED
    BY <1>3, <1>4, <1>6, <1>7, AddedKeeps DEF ProjectsInv

(* Every step of a sign-up.                                                *)
LEMMA SignupInv ==
  ASSUME ProjectLimits, ProjectsInv, NEW w \in Worker,
         Proj!Begin(w) \/ Proj!_check_limits(w) \/ Proj!_insert_unique(w)
  PROVE  ProjectsInv' /\ Proj!KeyReplaced /\ Proj!CountGrows
  <1>0. Proj!Idle \in SignupState
    BY DEF Proj!Idle, Proj!NoName, SignupState
  <1>1. CASE Proj!Begin(w)
    <2>1. PICK a \in Ip : signup' = [signup EXCEPT ![w] = [Proj!Idle EXCEPT !.pc = "count", !.ip = a]]
      BY <1>1, Zenon DEF Proj!Begin
    <2> DEFINE s == [Proj!Idle EXCEPT !.pc = "count", !.ip = a]
    <2>2. s \in SignupState /\ s.pc = "count" /\ signup' = [signup EXCEPT ![w] = s]
      BY <1>0, <2>1 DEF SignupState
    <2> HIDE DEF s
    <2>3. UNCHANGED <<row, ids, tokens, projectsJobs, form, client>>
      BY <1>1, Zenon DEF Proj!Begin
    <2> QED
      BY <2>2, <2>3, OffInv
  <1>2. CASE Proj!_check_limits(w)
    BY <1>2, CountInv
  <1>3. CASE Proj!_insert_unique(w)
    <2>0. signup[w].pc = "insert" /\ UNCHANGED <<tokens, projectsJobs, form, client>>
      BY <1>3, Zenon DEF Proj!_insert_unique
    <2>1. CASE /\ Proj!Inserted(Proj!NewRow(signup[w].name, signup[w].token, SignupCap, signup[w].ip))
               /\ signup' = [signup EXCEPT ![w] = [signup[w] EXCEPT !.pc = "done", !.id = ids + 1]]
      BY <2>0, <2>1, InsertedInv, Zenon
    <2>2. CASE /\ \E n \in Name :
                    signup' = [signup EXCEPT ![w] = Proj!Renamed(signup[w], n)]
               /\ UNCHANGED <<row, ids>>
      <3>1. PICK n \in Name :
              signup' = [signup EXCEPT ![w] = Proj!Renamed(signup[w], n)]
        BY <2>2
      <3>2. CASE signup[w].tries + 1 = NameRetries
        <4> DEFINE s == [Proj!Idle EXCEPT !.pc = "refused"]
        <4>1. s \in SignupState /\ s.pc = "refused"
          BY <1>0 DEF SignupState
        <4>2. signup' = [signup EXCEPT ![w] = s]
          BY <3>1, <3>2, Zenon DEF Proj!Renamed
        <4> HIDE DEF s
        <4> QED
          BY <2>0, <2>2, <4>1, <4>2, OffInv
      <3>3. CASE signup[w].tries + 1 # NameRetries
        BY <2>0, <2>2, <3>1, <3>3, RenamedInv
      <3> QED
        BY <3>2, <3>3
    <2> QED
      BY <1>3, <2>1, <2>2, Zenon DEF Proj!_insert_unique
  <1> QED
    BY <1>1, <1>2, <1>3

(* Every step of the table of projects.                                    *)
LEMMA ProjectsStep ==
  ASSUME ProjectLimits, ProjectsInv, [Proj!Next]_(Proj!vars)
  PROVE  ProjectsInv' /\ [Proj!KeyReplaced]_(Proj!vars) /\ [Proj!CountGrows]_(Proj!vars)
  <1>1. CASE Proj!Next
    BY <1>1, SignupInv, DayInv, CreateInv, LoadInv, EditInv, RotateInv, DeleteInv, ClientInv
    DEF Proj!Next
  <1>2. CASE UNCHANGED Proj!vars
    <2>1. UNCHANGED <<row, ids, tokens, projectsJobs, signup, form, client>>
      BY <1>2 DEF Proj!vars
    <2> QED
      BY <1>2, <2>1, SameRows, KeptInv
      DEF ProjectsInv, Proj!JobsGoWithProject, TableTyped, SessionsTyped
  <1> QED
    BY <1>1, <1>2

(* Every initial state: an empty table and nobody signing up.              *)
LEMMA ProjectsInit ==
  ASSUME ProjectLimits, Proj!Init
  PROVE  ProjectsInv
  <1>1. /\ Proj!Idle \in SignupState /\ Proj!Idle.pc = "idle" /\ Proj!NoForm \in FormState
        /\ Proj!NoClient \in [pc : {"idle", "in", "admitted"}, id : Nat, capped : BOOLEAN]
    BY DEF Proj!Idle, Proj!NoName, Proj!NoForm, Proj!NoClient, Proj!Unlimited, SignupState, FormState
  <1>2. DOMAIN row = {} /\ row \in [DOMAIN row -> ProjectRow]
    BY DEF Proj!Init
  <1>3. TableTyped
    BY <1>2 DEF Proj!Init, TableTyped
  <1>4. SessionsTyped
    BY <1>1 DEF Proj!Init, SessionsTyped
  <1>5. \A w \in Worker : signup[w].pc = "idle"
    BY <1>1 DEF Proj!Init
  <1>6. IdsGiven /\ Proj!SignupOwnsItsProject /\ Proj!JobsGoWithProject
    BY <1>5 DEF Proj!Init, IdsGiven, Proj!SignupOwnsItsProject, Proj!JobsGoWithProject
  <1>7. /\ Proj!Recent = {} /\ Counting = {}
        /\ \A a \in Ip : Proj!From(a) = {} /\ CountingFrom(a) = {}
    BY <1>2, <1>5 DEF Proj!Recent, Proj!From, Counting, CountingFrom
  <1>8. Cardinality({}) = 0 /\ Cardinality(Worker) \in Nat /\ Cardinality(Worker) # 0
    BY FS_EmptySet, FS_CardinalityType DEF ProjectLimits
  <1>9. Places
    <2>1. /\ 0 + 0 <= PerDay + Cardinality(Worker) - 1
          /\ 0 + 0 <= PerIp + Cardinality(Worker) - 1
      BY <1>8 DEF ProjectLimits
    <2>2. /\ Cardinality(Proj!Recent) = 0 /\ Cardinality(Counting) = 0
          /\ \A a \in Ip : Cardinality(Proj!From(a)) = 0 /\ Cardinality(CountingFrom(a)) = 0
      BY <1>7, <1>8
    <2> QED
      BY <2>1, <2>2 DEF Places
  <1> QED
    BY <1>3, <1>4, <1>6, <1>9 DEF ProjectsInv

(* The invariant of the projects along a behaviour of the run.             *)
LEMMA ProjectsAlong ==
  /\ InitAll => (which = "projects" => ProjectsInv)
  /\ (which = "projects" => ProjectsInv) /\ [NextAll]_allVars
       => /\ (which = "projects" => ProjectsInv)'
          /\ [which = "projects" => Proj!KeyReplaced]_projectsVars
          /\ [which = "projects" => Proj!CountGrows]_projectsVars
  <1>1. InitAll => (which = "projects" => ProjectsInv)
    BY ProjectAssumption, ProjectsInit DEF InitAll
  <1>2. ASSUME which = "projects" => ProjectsInv, [NextAll]_allVars
        PROVE  /\ (which = "projects" => ProjectsInv)'
               /\ [which = "projects" => Proj!KeyReplaced]_projectsVars
               /\ [which = "projects" => Proj!CountGrows]_projectsVars
    <2>1. which' = which
      BY <1>2 DEF NextAll, Submission, Administration, Caching, Remembering, allVars
    <2>2. which = "projects" => [Proj!Next]_(Proj!vars)
      BY <1>2 DEF NextAll, Submission, Administration, Caching, Remembering, allVars,
        projectsVars, Proj!vars
    <2>3. CASE which = "projects"
      <3>1. ProjectsInv' /\ [Proj!KeyReplaced]_(Proj!vars) /\ [Proj!CountGrows]_(Proj!vars)
        BY <1>2, <2>2, <2>3, ProjectAssumption, ProjectsStep
      <3> QED
        BY <2>1, <3>1 DEF projectsVars, Proj!vars
    <2> QED
      BY <2>1, <2>3
  <1> QED
    BY <1>1, <1>2

(* Counting before inserting overshoots the daily limits of sign-up by no  *)
(* more than the other sign-ups in flight; every sign-up is answered with  *)
(* a project of its own; and a deleted project leaves no job behind        *)
(* (self_signup, dash_delete_project).                                     *)
THEOREM ProjectsAreSound == SpecAll => []ProjectsSound
  <1> USE ProjectAssumption
  <1>1. ProjectsInv => Proj!ProjectsSound
    <2> SUFFICES ASSUME ProjectsInv PROVE Proj!SignupOvershoot
      BY DEF ProjectsInv, Proj!ProjectsSound
    <2>1. Cardinality(Proj!Recent) <= PerDay + Cardinality(Worker) - 1
      BY PlacesFinite DEF ProjectsInv, Places, ProjectLimits
    <2>2. ASSUME NEW a \in Ip
          PROVE  Cardinality(Proj!From(a)) <= PerIp + Cardinality(Worker) - 1
      <3>1. Cardinality(Proj!From(a)) + Cardinality(CountingFrom(a)) <= PerIp + Cardinality(Worker) - 1
        BY DEF ProjectsInv, Places
      <3>2. /\ Cardinality(Proj!From(a)) \in Nat /\ Cardinality(CountingFrom(a)) \in Nat
            /\ Cardinality(Worker) \in Nat
        BY PlacesFinite DEF ProjectsInv
      <3> QED
        BY <3>1, <3>2 DEF ProjectLimits
    <2> QED
      BY <2>1, <2>2, ProjCounts DEF Proj!SignupOvershoot
  <1>2. (which = "projects" => ProjectsInv) => ProjectsSound
    BY <1>1 DEF ProjectsSound
  <1> QED
    BY <1>2, ProjectsAlong, PTL DEF SpecAll

(* An owner's form saved late brings back no key that was rotated out and  *)
(* takes back no request that was counted while it was open                *)
(* (dash_edit_project, dash_rotate_project_token).                         *)
THEOREM FormsTakeNothingBack == SpecAll => FormsKeep
  BY ProjectsAlong, PTL DEF SpecAll, FormsKeep, RotationSticks, CountKept

-----------------------------------------------------------------------------
(* What the workers share about routing.                                   *)

(* An entry of a dictionary or of the store.                               *)
Noted == [age : Nat, stamp : Nat]

(* The record of a request.                                                *)
RoutingCall ==
  [pc : {"idle", "get", "db", "set", "done"}, w : Worker \cup {Routing!Nobody},
   op : {"none", "note", "lookup", "sat"}, slot : Routing!Slot, since : Nat, t0 : Nat, age : Int]

(* The entries of one process: a pin is as old as its stamp, a verdict was *)
(* at most one time to live and one write older when it was stamped.       *)
OwnOK(own) ==
  /\ own \in [Routing!Slot -> SUBSET Noted]
  /\ \A s \in Routing!Slot : \A e, f \in own[s] : e = f
  /\ \A s \in {"pin", "route"} : \A e \in own[s] : e.stamp <= PinTTL => e.age <= e.stamp
  /\ \A e \in own["sat"] : e.stamp < SatTTL => e.age <= e.stamp + SatTTL + Slow

(* An entry of the store is older than the life it has used up by no more  *)
(* than the write that stored it.                                          *)
StoreOK(st) ==
  /\ st \in [Routing!Slot -> SUBSET Noted]
  /\ \A s \in Routing!Slot : \A e \in st[s] : e.age + e.stamp <= Routing!TtlOf(s) + Slow

(* A request under way knows its worker and what it is for.                *)
Base(x) ==
  /\ x \in RoutingCall /\ x.w \in Worker /\ x.since <= Slow
  /\ x.op # "none" /\ (x.op = "sat" <=> x.slot = "sat")

(* It waits no longer than Slow, and what it is about to store is no older *)
(* than its wait.                                                          *)
Waiting(x) ==
  /\ Base(x) /\ x.pc \in {"get", "db", "set"}
  /\ x.pc = "get" => x.op \in {"lookup", "sat"}
  /\ x.pc = "db" => x.op = "sat"
  /\ x.pc = "set" => x.op \in {"note", "sat"} /\ 0 <= x.age /\ x.age <= x.since

(* What an operation may answer with.                                      *)
Fresh(op, age) ==
  /\ op = "lookup" => age <= PinTTL + Slow
  /\ op = "sat" => age <= 2 * SatTTL + Slow

(* A call of the store began before the last failure of its process, or    *)
(* that is a retry window ago.                                             *)
Excused(x, fl) == x.pc \in {"get", "set"} => x.since >= fl \/ fl = RetryS

(* A request at any time; fs is when each process last failed.             *)
CallOK(x, fs) ==
  /\ x.pc = "idle" => x = Routing!Idle
  /\ x.pc = "done" => x \in RoutingCall /\ Fresh(x.op, x.age)
  /\ x.pc \notin {"idle", "done"} => Waiting(x) /\ Excused(x, fs[x.w])

(* The step of a coroutine whose process has fl ticks since its last       *)
(* failure.                                                                *)
ResOK(res, w, fl) ==
  /\ res.x \in RoutingCall /\ res.x.w = w /\ w \in Worker /\ OwnOK(res.own) /\ res.off = RetryS - fl
  /\ res.x.pc # "idle" /\ Excused(res.x, fl)
  /\ IF res.x.pc = "done" THEN Fresh(res.x.op, res.x.age) ELSE Waiting(res.x)

(* The store is off for a process exactly as long as its failure is less   *)
(* than a retry window ago.                                                *)
RoutingInv ==
  /\ StoreOK(redis)
  /\ local \in [Worker -> [Routing!Slot -> SUBSET Noted]] /\ \A w \in Worker : OwnOK(local[w])
  /\ failed \in [Worker -> 0 .. RetryS] /\ off \in [Worker -> Nat]
  /\ \A w \in Worker : off[w] = RetryS - failed[w]
  /\ routingReq \in [Call -> RoutingCall] /\ \A r \in Call : CallOK(routingReq[r], failed)

(* A request that does nothing.                                            *)
LEMMA IdleFacts ==
  /\ Routing!Idle \in RoutingCall /\ Routing!Idle.pc = "idle" /\ Routing!Idle.since = 0
  /\ Routing!Idle.t0 = 0 /\ Routing!Idle.age = -1 /\ Routing!Idle.slot = "pin"
  BY DEF Routing!Idle, RoutingCall, Routing!Slot

(* Nothing is remembered at first.                                         *)
LEMMA RoutingInit == Routing!Init => RoutingInv
  <1> SUFFICES ASSUME Routing!Init PROVE RoutingInv
    OBVIOUS
  <1>1. StoreOK(redis)
    BY DEF Routing!Init, StoreOK
  <1>2. local \in [Worker -> [Routing!Slot -> SUBSET Noted]] /\ \A w \in Worker : OwnOK(local[w])
    BY DEF Routing!Init, OwnOK, Routing!Slot
  <1>3. /\ failed \in [Worker -> 0 .. RetryS] /\ off \in [Worker -> Nat]
        /\ \A w \in Worker : off[w] = RetryS - failed[w]
    BY RoutingAssumption DEF Routing!Init
  <1>4. routingReq \in [Call -> RoutingCall] /\ \A r \in Call : CallOK(routingReq[r], failed)
    BY IdleFacts DEF Routing!Init, CallOK
  <1> QED BY <1>1, <1>2, <1>3, <1>4 DEF RoutingInv

(* A pair of answer and entries.                                           *)
LEMMA AnswerOK ==
  ASSUME NEW x, Base(x), NEW own, OwnOK(own), NEW fl \in 0 .. RetryS, NEW age \in Int,
         Fresh(x.op, age)
  PROVE  ResOK(Routing!Answer(x, own, RetryS - fl, age), x.w, fl)
  <1> DEFINE y == [x EXCEPT !.pc = "done", !.age = age]
  <1>1. y \in RoutingCall /\ y.w = x.w /\ y.pc = "done" /\ y.age = age /\ y.op = x.op
    BY DEF Base, RoutingCall
  <1>2. Routing!Answer(x, own, RetryS - fl, age) = [x |-> y, own |-> own, off |-> RetryS - fl]
    BY DEF Routing!Answer, Routing!Result
  <1> HIDE DEF y
  <1> QED BY <1>1, <1>2 DEF ResOK, Excused, Base

(* A call of the store begins only when it is on.                          *)
LEMMA AwaitOK ==
  ASSUME NEW x, Base(x), NEW own, OwnOK(own), NEW fl \in 0 .. RetryS, NEW pc \in {"get", "db", "set"},
         pc = "get" => x.op \in {"lookup", "sat"}, pc = "db" => x.op = "sat",
         pc = "set" => x.op \in {"note", "sat"} /\ x.age = 0,
         pc # "db" => Routing!_get_client(RetryS - fl)
  PROVE  ResOK(Routing!Await(x, own, RetryS - fl, pc), x.w, fl)
  <1> DEFINE y == [x EXCEPT !.pc = pc, !.since = 0]
  <1>1. y \in RoutingCall /\ y.w = x.w /\ y.pc = pc /\ y.age = x.age /\ y.op = x.op /\ y.since = 0
        /\ y.slot = x.slot
    BY DEF Base, RoutingCall
  <1>2. Routing!Await(x, own, RetryS - fl, pc) = [x |-> y, own |-> own, off |-> RetryS - fl]
    BY DEF Routing!Await, Routing!Result
  <1>3. pc # "db" => fl = RetryS
    BY RoutingAssumption DEF Routing!_get_client
  <1> HIDE DEF y
  <1>4. Waiting(y)
    BY <1>1, RoutingAssumption DEF Waiting, Base
  <1> QED BY <1>1, <1>2, <1>3, <1>4 DEF ResOK, Excused, Base

(* The age of what was found.                                              *)
LEMMA AgeFacts ==
  ASSUME NEW es \in SUBSET Noted
  PROVE  Routing!AgeOf(es) = -1 \/ \E e \in es : Routing!AgeOf(es) = e.age
  BY DEF Routing!AgeOf

(* A lookup finds no old pin in the process.                               *)
LEMMA FallbackOK ==
  ASSUME NEW x, Base(x), x.op \in {"lookup", "sat"}, NEW own, OwnOK(own), NEW fl \in 0 .. RetryS
  PROVE  ResOK(Routing!Fallback(x, own, RetryS - fl), x.w, fl)
  <1>1. CASE x.slot = "sat"
    BY <1>1, AwaitOK DEF Routing!Fallback, Base
  <1>2. CASE x.slot # "sat"
    <2> DEFINE live == {e \in own[x.slot] : e.stamp <= PinTTL}
               rest == [own EXCEPT ![x.slot] = live]
    <2>1. x.slot \in {"pin", "route"} /\ x.slot \in Routing!Slot /\ x.op = "lookup"
      BY <1>2 DEF Base, RoutingCall, Routing!Slot
    <2>2. OwnOK(rest)
      BY <2>1 DEF OwnOK
    <2>3. live \in SUBSET Noted /\ \A e \in live : e.age <= PinTTL /\ e.age \in Nat
      BY <2>1, RoutingAssumption DEF OwnOK, Noted
    <2>4. Routing!Fallback(x, own, RetryS - fl) = Routing!Answer(x, rest, RetryS - fl, Routing!AgeOf(live))
      BY <1>2 DEF Routing!Fallback
    <2> HIDE DEF live, rest
    <2>5. Routing!AgeOf(live) \in Int /\ Routing!AgeOf(live) <= PinTTL + Slow
      BY <2>3, AgeFacts, RoutingAssumption
    <2> QED BY <2>1, <2>2, <2>4, <2>5, AnswerOK DEF Fresh
  <1> QED BY <1>1, <1>2

(* The store first, if it is on.                                           *)
LEMMA FetchOK ==
  ASSUME NEW x, Base(x), x.op \in {"lookup", "sat"}, NEW own, OwnOK(own), NEW fl \in 0 .. RetryS
  PROVE  ResOK(Routing!Fetch(x, own, RetryS - fl), x.w, fl)
  BY AwaitOK, FallbackOK DEF Routing!Fetch

(* One entry replaced.                                                     *)
LEMMA EntryOK ==
  ASSUME NEW own, OwnOK(own), NEW s \in Routing!Slot, NEW age \in Nat, NEW stamp \in Nat,
         s # "sat" => age <= stamp, age <= stamp + SatTTL + Slow
  PROVE  OwnOK([own EXCEPT ![s] = Routing!Entry(age, stamp)])
  <1> DEFINE new == Routing!Entry(age, stamp)
  <1>1. new \in SUBSET Noted /\ \A e \in new : e.age = age /\ e.stamp = stamp
    BY DEF Routing!Entry, Noted
  <1>2. \A e, f \in new : e = f
    BY DEF Routing!Entry
  <1> DEFINE rest == [own EXCEPT ![s] = new]
  <1> HIDE DEF new
  <1>3. rest \in [Routing!Slot -> SUBSET Noted]
    BY <1>1 DEF OwnOK
  <1>4. rest[s] = new /\ \A t \in Routing!Slot \ {s} : rest[t] = own[t]
    BY DEF OwnOK
  <1> HIDE DEF rest
  <1>5. \A t \in Routing!Slot : \A e, f \in rest[t] : e = f
    BY <1>2, <1>4 DEF OwnOK
  <1>6. \A t \in {"pin", "route"} : \A e \in rest[t] : e.stamp <= PinTTL => e.age <= e.stamp
    BY <1>1, <1>4 DEF OwnOK, Routing!Slot
  <1>7. \A e \in rest["sat"] : e.stamp < SatTTL => e.age <= e.stamp + SatTTL + Slow
    BY <1>1, <1>4 DEF OwnOK, Routing!Slot
  <1>8. OwnOK(rest)
    BY <1>3, <1>5, <1>6, <1>7 DEF OwnOK
  <1> QED BY <1>8 DEF rest, new

(* A verdict taken over is at most one time to live and one write old.     *)
LEMMA AdoptOK ==
  ASSUME NEW x, Base(x), x.op \in {"lookup", "sat"}, NEW own, OwnOK(own), NEW fl \in 0 .. RetryS,
         StoreOK(redis), NEW e \in redis[x.slot]
  PROVE  ResOK(Routing!Adopt(x, own, RetryS - fl, e), x.w, fl)
  <1>1. x.slot \in Routing!Slot /\ x.t0 \in Nat /\ e.age \in Nat /\ e.stamp \in Nat
    BY DEF Base, RoutingCall, StoreOK, Noted
  <1>2. e.age + e.stamp <= Routing!TtlOf(x.slot) + Slow
    BY <1>1 DEF StoreOK
  <1>3. e.age <= Routing!TtlOf(x.slot) + Slow
    BY <1>1, <1>2, RoutingAssumption DEF Routing!TtlOf
  <1>4. Fresh(x.op, e.age)
    BY <1>1, <1>3, RoutingAssumption DEF Fresh, Routing!TtlOf, Base
  <1>5. x.slot = "sat" => OwnOK([own EXCEPT !["sat"] = Routing!Entry(e.age, x.t0)])
    BY <1>1, <1>3, EntryOK, RoutingAssumption DEF Routing!TtlOf
  <1> QED BY <1>1, <1>4, <1>5, AnswerOK DEF Routing!Adopt

(* After the pin the route is noted; then there is nothing left to write.  *)
LEMMA NotedOK ==
  ASSUME NEW x, Base(x), x.op \in {"note", "sat"}, 0 <= x.age, x.age <= Slow, NEW own, OwnOK(own),
         NEW fl \in 0 .. RetryS
  PROVE  ResOK(Routing!Noted(x, own, RetryS - fl), x.w, fl)
  <1> DEFINE pinned == [own EXCEPT !["route"] = Routing!Entry(0, 0)]
             y == [x EXCEPT !.slot = "route", !.age = 0]
             o == RetryS - fl
  <1>1. OwnOK(pinned)
    BY EntryOK, RoutingAssumption DEF Routing!Slot
  <1>2. x.age \in Int
    BY DEF Base, RoutingCall
  <1> HIDE DEF pinned
  <1>3. CASE x.slot = "pin" /\ Routing!_get_client(o)
    <2>1. Base(y) /\ y.op = "note" /\ y.age = 0 /\ y.w = x.w
      <3>1. x.op = "note" /\ x \in RoutingCall /\ "route" \in Routing!Slot
        BY <1>3 DEF Base, Routing!Slot
      <3>2. y \in RoutingCall
        <4> DEFINE z == [x EXCEPT !.slot = "route"]
        <4>1. z \in RoutingCall
          BY ONLY <3>1 DEF RoutingCall
        <4>2. [z EXCEPT !.age = 0] \in RoutingCall
          <5> HIDE DEF z
          <5> QED BY ONLY <4>1 DEF RoutingCall
        <4> QED BY ONLY <4>2
      <3>3. y.op = x.op /\ y.age = 0 /\ y.slot = "route" /\ y.w = x.w /\ y.since = x.since
        BY ONLY <3>1 DEF RoutingCall
      <3> HIDE DEF y
      <3> QED BY <3>1, <3>2, <3>3 DEF Base
    <2>2. Routing!Noted(x, own, o) = Routing!Await(y, pinned, o, "set")
      BY <1>3 DEF Routing!Noted, pinned
    <2> HIDE DEF y
    <2> QED BY <1>1, <1>3, <2>1, <2>2, AwaitOK
  <1>4. CASE ~(x.slot = "pin" /\ Routing!_get_client(o))
    <2> DEFINE kept == IF x.slot = "pin" THEN pinned ELSE own
               age == IF x.slot = "sat" THEN x.age ELSE -1
    <2>1. Routing!Noted(x, own, o) = Routing!Answer(x, kept, o, age)
      BY <1>4 DEF Routing!Noted, pinned
    <2>2. OwnOK(kept) /\ age \in Int /\ Fresh(x.op, age)
      BY <1>1, <1>2, RoutingAssumption DEF Fresh
    <2> HIDE DEF kept, age
    <2> QED BY <2>1, <2>2, AnswerOK
  <1> QED BY <1>3, <1>4

(* What is published has just been noted or computed.                      *)
LEMMA PublishOK ==
  ASSUME NEW x, Base(x), x.op \in {"note", "sat"}, x.age = 0, NEW own, OwnOK(own),
         NEW fl \in 0 .. RetryS
  PROVE  ResOK(Routing!Publish(x, own, RetryS - fl), x.w, fl)
  BY AwaitOK, NotedOK, RoutingAssumption DEF Routing!Publish

(* A step of a request keeps what is said of the requests and processes.   *)
LEMMA DoOK ==
  ASSUME RoutingInv, NEW r \in Call, NEW res, Routing!Do(r, res), NEW fs \in [Worker -> 0 .. RetryS],
         NEW v \in Worker, ResOK(res, v, fs[v]), failed' = fs,
         \A w \in Worker : fs[w] = failed[w] \/ (w = v /\ fs[w] = 0),
         StoreOK(redis')
  PROVE  RoutingInv'
  <1> DEFINE y == IF res.x.pc = "done"
                  THEN [Routing!Idle EXCEPT !.pc = "done", !.op = res.x.op, !.age = res.x.age]
                  ELSE res.x
  <1>1. /\ routingReq' = [routingReq EXCEPT ![r] = y]
        /\ local' = [local EXCEPT ![v] = res.own] /\ off' = [off EXCEPT ![v] = res.off]
    BY DEF Routing!Do, ResOK
  <1>2. /\ res.x.w = v /\ OwnOK(res.own) /\ res.off = RetryS - fs[v] /\ res.x \in RoutingCall
        /\ res.x.pc # "idle" /\ Excused(res.x, fs[v])
        /\ IF res.x.pc = "done" THEN Fresh(res.x.op, res.x.age) ELSE Waiting(res.x)
    BY DEF ResOK
  <1>3. y \in RoutingCall /\ CallOK(y, fs)
    <2>1. CASE res.x.pc = "done"
      <3>1. y \in RoutingCall /\ y.pc = "done" /\ y.op = res.x.op /\ y.age = res.x.age
        BY <2>1, <1>2, IdleFacts DEF RoutingCall
      <3> HIDE DEF y
      <3> QED BY <1>2, <2>1, <3>1 DEF CallOK
    <2>2. CASE res.x.pc # "done"
      BY <1>2, <2>2 DEF CallOK
    <2> QED BY <2>1, <2>2
  <1> HIDE DEF y
  <1>4. local' \in [Worker -> [Routing!Slot -> SUBSET Noted]] /\ \A w \in Worker : OwnOK(local'[w])
    BY <1>1, <1>2 DEF RoutingInv, OwnOK
  <1>5. off' \in [Worker -> Nat] /\ \A w \in Worker : off'[w] = RetryS - fs[w]
    <2>1. RetryS - fs[v] \in Nat
      BY <1>2, RoutingAssumption
    <2>2. \A w \in Worker \ {v} : fs[w] = failed[w]
      OBVIOUS
    <2> QED BY <1>1, <1>2, <2>1, <2>2 DEF RoutingInv
  <1>6. routingReq' \in [Call -> RoutingCall]
    BY <1>1, <1>3 DEF RoutingInv
  <1>7. ASSUME NEW i \in Call PROVE CallOK(routingReq'[i], fs)
    <2>1. CASE i = r
      BY <1>1, <1>3, <2>1 DEF RoutingInv
    <2>2. CASE i # r
      <3>1. routingReq'[i] = routingReq[i] /\ CallOK(routingReq[i], failed) /\ routingReq[i] \in RoutingCall
        BY <1>1, <2>2 DEF RoutingInv
      <3>2. ASSUME Waiting(routingReq[i]), Excused(routingReq[i], failed[routingReq[i].w])
            PROVE  Excused(routingReq[i], fs[routingReq[i].w])
        <4>1. routingReq[i].w \in Worker /\ routingReq[i].since \in Nat
          BY <3>1, <3>2 DEF Waiting, Base, RoutingCall
        <4> QED BY <3>2, <4>1 DEF Excused
      <3> QED BY <3>1, <3>2 DEF CallOK
    <2> QED BY <2>1, <2>2
  <1> QED BY <1>4, <1>5, <1>6, <1>7 DEF RoutingInv

(* A request under way, as Base has it.                                    *)
LEMMA UnderWay ==
  ASSUME RoutingInv, NEW r \in Call, routingReq[r].pc \in {"get", "db", "set"}
  PROVE  /\ Waiting(routingReq[r]) /\ Base(routingReq[r]) /\ routingReq[r].w \in Worker
         /\ Excused(routingReq[r], failed[routingReq[r].w])
         /\ failed[routingReq[r].w] \in 0 .. RetryS
         /\ off[routingReq[r].w] = RetryS - failed[routingReq[r].w]
         /\ OwnOK(local[routingReq[r].w])
  BY DEF RoutingInv, CallOK, Waiting, Base

(* A step that does not fail leaves the other state alone.                 *)
LEMMA PlainStep ==
  ASSUME RoutingInv, NEW r \in Call, NEW res, Routing!Do(r, res), NEW v \in Worker,
         ResOK(res, v, failed[v]), failed' = failed, StoreOK(redis')
  PROVE  RoutingInv'
  <1>1. failed \in [Worker -> 0 .. RetryS]
    BY DEF RoutingInv
  <1> QED BY <1>1, DoOK

(* A request begins.                                                       *)
LEMMA StartOK ==
  ASSUME RoutingInv, NEW r \in Call, NEW w \in Worker, Routing!Start(r, w)
  PROVE  RoutingInv'
  <1> DEFINE fl == failed[w]
             own == local[w]
  <1>1. fl \in 0 .. RetryS /\ OwnOK(own) /\ off[w] = RetryS - fl
    BY DEF RoutingInv
  <1>2. failed' = failed /\ StoreOK(redis')
    BY DEF Routing!Start, RoutingInv
  <1>3. CASE Routing!note_success(r, w)
    <2> DEFINE x == [Routing!Idle EXCEPT !.w = w, !.op = "note", !.age = 0]
               new == [own EXCEPT !["pin"] = Routing!Entry(0, 0)]
               res == Routing!Publish(x, new, RetryS - fl)
    <2>1. x \in RoutingCall
      <3> DEFINE z == [Routing!Idle EXCEPT !.w = w, !.op = "note"]
      <3>1. z \in RoutingCall
        BY IdleFacts DEF RoutingCall
      <3>2. [z EXCEPT !.age = 0] \in RoutingCall
        <4> HIDE DEF z
        <4> QED BY ONLY <3>1 DEF RoutingCall
      <3> QED BY ONLY <3>2
    <2>10. x.w = w /\ x.op = "note" /\ x.slot = "pin" /\ x.age = 0 /\ x.since = 0
      BY IdleFacts DEF RoutingCall
    <2>2. Base(x) /\ x.op = "note" /\ x.age = 0 /\ x.w = w
      BY <2>1, <2>10, RoutingAssumption DEF Base
    <2>3. OwnOK(new)
      <3>1. "pin" \in Routing!Slot /\ 0 \in Nat /\ 0 <= 0 /\ 0 <= 0 + SatTTL + Slow
        BY RoutingAssumption DEF Routing!Slot
      <3> QED BY ONLY <1>1, <3>1, EntryOK
    <2>4. Routing!Do(r, res)
      BY <1>1, <1>3 DEF Routing!note_success
    <2> HIDE DEF x, new, fl
    <2>5. ResOK(res, w, fl)
      BY <1>1, <2>2, <2>3, PublishOK
    <2> QED BY <1>2, <2>4, <2>5, PlainStep DEF fl
  <1>4. CASE Routing!lookup(r, w)
    <2>1. PICK slot \in {"pin", "route"} :
            Routing!Do(r, Routing!Fetch([Routing!Idle EXCEPT !.w = w, !.op = "lookup", !.slot = slot], own, off[w]))
      BY <1>4 DEF Routing!lookup
    <2> DEFINE x == [Routing!Idle EXCEPT !.w = w, !.op = "lookup", !.slot = slot]
               res == Routing!Fetch(x, own, RetryS - fl)
    <2>2. x \in RoutingCall /\ x.w = w /\ x.op = "lookup" /\ x.slot = slot /\ x.since = 0
      BY IdleFacts DEF RoutingCall, Routing!Slot
    <2>3. Base(x) /\ x.op = "lookup" /\ x.w = w
      BY <2>2, RoutingAssumption DEF Base
    <2>4. Routing!Do(r, res)
      BY <1>1, <2>1
    <2> HIDE DEF x, fl, own
    <2>5. ResOK(res, w, fl)
      BY <1>1, <2>3, FetchOK
    <2> QED BY <1>2, <2>4, <2>5, PlainStep DEF fl
  <1>5. CASE Routing!_saturated_key_ids(r, w)
    <2> DEFINE x == [Routing!Idle EXCEPT !.w = w, !.op = "sat", !.slot = "sat"]
               fetch == Routing!Fetch(x, own, RetryS - fl)
               have == Routing!Answer(x, own, RetryS - fl, Routing!AgeOf(own["sat"]))
    <2>1. x \in RoutingCall /\ x.w = w /\ x.op = "sat" /\ x.slot = "sat" /\ x.since = 0
      BY IdleFacts DEF RoutingCall, Routing!Slot
    <2>2. Base(x) /\ x.op = "sat" /\ x.w = w
      BY <2>1, RoutingAssumption DEF Base
    <2>3. CASE \E e \in own["sat"] : e.stamp < SatTTL
      <3>1. Routing!Do(r, have)
        BY <1>1, <1>5, <2>3 DEF Routing!_saturated_key_ids
      <3>2. PICK e \in own["sat"] : e.stamp < SatTTL
        BY <2>3
      <3>3. e.stamp \in Nat /\ e.age \in Nat /\ e.age <= e.stamp + SatTTL + Slow
        BY <1>1, <3>2 DEF OwnOK, Noted, Routing!Slot
      <3>4. \A f \in own["sat"] : f = e
        BY <1>1 DEF OwnOK, Routing!Slot
      <3>5. Routing!AgeOf(own["sat"]) = e.age
        BY <3>4 DEF Routing!AgeOf
      <3>6. e.age <= 2 * SatTTL + Slow
        BY <3>2, <3>3, RoutingAssumption
      <3> HIDE DEF x, fl, own
      <3>7. ResOK(have, w, fl)
        BY <1>1, <2>2, <3>3, <3>5, <3>6, AnswerOK DEF Fresh
      <3> QED BY <1>2, <3>1, <3>7, PlainStep DEF fl
    <2>4. CASE ~\E e \in own["sat"] : e.stamp < SatTTL
      <3>1. Routing!Do(r, fetch)
        BY <1>1, <1>5, <2>4 DEF Routing!_saturated_key_ids
      <3> HIDE DEF x, fl, own
      <3>2. ResOK(fetch, w, fl)
        BY <1>1, <2>2, FetchOK
      <3> QED BY <1>2, <3>1, <3>2, PlainStep DEF fl
    <2> QED BY <2>3, <2>4
  <1> QED BY <1>3, <1>4, <1>5 DEF Routing!Start

(* A failure turns the store off for the process.                          *)
LEMMA FailedStep ==
  ASSUME RoutingInv, NEW r \in Call, NEW res, Routing!Do(r, res), NEW v \in Worker,
         ResOK(res, v, 0), Routing!Fails(v), StoreOK(redis')
  PROVE  RoutingInv'
  <1> DEFINE fs == [failed EXCEPT ![v] = 0]
  <1>1. failed \in [Worker -> 0 .. RetryS]
    BY DEF RoutingInv
  <1>2. fs \in [Worker -> 0 .. RetryS] /\ fs[v] = 0 /\ \A w \in Worker \ {v} : fs[w] = failed[w]
    BY <1>1, RoutingAssumption
  <1>3. failed' = fs
    BY DEF Routing!Fails
  <1> HIDE DEF fs
  <1> QED BY <1>2, <1>3, DoOK

(* The store answers, or not.                                              *)
LEMMA GetOK ==
  ASSUME RoutingInv, NEW r \in Call, Routing!Get(r)
  PROVE  RoutingInv'
  <1> DEFINE x == routingReq[r]
             w == x.w
             own == local[w]
             o == off[w]
  <1>1. x.pc = "get" /\ StoreOK(redis') /\ StoreOK(redis)
    BY DEF Routing!Get, RoutingInv
  <1>2. /\ Base(x) /\ w \in Worker /\ failed[w] \in 0 .. RetryS /\ o = RetryS - failed[w] /\ OwnOK(own)
        /\ x.op \in {"lookup", "sat"}
    BY <1>1, UnderWay DEF Waiting
  <1>3. Routing!_trip(o) = RetryS - 0 /\ 0 \in 0 .. RetryS
    BY RoutingAssumption DEF Routing!_trip
  <1>4. \/ (\E e \in redis[x.slot] : Routing!Do(r, Routing!Adopt(x, own, o, e))) /\ failed' = failed
        \/ Routing!Do(r, Routing!Fallback(x, own, o)) /\ failed' = failed
        \/ Routing!Fails(w) /\ Routing!Do(r, Routing!Fallback(x, own, Routing!_trip(o)))
    BY Zenon DEF Routing!Get
  <1> HIDE DEF x, w, own, o
  <1>5. CASE (\E e \in redis[x.slot] : Routing!Do(r, Routing!Adopt(x, own, o, e))) /\ failed' = failed
    <2>1. PICK e \in redis[x.slot] : Routing!Do(r, Routing!Adopt(x, own, o, e))
      BY <1>5
    <2>2. ResOK(Routing!Adopt(x, own, o, e), x.w, failed[w])
      BY <1>1, <1>2, AdoptOK
    <2> QED BY <1>1, <1>2, <1>5, <2>1, <2>2, PlainStep DEF w
  <1>6. CASE Routing!Do(r, Routing!Fallback(x, own, o)) /\ failed' = failed
    <2>1. ResOK(Routing!Fallback(x, own, o), x.w, failed[w])
      BY <1>2, FallbackOK
    <2> QED BY <1>1, <1>2, <1>6, <2>1, PlainStep DEF w
  <1>7. CASE Routing!Fails(w) /\ Routing!Do(r, Routing!Fallback(x, own, Routing!_trip(o)))
    <2>1. ResOK(Routing!Fallback(x, own, RetryS - 0), x.w, 0)
      BY <1>2, <1>3, FallbackOK
    <2> QED BY <1>1, <1>2, <1>3, <1>7, <2>1, FailedStep DEF w
  <1> QED BY <1>4, <1>5, <1>6, <1>7

(* The verdict is computed from the database.                              *)
LEMMA ComputeOK ==
  ASSUME RoutingInv, NEW r \in Call, Routing!Compute(r)
  PROVE  RoutingInv'
  <1> DEFINE x == routingReq[r]
             w == x.w
             y == [x EXCEPT !.age = 0]
             new == [local[w] EXCEPT !["sat"] = Routing!Entry(0, x.t0)]
             res == Routing!Publish(y, new, RetryS - failed[w])
  <1>1. x.pc = "db" /\ StoreOK(redis') /\ failed' = failed
    BY DEF Routing!Compute, RoutingInv
  <1>2. /\ Base(x) /\ w \in Worker /\ failed[w] \in 0 .. RetryS /\ off[w] = RetryS - failed[w]
        /\ OwnOK(local[w]) /\ x.op = "sat"
    BY <1>1, UnderWay DEF Waiting
  <1>3. Routing!Do(r, res)
    BY <1>2 DEF Routing!Compute
  <1>4. x \in RoutingCall /\ x.t0 \in Nat
    BY <1>2 DEF Base, RoutingCall
  <1>5. OwnOK(new)
    BY <1>2, <1>4, EntryOK, RoutingAssumption DEF Routing!Slot
  <1> HIDE DEF x, w, new
  <1>6. y \in RoutingCall /\ y.w = x.w /\ y.op = x.op /\ y.slot = x.slot /\ y.since = x.since /\ y.age = 0
    BY <1>4 DEF RoutingCall
  <1> HIDE DEF y
  <1>7. Base(y)
    BY <1>2, <1>6 DEF Base
  <1>8. ResOK(res, y.w, failed[w])
    BY <1>2, <1>5, <1>6, <1>7, PublishOK
  <1> QED BY <1>1, <1>2, <1>3, <1>6, <1>8, PlainStep DEF w

(* What is stored is as old as its wait.                                   *)
LEMMA StoredOK ==
  ASSUME StoreOK(redis), NEW x, Waiting(x), x.pc = "set"
  PROVE  StoreOK(Routing!Stored(x))
  <1> DEFINE new == Routing!Entry(x.age, Routing!TtlOf(x.slot))
             st == [redis EXCEPT ![x.slot] = new]
  <1>1. x.slot \in Routing!Slot /\ x.age \in Nat /\ x.age <= Slow
    BY RoutingAssumption DEF Waiting, Base, RoutingCall
  <1>2. Routing!TtlOf(x.slot) \in Nat
    BY RoutingAssumption DEF Routing!TtlOf
  <1>3. new \in SUBSET Noted /\ \A e \in new : e.age = x.age /\ e.stamp = Routing!TtlOf(x.slot)
    BY <1>1, <1>2 DEF Routing!Entry, Noted
  <1> HIDE DEF new
  <1>4. st \in [Routing!Slot -> SUBSET Noted]
    BY <1>3 DEF StoreOK
  <1>5. \A s \in Routing!Slot : \A e \in st[s] : e.age + e.stamp <= Routing!TtlOf(s) + Slow
    <2> TAKE s \in Routing!Slot
    <2> TAKE e \in st[s]
    <2>1. CASE s = x.slot
      <3>1. e.age = x.age /\ e.stamp = Routing!TtlOf(x.slot)
        BY <1>1, <1>3, <2>1 DEF StoreOK
      <3> QED BY <1>1, <1>2, <2>1, <3>1, RoutingAssumption
    <2>2. CASE s # x.slot
      BY <2>2 DEF StoreOK
    <2> QED BY <2>1, <2>2
  <1>6. Routing!Stored(x) = st
    BY DEF Routing!Stored, new
  <1> HIDE DEF st
  <1> QED BY <1>4, <1>5, <1>6 DEF StoreOK

(* The answer to a write, or none.                                         *)
LEMMA PutOK ==
  ASSUME RoutingInv, NEW r \in Call, Routing!Put(r)
  PROVE  RoutingInv'
  <1> DEFINE x == routingReq[r]
             w == x.w
             own == local[w]
             o == off[w]
  <1>1. x.pc = "set" /\ StoreOK(redis)
    BY DEF Routing!Put, RoutingInv
  <1>2. /\ Waiting(x) /\ Base(x) /\ w \in Worker /\ failed[w] \in 0 .. RetryS
        /\ o = RetryS - failed[w] /\ OwnOK(own) /\ x.op \in {"note", "sat"}
    BY <1>1, UnderWay DEF Waiting
  <1>3. Routing!_trip(o) = RetryS - 0 /\ 0 \in 0 .. RetryS
    BY RoutingAssumption DEF Routing!_trip
  <1>4. \/ redis' = Routing!Stored(x) /\ Routing!Do(r, Routing!Noted(x, own, o)) /\ failed' = failed
        \/ /\ Routing!Fails(w) /\ redis' \in {redis} \cup (IF up THEN {Routing!Stored(x)} ELSE {})
           /\ Routing!Do(r, Routing!Noted(x, own, Routing!_trip(o)))
    BY Zenon DEF Routing!Put
  <1> HIDE DEF x, w, own, o
  <1>5. StoreOK(redis')
    BY <1>1, <1>2, <1>4, StoredOK
  <1>6. 0 <= x.age /\ x.age <= Slow
    BY <1>1, <1>2, RoutingAssumption DEF Waiting, Base, RoutingCall
  <1>7. ResOK(Routing!Noted(x, own, o), x.w, failed[w]) /\ ResOK(Routing!Noted(x, own, RetryS - 0), x.w, 0)
    BY <1>2, <1>3, <1>6, NotedOK
  <1>8. CASE Routing!Do(r, Routing!Noted(x, own, o)) /\ failed' = failed
    BY <1>2, <1>5, <1>7, <1>8, PlainStep DEF w
  <1>9. CASE Routing!Fails(w) /\ Routing!Do(r, Routing!Noted(x, own, Routing!_trip(o)))
    BY <1>2, <1>3, <1>5, <1>7, <1>9, FailedStep DEF w
  <1> QED BY <1>4, <1>8, <1>9

(* An answered request is forgotten; the store goes and comes back, as it  *)
(* was or empty.                                                           *)
LEMMA RestOK ==
  ASSUME RoutingInv, (\E r \in Call : Routing!Return(r)) \/ Routing!Outage \/ Routing!Back
  PROVE  RoutingInv'
  <1>1. local' = local /\ off' = off /\ failed' = failed
    BY DEF Routing!Return, Routing!Outage, Routing!Back
  <1>2. StoreOK(redis')
    <2>1. redis' = redis \/ redis' = [s \in Routing!Slot |-> {}]
      BY DEF Routing!Return, Routing!Outage, Routing!Back
    <2> QED BY <2>1 DEF RoutingInv, StoreOK
  <1>3. routingReq' \in [Call -> RoutingCall] /\ \A r \in Call : CallOK(routingReq'[r], failed)
    <2>1. routingReq' = routingReq \/ \E r \in Call : routingReq' = [routingReq EXCEPT ![r] = Routing!Idle]
      BY DEF Routing!Return, Routing!Outage, Routing!Back
    <2>2. CallOK(Routing!Idle, failed)
      BY IdleFacts DEF CallOK
    <2> QED BY <2>1, <2>2, IdleFacts DEF RoutingInv
  <1> QED BY <1>1, <1>2, <1>3 DEF RoutingInv

(* A tick makes everything at most one older.                              *)
LEMMA OlderFacts ==
  ASSUME NEW n \in Nat
  PROVE  Routing!Older(n) \in Nat /\ Routing!Older(n) <= n + 1
  BY RoutingAssumption DEF Routing!Older

(* The entries of a process a tick later.                                  *)
LEMMA OwnTick ==
  ASSUME NEW own, OwnOK(own), NEW new,
         new = [s \in Routing!Slot |->
                  {[age |-> Routing!Older(e.age),
                    stamp |-> IF e.stamp < Routing!Stale THEN e.stamp + 1 ELSE Routing!Stale] : e \in own[s]}]
  PROVE  OwnOK(new)
  <1>1. Routing!Stale \in Nat /\ PinTTL < Routing!Stale /\ SatTTL < Routing!Stale
    BY RoutingAssumption DEF Routing!Stale
  <1> DEFINE Up(e) == [age |-> Routing!Older(e.age),
                      stamp |-> IF e.stamp < Routing!Stale THEN e.stamp + 1 ELSE Routing!Stale]
  <1>2. ASSUME NEW s \in Routing!Slot, NEW f \in new[s]
        PROVE  \E e \in own[s] : e \in Noted /\ f = Up(e)
    BY <1>2 DEF OwnOK
  <1>3. ASSUME NEW s \in Routing!Slot, NEW f \in new[s]
        PROVE  /\ f \in Noted
               /\ \E e \in own[s] : /\ e.stamp \in Nat /\ e.age \in Nat /\ f.age \in Nat /\ f.age <= e.age + 1
                                     /\ (f.stamp = e.stamp + 1 \/ f.stamp = Routing!Stale)
    <2> HIDE DEF Up
    <2>1. PICK e \in own[s] : e \in Noted /\ f = Up(e)
      BY <1>2, <1>3
    <2>2. e.age \in Nat /\ e.stamp \in Nat
      BY <2>1 DEF Noted
    <2>3. Routing!Older(e.age) \in Nat /\ Routing!Older(e.age) <= e.age + 1
      BY <2>2, OlderFacts
    <2>4. PICK t \in Nat : /\ t = IF e.stamp < Routing!Stale THEN e.stamp + 1 ELSE Routing!Stale
                           /\ (t = e.stamp + 1 \/ t = Routing!Stale)
      BY <1>1, <2>2
    <2>5. f = [age |-> Routing!Older(e.age), stamp |-> t]
      BY <2>1, <2>4 DEF Up
    <2>6. f \in Noted /\ f.age = Routing!Older(e.age) /\ f.stamp = t
      BY ONLY <2>3, <2>4, <2>5 DEF Noted
    <2> QED BY <2>2, <2>3, <2>4, <2>6
  <1>4. new \in [Routing!Slot -> SUBSET Noted]
    BY <1>3
  <1>5. \A s \in Routing!Slot : \A f, g \in new[s] : f = g
    BY <1>2 DEF OwnOK
  <1>6. ASSUME NEW s \in {"pin", "route"}, NEW f \in new[s], f.stamp <= PinTTL PROVE f.age <= f.stamp
    <2>1. s \in Routing!Slot
      BY DEF Routing!Slot
    <2>2. PICK e \in own[s] : /\ e.stamp \in Nat /\ e.age \in Nat /\ f.age \in Nat /\ f.age <= e.age + 1
                              /\ (f.stamp = e.stamp + 1 \/ f.stamp = Routing!Stale)
      BY <1>3, <2>1
    <2>3. e.stamp <= PinTTL => e.age <= e.stamp
      BY DEF OwnOK
    <2> QED BY <1>1, <1>6, <2>2, <2>3, RoutingAssumption
  <1>7. ASSUME NEW f \in new["sat"], f.stamp < SatTTL PROVE f.age <= f.stamp + SatTTL + Slow
    <2>1. "sat" \in Routing!Slot
      BY DEF Routing!Slot
    <2>2. PICK e \in own["sat"] : /\ e.stamp \in Nat /\ e.age \in Nat /\ f.age \in Nat /\ f.age <= e.age + 1
                              /\ (f.stamp = e.stamp + 1 \/ f.stamp = Routing!Stale)
      BY <1>3, <2>1
    <2>3. e.stamp < SatTTL => e.age <= e.stamp + SatTTL + Slow
      BY DEF OwnOK
    <2> QED BY <1>1, <1>7, <2>2, <2>3, RoutingAssumption
  <1> QED BY <1>4, <1>5, <1>6, <1>7 DEF OwnOK

(* The store a tick later: what has no life left is gone.                  *)
LEMMA StoreTick ==
  ASSUME StoreOK(redis), Routing!Tick
  PROVE  StoreOK(redis')
  <1>1. ASSUME NEW s \in Routing!Slot, NEW f \in redis'[s]
        PROVE  f \in Noted /\ f.age + f.stamp <= Routing!TtlOf(s) + Slow
    <2>1. PICK e \in redis[s] : e.stamp > 1 /\ f = [age |-> Routing!Older(e.age), stamp |-> e.stamp - 1]
      BY <1>1 DEF Routing!Tick
    <2>2. e.age \in Nat /\ e.stamp \in Nat /\ e.age + e.stamp <= Routing!TtlOf(s) + Slow
      BY DEF StoreOK, Noted
    <2>3. Routing!Older(e.age) \in Nat /\ Routing!Older(e.age) <= e.age + 1 /\ e.stamp - 1 \in Nat
      BY <2>1, <2>2, OlderFacts
    <2>4. Routing!TtlOf(s) \in Nat /\ Slow \in Nat
      BY RoutingAssumption DEF Routing!TtlOf
    <2>5. f \in Noted /\ f.age = Routing!Older(e.age) /\ f.stamp = e.stamp - 1
      BY <2>1, <2>3 DEF Noted
    <2> QED BY <2>2, <2>3, <2>4, <2>5
  <1>2. DOMAIN redis' = Routing!Slot /\ redis' = [s \in Routing!Slot |-> redis'[s]]
    BY DEF Routing!Tick
  <1> QED BY <1>1, <1>2 DEF StoreOK

(* A waiting request a tick later.                                         *)
Later(x) ==
  [x EXCEPT !.since = @ + 1, !.age = IF @ < 0 THEN @ ELSE Routing!Older(@),
            !.t0 = IF @ < Routing!Stale THEN @ + 1 ELSE Routing!Stale]

(* It still waits, and for the same call.                                  *)
LEMMA WaitTick ==
  ASSUME NEW x, Waiting(x), x.since < Slow, NEW y, y = Later(x)
  PROVE  Waiting(y) /\ y \in RoutingCall /\ y.pc = x.pc /\ y.w = x.w /\ y.since = x.since + 1
  <1>1. x \in RoutingCall /\ x.since \in Nat /\ x.age \in Int /\ x.t0 \in Nat
    BY DEF Waiting, Base, RoutingCall
  <1>2. Routing!Stale \in Nat
    BY RoutingAssumption DEF Routing!Stale
  <1>3. PICK a \in Int : a = IF x.age < 0 THEN x.age ELSE Routing!Older(x.age)
    BY <1>1, OlderFacts
  <1>4. PICK t \in Nat : t = IF x.t0 < Routing!Stale THEN x.t0 + 1 ELSE Routing!Stale
    BY <1>1, <1>2
  <1>5. PICK n \in Nat : n = x.since + 1
    BY <1>1
  <1>6. y = [x EXCEPT !.since = n, !.age = a, !.t0 = t]
    BY <1>3, <1>4, <1>5 DEF Later
  <1>7. y \in RoutingCall
    BY ONLY <1>1, <1>3, <1>4, <1>5, <1>6 DEF RoutingCall
  <1>8. y.pc = x.pc /\ y.w = x.w /\ y.since = n /\ y.age = a /\ y.op = x.op /\ y.slot = x.slot
    BY ONLY <1>1, <1>6 DEF RoutingCall
  <1>9. x.pc = "set" => 0 <= a /\ a <= n
    <2>1. x.pc = "set" => 0 <= x.age /\ x.age <= x.since
      BY DEF Waiting
    <2> QED BY <1>1, <1>3, <1>5, <2>1, OlderFacts
  <1> QED BY <1>1, <1>5, <1>7, <1>8, <1>9, RoutingAssumption DEF Waiting, Base

(* Time passes.                                                            *)
LEMMA TickOK ==
  ASSUME RoutingInv, Routing!Tick
  PROVE  RoutingInv'
  <1>1. StoreOK(redis')
    BY StoreTick DEF RoutingInv
  <1>2. ASSUME NEW w \in Worker PROVE OwnOK(local'[w])
    BY OwnTick DEF Routing!Tick, RoutingInv
  <1>3. local' \in [Worker -> [Routing!Slot -> SUBSET Noted]]
    <2>1. local' = [w \in Worker |-> local'[w]]
      BY DEF Routing!Tick
    <2> QED BY <1>2, <2>1 DEF OwnOK
  <1>4. /\ failed' \in [Worker -> 0 .. RetryS] /\ off' \in [Worker -> Nat]
        /\ \A w \in Worker : off'[w] = RetryS - failed'[w]
        /\ \A w \in Worker : failed'[w] = RetryS \/ failed'[w] = failed[w] + 1
    <2>1. /\ off' = [w \in Worker |-> IF off[w] > 0 THEN off[w] - 1 ELSE 0]
          /\ failed' = [w \in Worker |-> IF failed[w] < RetryS THEN failed[w] + 1 ELSE RetryS]
      BY DEF Routing!Tick
    <2>2. ASSUME NEW w \in Worker
          PROVE  /\ failed'[w] \in 0 .. RetryS /\ off'[w] \in Nat /\ off'[w] = RetryS - failed'[w]
                 /\ (failed'[w] = RetryS \/ failed'[w] = failed[w] + 1)
      <3>1. failed[w] \in 0 .. RetryS /\ off[w] = RetryS - failed[w]
        BY DEF RoutingInv
      <3>2. off'[w] = (IF off[w] > 0 THEN off[w] - 1 ELSE 0)
        BY <2>1
      <3>3. failed'[w] = (IF failed[w] < RetryS THEN failed[w] + 1 ELSE RetryS)
        BY <2>1
      <3> QED BY <3>1, <3>2, <3>3, RoutingAssumption
    <2>3. failed' = [w \in Worker |-> failed'[w]] /\ off' = [w \in Worker |-> off'[w]]
      BY <2>1
    <2> QED BY <2>2, <2>3
  <1>5. ASSUME NEW r \in Call PROVE routingReq'[r] \in RoutingCall /\ CallOK(routingReq'[r], failed')
    <2>1. /\ routingReq[r] \in RoutingCall /\ CallOK(routingReq[r], failed)
          /\ routingReq[r].pc # "done" /\ (routingReq[r].pc # "idle" => routingReq[r].since < Slow)
      BY DEF RoutingInv, Routing!Tick
    <2>2. CASE routingReq[r].pc = "idle"
      <3>1. routingReq'[r] = Routing!Idle
        BY <2>2 DEF Routing!Tick
      <3> QED BY <3>1, IdleFacts DEF CallOK
    <2>3. CASE routingReq[r].pc # "idle"
      <3>1. PICK x, y : x = routingReq[r] /\ y = routingReq'[r]
        OBVIOUS
      <3>2. y = Later(x)
        BY <2>3, <3>1 DEF Routing!Tick, Later
      <3>3. Waiting(x) /\ Excused(x, failed[x.w]) /\ x.since < Slow
        BY <2>1, <2>3, <3>1 DEF CallOK
      <3>4. Waiting(y) /\ y \in RoutingCall /\ y.pc = x.pc /\ y.w = x.w /\ y.since = x.since + 1
        BY ONLY <3>2, <3>3, WaitTick
      <3>5. x.w \in Worker /\ x.since \in Nat /\ failed[x.w] \in 0 .. RetryS
        BY <3>3 DEF Waiting, Base, RoutingCall, RoutingInv
      <3>6. Excused(y, failed'[y.w])
        <4>1. failed'[x.w] = RetryS \/ failed'[x.w] = failed[x.w] + 1
          BY <1>4, <3>5
        <4>2. failed'[x.w] \in 0 .. RetryS
          BY <1>4, <3>5
        <4> QED BY <3>3, <3>4, <3>5, <4>1, <4>2, RoutingAssumption DEF Excused
      <3>7. y.pc \notin {"idle", "done"}
        BY <3>4 DEF Waiting
      <3> QED BY <3>1, <3>4, <3>6, <3>7 DEF CallOK
    <2> QED BY <2>2, <2>3
  <1>6. routingReq' \in [Call -> RoutingCall]
    <2>1. routingReq' = [r \in Call |-> routingReq'[r]]
      BY DEF Routing!Tick
    <2> QED BY <1>5, <2>1
  <1> QED BY <1>1, <1>2, <1>3, <1>4, <1>5, <1>6 DEF RoutingInv

(* Every step keeps the invariant.                                         *)
LEMMA RoutingStep ==
  ASSUME RoutingInv, [Routing!Next]_(Routing!vars)
  PROVE  RoutingInv'
  <1>1. CASE Routing!Next
    BY <1>1, StartOK, GetOK, ComputeOK, PutOK, RestOK, TickOK DEF Routing!Next
  <1>2. CASE UNCHANGED Routing!vars
    BY <1>2 DEF Routing!vars, RoutingInv
  <1> QED BY <1>1, <1>2

(* A call that fails within the retry window of an earlier failure began   *)
(* before it.                                                              *)
LEMMA PaidOnce ==
  ASSUME RoutingInv, Routing!Next
  PROVE  Routing!OnePaid
  <1> SUFFICES ASSUME NEW r \in Call, routingReq[r].pc \in {"get", "set"}, routingReq'[r] # routingReq[r],
                      failed'[routingReq[r].w] = 0, failed[routingReq[r].w] < RetryS, failed' # failed
               PROVE  routingReq[r].since >= failed[routingReq[r].w]
    BY DEF Routing!OnePaid
  <1>1. Excused(routingReq[r], failed[routingReq[r].w]) /\ failed[routingReq[r].w] \in 0 .. RetryS
    BY UnderWay
  <1> QED BY <1>1, RoutingAssumption DEF Excused

-----------------------------------------------------------------------------
(* The response cache.                                                     *)

(* The entries of the store, and the record of uses.                       *)
CacheKey == {Cache!_key(r) : r \in Cache!Signature}
Cached == [key : CacheKey, text : Cache!Signature, age : Nat]
LastUse == [key : Cache!Signature, age : Nat]

(* A dictionary: no key twice.                                             *)
Keyed(s) == \A i, j \in 1 .. Len(s) : s[i].key = s[j].key => i = j

(* The store holds answers to requests that were used, in the order of     *)
(* their last use and as old as that says.                                 *)
Placed(st, us) ==
  /\ st \in Seq(Cached) /\ us \in Seq(LastUse) /\ Keyed(st) /\ Keyed(us)
  /\ \A i \in 1 .. Len(st) : st[i].key = Cache!_key(st[i].text) /\ Cache!is_cacheable(st[i].text)
  /\ \A n \in 1 .. Len(us) : Cache!is_cacheable(us[n].key)
  /\ \A i \in 1 .. Len(st) : \E n \in 1 .. Len(us) : us[n].key = st[i].text /\ us[n].age = st[i].age
  /\ \A i, j \in 1 .. Len(st), n, m \in 1 .. Len(us) :
       i < j /\ us[n].key = st[i].text /\ us[m].key = st[j].text => n < m

(* The requests used last are in the store while they are young.           *)
Recent(st, us) ==
  \A n \in 1 .. Len(us) :
    n > Len(us) - MaxEntries /\ us[n].age <= CacheTTL[Cache!cap(us[n].key)] =>
      \E i \in 1 .. Len(st) : st[i].text = us[n].key

(* The inductive invariant of the cache.                                   *)
CacheInv ==
  /\ Placed(store, cacheUsed) /\ Recent(store, cacheUsed) /\ Len(store) <= MaxEntries
  /\ calls \subseteq Cache!Signature /\ Cache!HitIsOwn

(* A key tells the request.                                                *)
LEMMA KeyTells ==
  ASSUME NEW q \in Cache!Signature, NEW r \in Cache!Signature, Cache!_key(q) = Cache!_key(r)
  PROVE  q = r
  <1>1. q.project = r.project /\ q.message = r.message /\ q.format = r.format
    BY DEF Cache!_key
  <1> QED BY <1>1 DEF Cache!Signature

(* Where the rest is after a key was taken out of a dictionary.            *)
Taken(w, s, k) ==
  /\ Len(w) <= Len(s)
  /\ (\E i \in 1 .. Len(s) : s[i].key = k) => Len(w) + 1 = Len(s)
  /\ \A i \in 1 .. Len(w) : w[i].key # k
  /\ \E g \in [1 .. Len(w) -> 1 .. Len(s)] :
       /\ \A i \in 1 .. Len(w) : w[i] = s[g[i]] /\ Len(s) - g[i] <= Len(w) + 1 - i
       /\ \A i, j \in 1 .. Len(w) : i < j => g[i] < g[j]
       /\ \A n \in 1 .. Len(s) : s[n].key # k => \E i \in 1 .. Len(w) : g[i] = n

(* And when it is put behind the others: they keep their order, and none   *)
(* of them comes closer to the end.                                        *)
Closed(v, s, e) ==
  /\ Len(v) \in Nat \ {0} /\ Len(v) <= Len(s) + 1 /\ v[Len(v)] = e /\ Keyed(v)
  /\ (\E i \in 1 .. Len(s) : s[i].key = e.key) => Len(v) = Len(s)
  /\ \A i \in 1 .. Len(v) - 1 : v[i].key # e.key
  /\ \E g \in [1 .. Len(v) - 1 -> 1 .. Len(s)] :
       /\ \A i \in 1 .. Len(v) - 1 : v[i] = s[g[i]] /\ Len(s) - g[i] <= Len(v) - i
       /\ \A i, j \in 1 .. Len(v) - 1 : i < j => g[i] < g[j]
       /\ \A n \in 1 .. Len(s) : s[n].key # e.key => \E i \in 1 .. Len(v) - 1 : g[i] = n

(* A key is taken out of a dictionary.                                     *)
LEMMA WithoutFacts ==
  ASSUME NEW T, NEW s \in Seq(T), Keyed(s), NEW k
  PROVE  Cache!Without(s, k) \in Seq(T) /\ Taken(Cache!Without(s, k), s, k)
  <1> DEFINE w == Cache!Without(s, k)
             at == {i \in DOMAIN s : s[i].key = k}
             L == Len(s)
  <1>1. L \in Nat /\ DOMAIN s = 1 .. L /\ \A i \in 1 .. L : s[i] \in T
    BY ElementOfSeq, LenProperties
  <1>2. CASE at = {}
    <2>1. w = s
      BY <1>2 DEF Cache!Without
    <2>2. \A i \in 1 .. L : s[i].key # k
      BY <1>1, <1>2
    <2> DEFINE g == [i \in 1 .. L |-> i]
    <2>3. /\ g \in [1 .. L -> 1 .. L]
          /\ \A i \in 1 .. L : s[i] = s[g[i]] /\ L - g[i] <= L + 1 - i
          /\ \A i, j \in 1 .. L : i < j => g[i] < g[j]
          /\ \A n \in 1 .. L : s[n].key # k => \E i \in 1 .. L : g[i] = n
      BY <1>1
    <2> HIDE DEF g
    <2>4. (\E i \in 1 .. L : s[i].key = k) => L + 1 = L
      BY <2>2
    <2>5. L <= L
      BY <1>1
    <2> HIDE DEF w
    <2>6. \E f \in [1 .. Len(w) -> 1 .. L] :
            /\ \A i \in 1 .. Len(w) : w[i] = s[f[i]] /\ L - f[i] <= Len(w) + 1 - i
            /\ \A i, j \in 1 .. Len(w) : i < j => f[i] < f[j]
            /\ \A n \in 1 .. L : s[n].key # k => \E i \in 1 .. Len(w) : f[i] = n
      <3>1. /\ g \in [1 .. Len(w) -> 1 .. L]
            /\ \A i \in 1 .. Len(w) : w[i] = s[g[i]] /\ L - g[i] <= Len(w) + 1 - i
            /\ \A i, j \in 1 .. Len(w) : i < j => g[i] < g[j]
            /\ \A n \in 1 .. L : s[n].key # k => \E i \in 1 .. Len(w) : g[i] = n
        BY ONLY <2>1, <2>3
      <3> QED BY ONLY <3>1, Zenon
    <2> QED BY <2>1, <2>2, <2>4, <2>5, <2>6 DEF w, Taken
  <1>3. CASE at # {}
    <2> DEFINE p == CHOOSE i \in at : TRUE
    <2>1. p \in 1 .. L /\ s[p].key = k
      BY <1>1, <1>3
    <2>2. w = [n \in 1 .. L - 1 |-> IF n < p THEN s[n] ELSE s[n + 1]]
      BY <1>3, Zenon DEF Cache!Without
    <2> HIDE DEF p, w
    <2>3. L - 1 \in Nat
      BY <1>1, <2>1
    <2>4. \A n \in 1 .. L - 1 : n \in 1 .. L /\ n + 1 \in 1 .. L
      BY <1>1
    <2> DEFINE g == [i \in 1 .. L - 1 |-> IF i < p THEN i ELSE i + 1]
    <2>5. w \in Seq(T) /\ Len(w) = L - 1
      <3>1. \A n \in 1 .. L - 1 : (IF n < p THEN s[n] ELSE s[n + 1]) \in T
        BY <1>1, <2>4
      <3>2. w \in [1 .. L - 1 -> T]
        BY <2>2, <3>1
      <3> QED BY <2>3, <3>2
    <2>6. ASSUME NEW i \in 1 .. L - 1 PROVE w[i] = s[g[i]]
      BY <2>2
    <2>7. /\ g \in [1 .. L - 1 -> 1 .. L]
          /\ \A i \in 1 .. L - 1 : L - g[i] <= L - i /\ g[i] # p
          /\ \A i, j \in 1 .. L - 1 : i < j => g[i] < g[j]
      BY <1>1, <2>1
    <2>8. ASSUME NEW n \in 1 .. L, n # p PROVE \E i \in 1 .. L - 1 : g[i] = n
      <3>1. CASE n < p
        BY <1>1, <2>1, <3>1
      <3>2. CASE n > p
        <4>1. n - 1 \in 1 .. L - 1 /\ g[n - 1] = n
          BY <1>1, <2>1, <3>2
        <4> QED BY <4>1
      <3> QED BY <2>8, <2>1, <3>1, <3>2
    <2> HIDE DEF g
    <2>9. \A i \in 1 .. L - 1 : w[i].key # k
      <3> TAKE i \in 1 .. L - 1
      <3>1. g[i] \in 1 .. L /\ g[i] # p /\ w[i] = s[g[i]]
        BY <2>6, <2>7
      <3>2. s[g[i]].key # s[p].key
        BY <2>1, <3>1 DEF Keyed
      <3> QED BY <2>1, <3>1, <3>2
    <2>10. \A n \in 1 .. L : s[n].key # k => \E i \in 1 .. L - 1 : g[i] = n
      BY <2>1, <2>8
    <2>11. (L - 1) + 1 = L /\ L - 1 <= L /\ \A i \in 1 .. L - 1 : (L - 1) + 1 - i = L - i
      BY <1>1, <2>1
    <2>12. \E f \in [1 .. Len(w) -> 1 .. L] :
            /\ \A i \in 1 .. Len(w) : w[i] = s[f[i]] /\ L - f[i] <= Len(w) + 1 - i
            /\ \A i, j \in 1 .. Len(w) : i < j => f[i] < f[j]
            /\ \A n \in 1 .. L : s[n].key # k => \E i \in 1 .. Len(w) : f[i] = n
      <3>1. Len(w) = L - 1
        BY <2>5
      <3>2. \A i \in 1 .. L - 1 : w[i] = s[g[i]] /\ L - g[i] <= (L - 1) + 1 - i
        BY <2>6, <2>7, <2>11
      <3>3. /\ g \in [1 .. Len(w) -> 1 .. L]
            /\ \A i \in 1 .. Len(w) : w[i] = s[g[i]] /\ L - g[i] <= Len(w) + 1 - i
            /\ \A i, j \in 1 .. Len(w) : i < j => g[i] < g[j]
            /\ \A n \in 1 .. L : s[n].key # k => \E i \in 1 .. Len(w) : g[i] = n
        BY ONLY <3>1, <3>2, <2>7, <2>10
      <3> QED BY ONLY <3>3, Zenon
    <2> QED BY <2>5, <2>9, <2>11, <2>12 DEF w, Taken
  <1> QED BY <1>2, <1>3

(* An entry put behind the others.                                         *)
LEMMA AppendFacts ==
  ASSUME NEW T, NEW s \in Seq(T), NEW e \in T
  PROVE  /\ Append(s, e) \in Seq(T) /\ Len(Append(s, e)) = Len(s) + 1 /\ Len(s) \in Nat
         /\ Append(s, e)[Len(s) + 1] = e /\ \A i \in 1 .. Len(s) : Append(s, e)[i] = s[i]
  BY LenProperties, AppendProperties

(* A key is taken out and put behind the others.                           *)
LEMMA ToEnd ==
  ASSUME NEW T, NEW s \in Seq(T), Keyed(s), NEW e \in T
  PROVE  /\ Append(Cache!Without(s, e.key), e) \in Seq(T)
         /\ Closed(Append(Cache!Without(s, e.key), e), s, e)
  <1> DEFINE w == Cache!Without(s, e.key)
             v == Append(w, e)
  <1>0. w \in Seq(T) /\ Taken(w, s, e.key)
    BY WithoutFacts
  <1> HIDE DEF w
  <1>1. /\ w \in Seq(T) /\ Len(w) <= Len(s)
        /\ (\E i \in 1 .. Len(s) : s[i].key = e.key) => Len(w) + 1 = Len(s)
        /\ \A i \in 1 .. Len(w) : w[i].key # e.key
    BY <1>0 DEF Taken
  <1>2. PICK g \in [1 .. Len(w) -> 1 .. Len(s)] :
                  /\ \A i \in 1 .. Len(w) : w[i] = s[g[i]] /\ Len(s) - g[i] <= Len(w) + 1 - i
                  /\ \A i, j \in 1 .. Len(w) : i < j => g[i] < g[j]
                  /\ \A n \in 1 .. Len(s) : s[n].key # e.key => \E i \in 1 .. Len(w) : g[i] = n
    BY <1>0 DEF Taken
  <1>3. /\ v \in Seq(T) /\ Len(v) = Len(w) + 1 /\ Len(w) \in Nat /\ Len(s) \in Nat
        /\ v[Len(w) + 1] = e /\ \A i \in 1 .. Len(w) : v[i] = w[i]
    BY <1>1, AppendFacts, LenProperties
  <1> HIDE DEF v
  <1>4. Len(v) - 1 = Len(w) /\ Len(v) \in Nat \ {0} /\ Len(v) <= Len(s) + 1
    BY <1>1, <1>3
  <1>5. \A i \in 1 .. Len(v) - 1 : v[i].key # e.key
    BY <1>1, <1>3, <1>4
  <1>6. Keyed(v)
    <2> SUFFICES ASSUME NEW i \in 1 .. Len(v), NEW j \in 1 .. Len(v), v[i].key = v[j].key, i < j PROVE FALSE
      BY <1>3 DEF Keyed
    <2>1. i \in 1 .. Len(w)
      BY <1>3
    <2>2. CASE j = Len(w) + 1
      BY <1>1, <1>3, <2>1, <2>2
    <2>3. CASE j # Len(w) + 1
      <3>1. j \in 1 .. Len(w)
        BY <1>3, <2>3
      <3>2. v[i] = s[g[i]] /\ v[j] = s[g[j]] /\ g[i] < g[j] /\ g[i] \in 1 .. Len(s) /\ g[j] \in 1 .. Len(s)
        BY <1>2, <1>3, <2>1, <3>1
      <3> QED BY <1>3, <3>2 DEF Keyed
    <2> QED BY <2>2, <2>3
  <1>7. /\ g \in [1 .. Len(v) - 1 -> 1 .. Len(s)]
        /\ \A i \in 1 .. Len(v) - 1 : v[i] = s[g[i]] /\ Len(s) - g[i] <= Len(v) - i
        /\ \A i, j \in 1 .. Len(v) - 1 : i < j => g[i] < g[j]
        /\ \A n \in 1 .. Len(s) : s[n].key # e.key => \E i \in 1 .. Len(v) - 1 : g[i] = n
    BY <1>2, <1>3, <1>4
  <1>8. (\E i \in 1 .. Len(s) : s[i].key = e.key) => Len(v) = Len(s)
    BY <1>1, <1>3
  <1>9. v[Len(v)] = e
    BY <1>3
  <1> QED BY <1>3, <1>4, <1>5, <1>6, <1>7, <1>8, <1>9 DEF v, w, Closed

(* A request used now, in the store and in the record of uses.             *)
StoreNow(st, r, age) ==
  Append(Cache!Without(st, Cache!_key(r)), [key |-> Cache!_key(r), text |-> r, age |-> age])
UsesNow(us, r, age) == Append(Cache!Without(us, r), [key |-> r, age |-> age])

(* An answer given or found now is the last one used, in the store and by  *)
(* the record.                                                             *)
LEMMA UsedNow ==
  ASSUME NEW st, NEW us, Placed(st, us), Recent(st, us), NEW r \in Cache!Signature, Cache!is_cacheable(r),
         NEW age \in Nat
  PROVE  /\ Placed(StoreNow(st, r, age), UsesNow(us, r, age))
         /\ Recent(StoreNow(st, r, age), UsesNow(us, r, age))
         /\ Len(StoreNow(st, r, age)) <= Len(st) + 1
         /\ (\E i \in 1 .. Len(st) : st[i].key = Cache!_key(r)) => Len(StoreNow(st, r, age)) = Len(st)
  <1>20. PICK e : e = [key |-> Cache!_key(r), text |-> r, age |-> age]
    OBVIOUS
  <1>21. PICK u : u = [key |-> r, age |-> age]
    OBVIOUS
  <1>22. PICK st2 : st2 = StoreNow(st, r, age) /\ st2 = Append(Cache!Without(st, Cache!_key(r)), e)
    BY <1>20 DEF StoreNow
  <1>23. PICK us2 : us2 = UsesNow(us, r, age) /\ us2 = Append(Cache!Without(us, r), u)
    BY <1>21 DEF UsesNow
  <1>1. e \in Cached /\ e.key = Cache!_key(r) /\ e.text = r /\ e.age = age
    BY <1>20 DEF Cached, CacheKey
  <1>2. u \in LastUse /\ u.key = r /\ u.age = age
    BY <1>21 DEF LastUse
  <1>3. st \in Seq(Cached) /\ us \in Seq(LastUse) /\ Keyed(st) /\ Keyed(us)
        /\ Len(st) \in Nat /\ Len(us) \in Nat
    BY LenProperties DEF Placed
  <1>30. st2 \in Seq(Cached) /\ Closed(st2, st, e)
    BY <1>1, <1>3, <1>22, ToEnd
  <1>31. us2 \in Seq(LastUse) /\ Closed(us2, us, u)
    BY <1>2, <1>3, <1>23, ToEnd
  <1>4. /\ st2 \in Seq(Cached) /\ Len(st2) \in Nat \ {0} /\ Len(st2) <= Len(st) + 1 /\ st2[Len(st2)] = e
        /\ Keyed(st2) /\ ((\E i \in 1 .. Len(st) : st[i].key = e.key) => Len(st2) = Len(st))
        /\ \A i \in 1 .. Len(st2) - 1 : st2[i].key # e.key
    BY <1>30 DEF Closed
  <1>5. PICK g \in [1 .. Len(st2) - 1 -> 1 .. Len(st)] :
                  /\ \A i \in 1 .. Len(st2) - 1 : st2[i] = st[g[i]] /\ Len(st) - g[i] <= Len(st2) - i
                  /\ \A i, j \in 1 .. Len(st2) - 1 : i < j => g[i] < g[j]
                  /\ \A n \in 1 .. Len(st) : st[n].key # e.key => \E i \in 1 .. Len(st2) - 1 : g[i] = n
    BY <1>30 DEF Closed
  <1>6. /\ us2 \in Seq(LastUse) /\ Len(us2) \in Nat \ {0} /\ us2[Len(us2)] = u /\ Keyed(us2)
        /\ \A i \in 1 .. Len(us2) - 1 : us2[i].key # r
    BY <1>2, <1>31 DEF Closed
  <1>7. PICK h \in [1 .. Len(us2) - 1 -> 1 .. Len(us)] :
                  /\ \A i \in 1 .. Len(us2) - 1 : us2[i] = us[h[i]] /\ Len(us) - h[i] <= Len(us2) - i
                  /\ \A i, j \in 1 .. Len(us2) - 1 : i < j => h[i] < h[j]
                  /\ \A n \in 1 .. Len(us) : us[n].key # u.key => \E i \in 1 .. Len(us2) - 1 : h[i] = n
    BY <1>31 DEF Closed
  <1>8. \A i \in 1 .. Len(st2) : i = Len(st2) \/ i \in 1 .. Len(st2) - 1
    BY <1>4
  <1>9. \A n \in 1 .. Len(us2) : n = Len(us2) \/ n \in 1 .. Len(us2) - 1
    BY <1>6
  <1>10. \A i \in 1 .. Len(st) : st[i].text \in Cache!Signature /\ (st[i].text = r <=> st[i].key = e.key)
    <2> TAKE i \in 1 .. Len(st)
    <2>1. st[i] \in Cached /\ st[i].key = Cache!_key(st[i].text)
      BY <1>3, ElementOfSeq DEF Placed
    <2>2. st[i].text \in Cache!Signature
      BY <2>1 DEF Cached
    <2> QED BY <1>1, <2>1, <2>2, KeyTells
  <1>11. \A i \in 1 .. Len(st2) - 1 : st2[i].text # r /\ g[i] \in 1 .. Len(st) /\ st2[i] = st[g[i]]
    <2> TAKE i \in 1 .. Len(st2) - 1
    <2>1. g[i] \in 1 .. Len(st) /\ st2[i] = st[g[i]] /\ st2[i].key # e.key
      BY <1>4, <1>5
    <2> QED BY <1>10, <2>1
  <1>12. \A n \in 1 .. Len(us2) - 1 : h[n] \in 1 .. Len(us) /\ us2[n] = us[h[n]]
    BY <1>7
  <1>13. ASSUME NEW i \in 1 .. Len(st2)
         PROVE  /\ st2[i].key = Cache!_key(st2[i].text) /\ Cache!is_cacheable(st2[i].text)
                /\ \E n \in 1 .. Len(us2) : us2[n].key = st2[i].text /\ us2[n].age = st2[i].age
    <2>1. CASE i = Len(st2)
      <3>1. Len(us2) \in 1 .. Len(us2)
        BY <1>6
      <3> QED BY <1>1, <1>2, <1>4, <1>6, <2>1, <3>1
    <2>2. CASE i \in 1 .. Len(st2) - 1
      <3>1. st2[i].text # r /\ g[i] \in 1 .. Len(st) /\ st2[i] = st[g[i]]
        BY <1>11, <2>2
      <3>2. PICK n \in 1 .. Len(us) : us[n].key = st2[i].text /\ us[n].age = st2[i].age
        BY <3>1 DEF Placed
      <3>3. PICK m \in 1 .. Len(us2) - 1 : h[m] = n
        BY <1>2, <1>7, <3>1, <3>2
      <3>4. us2[m] = us[n] /\ m \in 1 .. Len(us2)
        <4>1. us2[m] = us[n]
          BY ONLY <1>12, <3>3
        <4>2. m \in 1 .. Len(us2)
          BY ONLY <1>6, m \in 1 .. Len(us2) - 1
        <4> QED BY <4>1, <4>2
      <3> QED BY <3>1, <3>2, <3>4 DEF Placed
    <2> QED BY <1>8, <2>1, <2>2
  <1>14. ASSUME NEW n \in 1 .. Len(us2) PROVE Cache!is_cacheable(us2[n].key)
    <2>1. CASE n = Len(us2)
      BY <1>2, <1>6, <2>1
    <2>2. CASE n \in 1 .. Len(us2) - 1
      BY <1>12, <2>2 DEF Placed
    <2> QED BY <1>9, <2>1, <2>2
  <1>15. ASSUME NEW i \in 1 .. Len(st2), NEW j \in 1 .. Len(st2), NEW n \in 1 .. Len(us2), NEW m \in 1 .. Len(us2),
                i < j, us2[n].key = st2[i].text, us2[m].key = st2[j].text
         PROVE  n < m
    <2>1. i \in 1 .. Len(st2) - 1
      BY <1>4, <1>15
    <2>2. st2[i].text # r /\ g[i] \in 1 .. Len(st) /\ st2[i] = st[g[i]]
      BY <1>11, <2>1
    <2>3. n # Len(us2)
      BY <1>2, <1>6, <1>15, <2>2
    <2>4. n \in 1 .. Len(us2) - 1
      BY <1>9, <2>3
    <2>5. CASE m = Len(us2)
      BY <1>6, <2>4, <2>5
    <2>6. CASE m \in 1 .. Len(us2) - 1
      <3>1. j # Len(st2)
        BY <1>1, <1>4, <1>6, <1>15, <2>6
      <3>2. j \in 1 .. Len(st2) - 1
        BY <1>8, <3>1
      <3>3. g[j] \in 1 .. Len(st) /\ st2[j] = st[g[j]] /\ g[i] < g[j]
        BY <1>5, <1>11, <1>15, <2>1, <3>2
      <3>4. h[n] \in 1 .. Len(us) /\ us2[n] = us[h[n]] /\ h[m] \in 1 .. Len(us) /\ us2[m] = us[h[m]]
        BY <1>12, <2>4, <2>6
      <3>5. h[n] < h[m]
        <4>1. us[h[n]].key = st[g[i]].text /\ us[h[m]].key = st[g[j]].text
          BY <1>15, <2>2, <3>3, <3>4
        <4>2. \A a, b \in 1 .. Len(st), c, d \in 1 .. Len(us) :
                a < b /\ us[c].key = st[a].text /\ us[d].key = st[b].text => c < d
          BY DEF Placed
        <4> QED BY ONLY <2>2, <3>3, <3>4, <4>1, <4>2
      <3>6. n = m \/ m < n \/ n < m
        OBVIOUS
      <3>7. m < n => h[m] < h[n]
        BY <1>7, <2>4, <2>6
      <3> QED BY <1>3, <3>4, <3>5, <3>6, <3>7
    <2> QED BY <1>9, <2>5, <2>6
  <1>16. Placed(st2, us2)
    <2>1. \A i, j \in 1 .. Len(st2), n, m \in 1 .. Len(us2) :
            i < j /\ us2[n].key = st2[i].text /\ us2[m].key = st2[j].text => n < m
      BY ONLY <1>15, Zenon
    <2> QED BY ONLY <1>4, <1>6, <1>13, <1>14, <2>1 DEF Placed
  <1>17. Recent(st2, us2)
    <2> SUFFICES ASSUME NEW n \in 1 .. Len(us2), n > Len(us2) - MaxEntries,
                        us2[n].age <= CacheTTL[Cache!cap(us2[n].key)]
                 PROVE  \E i \in 1 .. Len(st2) : st2[i].text = us2[n].key
      BY DEF Recent
    <2>1. CASE n = Len(us2)
      <3>1. Len(st2) \in 1 .. Len(st2) /\ st2[Len(st2)].text = r
        BY <1>1, <1>4
      <3> QED BY <1>2, <1>6, <2>1, <3>1
    <2>2. CASE n \in 1 .. Len(us2) - 1
      <3>1. h[n] \in 1 .. Len(us) /\ us2[n] = us[h[n]] /\ Len(us) - h[n] <= Len(us2) - n /\ us2[n].key # r
        BY <1>6, <1>7, <2>2
      <3>2. h[n] > Len(us) - MaxEntries
        BY <1>3, <1>6, <3>1, CacheAssumption
      <3>3. PICK i \in 1 .. Len(st) : st[i].text = us2[n].key
        BY <3>1, <3>2 DEF Recent
      <3>4. st[i].key # e.key
        BY <1>10, <3>1, <3>3
      <3>5. PICK j \in 1 .. Len(st2) - 1 : g[j] = i
        BY <1>5, <3>4
      <3>6. st2[j] = st[i] /\ j \in 1 .. Len(st2)
        BY <1>4, <1>11, <3>5
      <3> QED BY <3>3, <3>6
    <2> QED BY <1>9, <2>1, <2>2
  <1> QED BY <1>1, <1>4, <1>16, <1>17, <1>22, <1>23

(* An entry of the store has been followed by a use for every entry behind *)
(* it.                                                                     *)
LEMMA FollowedBy ==
  ASSUME NEW st, NEW us, Placed(st, us), NEW n \in 1 .. Len(us), st # <<>>, us[n].key = st[1].text
  PROVE  n <= Len(us) - (Len(st) - 1)
  <1>1. Len(st) \in Nat \ {0} /\ Len(us) \in Nat
    BY LenProperties, EmptySeq DEF Placed
  <1> DEFINE P == {k \in Nat : k < Len(st) =>
                     \A m \in 1 .. Len(us) : us[m].key = st[Len(st) - k].text => m <= Len(us) - k}
  <1>2. 0 \in P
    BY <1>1
  <1>3. ASSUME NEW k \in Nat, k \in P PROVE k + 1 \in P
    <2> SUFFICES ASSUME k + 1 < Len(st), NEW m \in 1 .. Len(us), us[m].key = st[Len(st) - (k + 1)].text
                 PROVE  m <= Len(us) - (k + 1)
      OBVIOUS
    <2>1. /\ Len(st) - (k + 1) \in 1 .. Len(st) /\ Len(st) - k \in 1 .. Len(st)
          /\ Len(st) - (k + 1) < Len(st) - k /\ k < Len(st)
      BY <1>1
    <2>2. PICK q \in 1 .. Len(us) : us[q].key = st[Len(st) - k].text
      BY <2>1 DEF Placed
    <2>3. q <= Len(us) - k
      BY <1>3, <2>1, <2>2
    <2>4. \A a, b \in 1 .. Len(st), c, d \in 1 .. Len(us) :
            a < b /\ us[c].key = st[a].text /\ us[d].key = st[b].text => c < d
      BY DEF Placed
    <2>5. m < q
      BY ONLY <2>1, <2>2, <2>4, m \in 1 .. Len(us), us[m].key = st[Len(st) - (k + 1)].text
    <2> QED BY ONLY <1>1, <2>3, <2>5, k \in Nat, m \in 1 .. Len(us), q \in 1 .. Len(us)
  <1> HIDE DEF P
  <1>4. Len(st) - 1 \in P
    BY <1>1, <1>2, <1>3, Nats
  <1>5. Len(st) - (Len(st) - 1) = 1 /\ Len(st) - 1 < Len(st)
    BY <1>1
  <1> QED BY <1>4, <1>5 DEF P

(* What stays of the store when its first entries go.                      *)
LEMMA Fewer ==
  ASSUME NEW st, NEW us, Placed(st, us), NEW st2 \in Seq(Cached), NEW g \in [1 .. Len(st2) -> 1 .. Len(st)],
         \A i \in 1 .. Len(st2) : st2[i] = st[g[i]],
         \A i, j \in 1 .. Len(st2) : i < j => g[i] < g[j]
  PROVE  Placed(st2, us)
  <1>1. Len(st2) \in Nat /\ Len(st) \in Nat
    BY LenProperties DEF Placed
  <1>2. Keyed(st2)
    <2> SUFFICES ASSUME NEW i \in 1 .. Len(st2), NEW j \in 1 .. Len(st2), st2[i].key = st2[j].key, i < j PROVE FALSE
      BY <1>1 DEF Keyed
    <2>1. g[i] \in 1 .. Len(st) /\ g[j] \in 1 .. Len(st) /\ g[i] < g[j] /\ st[g[i]].key = st[g[j]].key
      OBVIOUS
    <2>2. Keyed(st)
      BY DEF Placed
    <2> QED BY ONLY <1>1, <2>1, <2>2 DEF Keyed
  <1>3. ASSUME NEW i \in 1 .. Len(st2)
        PROVE  /\ st2[i].key = Cache!_key(st2[i].text) /\ Cache!is_cacheable(st2[i].text)
               /\ \E n \in 1 .. Len(us) : us[n].key = st2[i].text /\ us[n].age = st2[i].age
    <2>1. PICK a \in 1 .. Len(st) : st2[i] = st[a]
      BY <1>3
    <2>2. /\ st[a].key = Cache!_key(st[a].text) /\ Cache!is_cacheable(st[a].text)
          /\ \E n \in 1 .. Len(us) : us[n].key = st[a].text /\ us[n].age = st[a].age
      BY ONLY Placed(st, us), a \in 1 .. Len(st) DEF Placed
    <2> QED BY ONLY <2>1, <2>2
  <1>4. ASSUME NEW i \in 1 .. Len(st2), NEW j \in 1 .. Len(st2), NEW n \in 1 .. Len(us), NEW m \in 1 .. Len(us),
               i < j, us[n].key = st2[i].text, us[m].key = st2[j].text
        PROVE  n < m
    <2>1. g[i] \in 1 .. Len(st) /\ g[j] \in 1 .. Len(st) /\ g[i] < g[j] /\ st2[i] = st[g[i]] /\ st2[j] = st[g[j]]
      BY <1>4
    <2>2. \A a, b \in 1 .. Len(st), c, d \in 1 .. Len(us) :
            a < b /\ us[c].key = st[a].text /\ us[d].key = st[b].text => c < d
      BY DEF Placed
    <2>3. us[n].key = st[g[i]].text /\ us[m].key = st[g[j]].text
      BY <1>4, <2>1
    <2> QED BY ONLY <2>1, <2>2, <2>3, n \in 1 .. Len(us), m \in 1 .. Len(us)
  <1>5. \A i, j \in 1 .. Len(st2), n, m \in 1 .. Len(us) :
          i < j /\ us[n].key = st2[i].text /\ us[m].key = st2[j].text => n < m
    BY ONLY <1>4, Zenon
  <1>6. us \in Seq(LastUse) /\ Keyed(us) /\ \A n \in 1 .. Len(us) : Cache!is_cacheable(us[n].key)
    BY DEF Placed
  <1> QED BY ONLY <1>2, <1>3, <1>5, <1>6, st2 \in Seq(Cached) DEF Placed

(* What is evicted was not used lately.                                    *)
LEMMA EvictedOK ==
  ASSUME NEW st, NEW us, Placed(st, us), Recent(st, us), Len(st) <= MaxEntries + 1
  PROVE  /\ Placed(Cache!Evicted(st), us) /\ Recent(Cache!Evicted(st), us)
         /\ Len(Cache!Evicted(st)) <= MaxEntries
  <1>1. st \in Seq(Cached) /\ Len(st) \in Nat /\ Len(us) \in Nat /\ MaxEntries \in Nat
    BY LenProperties, CacheAssumption DEF Placed
  <1>2. CASE Len(st) <= MaxEntries
    BY <1>1, <1>2 DEF Cache!Evicted
  <1>3. CASE Len(st) > MaxEntries
    <2> DEFINE L == Len(st)
               e == Cache!Evicted(st)
               g == [i \in 1 .. L - 1 |-> i + 1]
    <2>1. L = MaxEntries + 1 /\ 1 + L - MaxEntries = 2 /\ L - 1 = MaxEntries
      BY <1>1, <1>3
    <2>2. e = SubSeq(st, 2, L)
      BY <1>3, <2>1 DEF Cache!Evicted
    <2> HIDE DEF e
    <2>3. 2 \in 1 .. L + 1 /\ L \in 2 - 1 .. L /\ L - 2 + 1 = L - 1
      BY <1>1, <2>1
    <2>4. e \in Seq(Cached) /\ Len(e) = L - 1 /\ \A i \in 1 .. L - 1 : e[i] = st[i + 1]
      <3>1. SubSeq(st, 2, L) \in Seq(Cached) /\ Len(SubSeq(st, 2, L)) = L - 2 + 1
        BY <1>1, <2>3, SubSeqProperties
      <3>2. ASSUME NEW i \in 1 .. L - 1 PROVE SubSeq(st, 2, L)[i] = st[i + 1]
        BY <1>1, <2>3, SubSeqProperties
      <3> QED BY <2>2, <2>3, <3>1, <3>2
    <2>5. /\ g \in [1 .. Len(e) -> 1 .. L] /\ \A i \in 1 .. Len(e) : e[i] = st[g[i]]
          /\ \A i, j \in 1 .. Len(e) : i < j => g[i] < g[j]
      BY <1>1, <2>4
    <2> HIDE DEF g
    <2>6. Placed(e, us)
      <3>1. e \in Seq(Cached)
        BY <2>4
      <3> QED BY ONLY Placed(st, us), <2>5, <3>1, Fewer
    <2>7. Recent(e, us)
      <3> SUFFICES ASSUME NEW n \in 1 .. Len(us), n > Len(us) - MaxEntries,
                          us[n].age <= CacheTTL[Cache!cap(us[n].key)]
                   PROVE  \E i \in 1 .. Len(e) : e[i].text = us[n].key
        BY DEF Recent
      <3>1. PICK i \in 1 .. L : st[i].text = us[n].key
        BY DEF Recent
      <3>2. i # 1
        <4> SUFFICES ASSUME i = 1 PROVE FALSE
          OBVIOUS
        <4>1. st # <<>>
          BY <1>1, <2>1, EmptySeq
        <4>2. n <= Len(us) - (L - 1)
          BY <3>1, <4>1, FollowedBy
        <4> QED BY ONLY <1>1, <2>1, <4>2, n \in 1 .. Len(us), n > Len(us) - MaxEntries
      <3>3. i - 1 \in 1 .. Len(e) /\ (i - 1) + 1 = i
        BY <1>1, <2>4, <3>1, <3>2
      <3>4. e[i - 1] = st[i]
        BY <2>4, <3>3
      <3> QED BY <3>1, <3>3, <3>4
    <2> QED BY <1>1, <2>1, <2>4, <2>6, <2>7 DEF e
  <1> QED BY <1>1, <1>2, <1>3

(* An answer that is too old is dropped.                                   *)
LEMMA ExpiredOK ==
  ASSUME NEW st, NEW us, Placed(st, us), Recent(st, us), NEW r \in Cache!Signature, Cache!is_cacheable(r),
         \A i \in 1 .. Len(st) : st[i].key = Cache!_key(r) => st[i].age > CacheTTL[Cache!cap(r)],
         NEW w, w = Cache!Without(st, Cache!_key(r))
  PROVE  Placed(w, us) /\ Recent(w, us) /\ Len(w) <= Len(st)
  <1>1. st \in Seq(Cached) /\ Keyed(st) /\ us \in Seq(LastUse)
    BY DEF Placed
  <1>2. w \in Seq(Cached) /\ Taken(w, st, Cache!_key(r))
    BY <1>1, WithoutFacts
  <1>3. PICK g \in [1 .. Len(w) -> 1 .. Len(st)] :
                  /\ \A i \in 1 .. Len(w) : w[i] = st[g[i]]
                  /\ \A i, j \in 1 .. Len(w) : i < j => g[i] < g[j]
                  /\ \A n \in 1 .. Len(st) : st[n].key # Cache!_key(r) => \E i \in 1 .. Len(w) : g[i] = n
    BY <1>2 DEF Taken
  <1>4. Placed(w, us)
    BY <1>2, <1>3, Fewer
  <1>5. Recent(w, us)
    <2> SUFFICES ASSUME NEW n \in 1 .. Len(us), n > Len(us) - MaxEntries,
                        us[n].age <= CacheTTL[Cache!cap(us[n].key)]
                 PROVE  \E i \in 1 .. Len(w) : w[i].text = us[n].key
      BY DEF Recent
    <2>1. PICK i \in 1 .. Len(st) : st[i].text = us[n].key
      BY DEF Recent
    <2>2. st[i].key # Cache!_key(r)
      <3> SUFFICES ASSUME st[i].key = Cache!_key(r) PROVE FALSE
        OBVIOUS
      <3>1. st[i] \in Cached /\ st[i].key = Cache!_key(st[i].text)
        BY <1>1, ElementOfSeq DEF Placed
      <3>2. st[i].text = r
        BY <3>1, KeyTells DEF Cached
      <3>3. PICK m \in 1 .. Len(us) : us[m].key = st[i].text /\ us[m].age = st[i].age
        BY DEF Placed
      <3>4. m = n
        BY <2>1, <3>3 DEF Placed, Keyed
      <3>5. st[i].age \in Nat /\ CacheTTL[Cache!cap(r)] \in Nat
        BY <3>1, CacheAssumption DEF Cached, Cache!is_cacheable
      <3>6. st[i].age > CacheTTL[Cache!cap(r)]
        OBVIOUS
      <3> QED BY <2>1, <3>2, <3>3, <3>4, <3>5, <3>6
    <2>3. PICK j \in 1 .. Len(w) : g[j] = i
      BY <1>3, <2>2
    <2> QED BY <1>3, <2>1, <2>3
  <1> QED BY <1>2, <1>4, <1>5 DEF Taken

(* A tick later.                                                           *)
Aged(n) == IF n < MaxCacheAge THEN n + 1 ELSE n

(* Older keeps everything but the ages.                                    *)
LEMMA StoreAges ==
  ASSUME NEW s \in Seq(Cached)
  PROVE  /\ Cache!Older(s) \in Seq(Cached) /\ Len(Cache!Older(s)) = Len(s)
         /\ \A i \in 1 .. Len(s) : /\ Cache!Older(s)[i].key = s[i].key /\ Cache!Older(s)[i].text = s[i].text
                                   /\ Cache!Older(s)[i].age = Aged(s[i].age)
  <1>1. Len(s) \in Nat /\ DOMAIN s = 1 .. Len(s) /\ \A i \in 1 .. Len(s) : s[i] \in Cached
    BY LenProperties, ElementOfSeq
  <1>2. Cache!Older(s) = [i \in 1 .. Len(s) |-> [s[i] EXCEPT !.age = Aged(@)]]
    BY <1>1 DEF Cache!Older, Aged
  <1>3. ASSUME NEW e \in Cached
        PROVE  LET f == [e EXCEPT !.age = Aged(@)]
               IN  f \in Cached /\ f.key = e.key /\ f.text = e.text /\ f.age = Aged(e.age)
    <2>1. Aged(e.age) \in Nat
      BY CacheAssumption DEF Cached, Aged
    <2> QED BY <2>1 DEF Cached
  <1>4. Cache!Older(s) \in [1 .. Len(s) -> Cached]
    BY <1>1, <1>2, <1>3
  <1>5. Cache!Older(s) \in Seq(Cached) /\ Len(Cache!Older(s)) = Len(s)
    BY <1>1, <1>4
  <1> QED BY <1>1, <1>2, <1>3, <1>5

(* The same of the record of uses.                                         *)
LEMMA UseAges ==
  ASSUME NEW s \in Seq(LastUse)
  PROVE  /\ Cache!Older(s) \in Seq(LastUse) /\ Len(Cache!Older(s)) = Len(s)
         /\ \A i \in 1 .. Len(s) : /\ Cache!Older(s)[i].key = s[i].key
                                   /\ Cache!Older(s)[i].age = Aged(s[i].age)
  <1>1. Len(s) \in Nat /\ DOMAIN s = 1 .. Len(s) /\ \A i \in 1 .. Len(s) : s[i] \in LastUse
    BY LenProperties, ElementOfSeq
  <1>2. Cache!Older(s) = [i \in 1 .. Len(s) |-> [s[i] EXCEPT !.age = Aged(@)]]
    BY <1>1 DEF Cache!Older, Aged
  <1>3. ASSUME NEW e \in LastUse
        PROVE  LET f == [e EXCEPT !.age = Aged(@)]
               IN  f \in LastUse /\ f.key = e.key /\ f.age = Aged(e.age)
    <2>1. Aged(e.age) \in Nat
      BY CacheAssumption DEF LastUse, Aged
    <2> QED BY <2>1 DEF LastUse
  <1>4. Cache!Older(s) \in [1 .. Len(s) -> LastUse]
    BY <1>1, <1>2, <1>3
  <1>5. Cache!Older(s) \in Seq(LastUse) /\ Len(Cache!Older(s)) = Len(s)
    BY <1>1, <1>4
  <1> QED BY <1>1, <1>2, <1>3, <1>5

(* Everything ages together.                                               *)
LEMMA AgedOK ==
  ASSUME NEW st, NEW us, Placed(st, us), Recent(st, us), NEW st2, st2 = Cache!Older(st), NEW us2, us2 = Cache!Older(us)
  PROVE  Placed(st2, us2) /\ Recent(st2, us2) /\ Len(st2) = Len(st)
  <1>1. /\ st2 \in Seq(Cached) /\ Len(st2) = Len(st)
        /\ \A i \in 1 .. Len(st) : /\ st2[i].key = st[i].key /\ st2[i].text = st[i].text
                                   /\ st2[i].age = Aged(st[i].age)
    BY StoreAges DEF Placed
  <1>2. /\ us2 \in Seq(LastUse) /\ Len(us2) = Len(us)
        /\ \A i \in 1 .. Len(us) : us2[i].key = us[i].key /\ us2[i].age = Aged(us[i].age)
    BY UseAges DEF Placed
  <1>3. Keyed(st2) /\ Keyed(us2)
    BY <1>1, <1>2 DEF Placed, Keyed
  <1>4. /\ \A i \in 1 .. Len(st2) : st2[i].key = Cache!_key(st2[i].text) /\ Cache!is_cacheable(st2[i].text)
        /\ \A n \in 1 .. Len(us2) : Cache!is_cacheable(us2[n].key)
        /\ \A i \in 1 .. Len(st2) : \E n \in 1 .. Len(us2) : us2[n].key = st2[i].text /\ us2[n].age = st2[i].age
    <2>1. \A i \in 1 .. Len(st) : \E n \in 1 .. Len(us) : us[n].key = st[i].text /\ us[n].age = st[i].age
      BY DEF Placed
    <2> QED BY <1>1, <1>2, <2>1 DEF Placed
  <1>5. \A i, j \in 1 .. Len(st2), n, m \in 1 .. Len(us2) :
          i < j /\ us2[n].key = st2[i].text /\ us2[m].key = st2[j].text => n < m
    <2>1. \A i, j \in 1 .. Len(st), n, m \in 1 .. Len(us) :
            i < j /\ us[n].key = st[i].text /\ us[m].key = st[j].text => n < m
      BY DEF Placed
    <2> QED BY ONLY <1>1, <1>2, <2>1
  <1>6. Recent(st2, us2)
    <2> SUFFICES ASSUME NEW n \in 1 .. Len(us), n > Len(us) - MaxEntries,
                        us2[n].age <= CacheTTL[Cache!cap(us2[n].key)]
                 PROVE  \E i \in 1 .. Len(st) : st2[i].text = us2[n].key
      BY <1>1, <1>2 DEF Recent
    <2>1. us[n] \in LastUse /\ Cache!is_cacheable(us[n].key)
      BY ElementOfSeq DEF Placed
    <2>2. us[n].age \in Nat /\ CacheTTL[Cache!cap(us[n].key)] \in Nat
      BY <2>1, CacheAssumption DEF LastUse, Cache!is_cacheable
    <2>3. us2[n].age \in Nat /\ us[n].age <= us2[n].age
      BY <1>2, <2>2, CacheAssumption DEF Aged
    <2>4. us[n].age <= CacheTTL[Cache!cap(us[n].key)]
      BY <1>2, <2>2, <2>3
    <2>5. PICK i \in 1 .. Len(st) : st[i].text = us[n].key
      BY <2>4 DEF Recent
    <2> QED BY <1>1, <1>2, <2>5
  <1> QED BY ONLY <1>1, <1>2, <1>3, <1>4, <1>5, <1>6 DEF Placed

(* The cache is empty at first.                                            *)
LEMMA CacheInit == Cache!Init => CacheInv
  <1> SUFFICES ASSUME Cache!Init PROVE CacheInv
    OBVIOUS
  <1>1. store = <<>> /\ cacheUsed = <<>> /\ calls = {} /\ hit = {}
    BY DEF Cache!Init
  <1>2. Len(store) = 0 /\ Len(cacheUsed) = 0 /\ 1 .. 0 = {} /\ store \in Seq(Cached) /\ cacheUsed \in Seq(LastUse)
    BY <1>1, EmptySeq
  <1>3. Placed(store, cacheUsed) /\ Recent(store, cacheUsed)
    BY <1>2 DEF Placed, Recent, Keyed
  <1> QED BY <1>1, <1>2, <1>3, CacheAssumption DEF CacheInv, Cache!HitIsOwn

(* An answer from the cache.                                               *)
LEMMA HitOK ==
  ASSUME CacheInv, NEW r \in Cache!Signature, Cache!get_hit(r)
  PROVE  CacheInv'
  <1>1. Placed(store, cacheUsed) /\ Recent(store, cacheUsed) /\ Len(store) <= MaxEntries /\ calls \subseteq Cache!Signature
    BY DEF CacheInv
  <1>2. store \in Seq(Cached) /\ DOMAIN store = 1 .. Len(store) /\ Cache!is_cacheable(r)
    BY <1>1, LenProperties DEF Placed, Cache!get_hit
  <1>3. PICK i \in 1 .. Len(store) :
          /\ store[i].key = Cache!_key(r) /\ store[i].age <= CacheTTL[Cache!cap(r)]
          /\ store' = Cache!Touch(store, store[i])
          /\ hit' = {[req |-> r, text |-> store[i].text, age |-> store[i].age]}
          /\ cacheUsed' = Append(Cache!Without(cacheUsed, r), [key |-> r, age |-> store[i].age])
    BY <1>2 DEF Cache!get_hit, Cache!At, Cache!Use
  <1>4. store[i] \in Cached /\ store[i].key = Cache!_key(store[i].text)
    BY <1>1, <1>2, ElementOfSeq DEF Placed
  <1>5. store[i].text = r /\ store[i].age \in Nat
    BY <1>3, <1>4, KeyTells DEF Cached
  <1>6. store[i] = [key |-> Cache!_key(r), text |-> r, age |-> store[i].age]
    BY <1>3, <1>4, <1>5 DEF Cached
  <1>7. PICK st2, us2 : st2 = store' /\ us2 = cacheUsed'
    OBVIOUS
  <1>8. st2 = Append(Cache!Without(store, Cache!_key(r)), store[i])
    BY <1>3, <1>7 DEF Cache!Touch
  <1>9. /\ Placed(st2, us2) /\ Recent(st2, us2)
        /\ (\E j \in 1 .. Len(store) : store[j].key = Cache!_key(r)) => Len(st2) = Len(store)
    <2>1. PICK a \in Nat : a = store[i].age
      BY <1>5
    <2>2. st2 = StoreNow(store, r, a)
      BY <1>6, <1>8, <2>1 DEF StoreNow
    <2>3. us2 = UsesNow(cacheUsed, r, a)
      BY <1>3, <1>7, <2>1 DEF UsesNow
    <2> QED BY <1>1, <1>2, <2>2, <2>3, UsedNow
  <1>10. Len(st2) <= MaxEntries
    BY <1>1, <1>3, <1>9
  <1>11. Cache!HitIsOwn'
    BY <1>2, <1>3, <1>5 DEF Cache!HitIsOwn, Cache!is_cacheable
  <1>12. calls' = calls
    BY DEF Cache!get_hit
  <1> QED BY <1>1, <1>7, <1>9, <1>10, <1>11, <1>12 DEF CacheInv

(* A miss drops an answer that is too old.                                 *)
LEMMA MissOK ==
  ASSUME CacheInv, NEW r \in Cache!Signature, Cache!get_miss(r)
  PROVE  CacheInv'
  <1>1. Placed(store, cacheUsed) /\ Recent(store, cacheUsed) /\ Len(store) <= MaxEntries /\ calls \subseteq Cache!Signature
    BY DEF CacheInv
  <1>2. store \in Seq(Cached) /\ DOMAIN store = 1 .. Len(store) /\ Len(store) \in Nat
    BY <1>1, LenProperties DEF Placed
  <1>3. /\ Cache!is_cacheable(r) => \A i \in Cache!At(Cache!_key(r)) : store[i].age > CacheTTL[Cache!cap(r)]
        /\ store' = IF Cache!is_cacheable(r) THEN Cache!Without(store, Cache!_key(r)) ELSE store
        /\ calls' = calls \cup {r} /\ hit' = {} /\ cacheUsed' = cacheUsed
    BY DEF Cache!get_miss
  <1>4. PICK w : w = store'
    OBVIOUS
  <1>5. Placed(w, cacheUsed) /\ Recent(w, cacheUsed) /\ Len(w) <= Len(store)
    <2>1. CASE Cache!is_cacheable(r)
      <3>1. \A i \in 1 .. Len(store) : store[i].key = Cache!_key(r) => store[i].age > CacheTTL[Cache!cap(r)]
        BY <1>2, <1>3, <2>1 DEF Cache!At
      <3> QED BY <1>1, <1>3, <1>4, <2>1, <3>1, ExpiredOK
    <2>2. CASE ~Cache!is_cacheable(r)
      BY <1>1, <1>2, <1>3, <1>4, <2>2
    <2> QED BY <2>1, <2>2
  <1>6. Len(w) <= MaxEntries
    <2>1. w \in Seq(Cached) /\ Len(w) \in Nat
      BY <1>5, LenProperties DEF Placed
    <2> QED BY <1>1, <1>2, <1>5, <2>1, CacheAssumption
  <1> QED BY <1>1, <1>3, <1>4, <1>5, <1>6 DEF CacheInv, Cache!HitIsOwn

(* A provider's answer is stored.                                          *)
LEMMA PutAnswerOK ==
  ASSUME CacheInv, NEW r \in Cache!Signature, Cache!put(r)
  PROVE  CacheInv'
  <1>1. Placed(store, cacheUsed) /\ Recent(store, cacheUsed) /\ Len(store) <= MaxEntries /\ calls \subseteq Cache!Signature
    BY DEF CacheInv
  <1>2. Len(store) \in Nat /\ MaxEntries \in Nat
    BY <1>1, LenProperties, CacheAssumption DEF Placed
  <1>3. calls' = calls \ {r} /\ hit' = {}
    BY DEF Cache!put
  <1>4. CASE ~Cache!is_cacheable(r)
    <2>1. store' = store /\ cacheUsed' = cacheUsed
      BY <1>4 DEF Cache!put
    <2> QED BY <1>1, <1>3, <2>1 DEF CacheInv, Cache!HitIsOwn
  <1>5. CASE Cache!is_cacheable(r)
    <2>1. PICK st2 : st2 = StoreNow(store, r, 0)
      OBVIOUS
    <2>2. PICK us2 : us2 = UsesNow(cacheUsed, r, 0)
      OBVIOUS
    <2>3. store' = Cache!Evicted(st2) /\ cacheUsed' = us2
      BY <1>5, <2>1, <2>2 DEF Cache!put, Cache!Use, StoreNow, UsesNow
    <2>4. Placed(st2, us2) /\ Recent(st2, us2) /\ Len(st2) <= Len(store) + 1
      BY <1>1, <1>5, <2>1, <2>2, UsedNow
    <2>5. Len(st2) <= MaxEntries + 1
      <3>1. st2 \in Seq(Cached) /\ Len(st2) \in Nat
        BY <2>4, LenProperties DEF Placed
      <3> QED BY <1>1, <1>2, <2>4, <3>1
    <2>6. Placed(store', us2) /\ Recent(store', us2) /\ Len(store') <= MaxEntries
      BY <2>3, <2>4, <2>5, EvictedOK
    <2> QED BY <1>1, <1>3, <2>3, <2>6 DEF CacheInv, Cache!HitIsOwn
  <1> QED BY <1>4, <1>5

(* Every step keeps the invariant.                                         *)
LEMMA CacheStep ==
  ASSUME CacheInv, [Cache!Next]_(Cache!vars)
  PROVE  CacheInv'
  <1>1. ASSUME NEW r \in Cache!Signature, Cache!Fail(r) PROVE CacheInv'
    BY <1>1 DEF Cache!Fail, CacheInv, Cache!HitIsOwn
  <1>2. CASE Cache!Tick
    <2>1. PICK st2, us2 : st2 = store' /\ us2 = cacheUsed'
      OBVIOUS
    <2>2. st2 = Cache!Older(store) /\ us2 = Cache!Older(cacheUsed) /\ hit' = {} /\ calls' = calls
      BY <1>2, <2>1 DEF Cache!Tick
    <2>3. Placed(st2, us2) /\ Recent(st2, us2) /\ Len(st2) = Len(store)
      BY <2>2, AgedOK DEF CacheInv
    <2> QED BY <2>1, <2>2, <2>3 DEF CacheInv, Cache!HitIsOwn
  <1>3. CASE UNCHANGED Cache!vars
    BY <1>3 DEF Cache!vars, CacheInv, Cache!HitIsOwn
  <1> QED BY <1>1, <1>2, <1>3, HitOK, MissOK, PutAnswerOK DEF Cache!Next

(* The properties follow.                                                  *)
LEMMA CacheKept == CacheInv => Cache!HitIsOwn /\ Cache!RecentKept
  <1> SUFFICES ASSUME CacheInv PROVE Cache!RecentKept
    BY DEF CacheInv
  <1>1. Placed(store, cacheUsed) /\ Recent(store, cacheUsed) /\ Len(store) <= MaxEntries
    BY DEF CacheInv
  <1>2. DOMAIN store = 1 .. Len(store) /\ DOMAIN cacheUsed = 1 .. Len(cacheUsed)
    BY <1>1, LenProperties DEF Placed
  <1>3. ASSUME NEW n \in 1 .. Len(cacheUsed), n > Len(cacheUsed) - MaxEntries,
               cacheUsed[n].age <= CacheTTL[Cache!cap(cacheUsed[n].key)]
        PROVE  Cache!At(Cache!_key(cacheUsed[n].key)) # {}
    <2>1. PICK i \in 1 .. Len(store) : store[i].text = cacheUsed[n].key
      BY <1>1, <1>3 DEF Recent
    <2>2. store[i].key = Cache!_key(cacheUsed[n].key)
      BY <1>1, <2>1 DEF Placed
    <2> QED BY <1>2, <2>2 DEF Cache!At
  <1> QED BY <1>1, <1>2, <1>3 DEF Cache!RecentKept

(* Both invariants are kept along every behaviour.                         *)
LEMMA MemoryAlong ==
  /\ InitAll => (which = "cache" => CacheInv) /\ (which = "routing" => RoutingInv)
  /\ (which = "cache" => CacheInv) /\ (which = "routing" => RoutingInv) /\ [NextAll]_allVars
       => /\ (which = "cache" => CacheInv)' /\ (which = "routing" => RoutingInv)'
          /\ [which = "routing" => Routing!OnePaid]_routingVars
  <1>1. InitAll => (which = "cache" => CacheInv) /\ (which = "routing" => RoutingInv)
    BY CacheInit, RoutingInit DEF InitAll
  <1>2. ASSUME which = "cache" => CacheInv, which = "routing" => RoutingInv, [NextAll]_allVars
        PROVE  /\ (which = "cache" => CacheInv)' /\ (which = "routing" => RoutingInv)'
               /\ [which = "routing" => Routing!OnePaid]_routingVars
    <2>1. which' = which
      BY <1>2 DEF NextAll, Submission, Administration, Caching, Remembering, allVars
    <2>2. which = "cache" => [Cache!Next]_(Cache!vars)
      BY <1>2 DEF NextAll, Submission, Administration, Caching, Remembering, allVars, cacheVars, Cache!vars
    <2>3. which = "routing" => [Routing!Next]_(Routing!vars)
      BY <1>2 DEF NextAll, Submission, Administration, Caching, Remembering, allVars, routingVars, Routing!vars
    <2>4. (which = "cache" => CacheInv)'
      BY <1>2, <2>1, <2>2, CacheStep
    <2>5. (which = "routing" => RoutingInv)'
      BY <1>2, <2>1, <2>3, RoutingStep
    <2>6. [which = "routing" => Routing!OnePaid]_routingVars
      <3> SUFFICES ASSUME which = "routing", ~UNCHANGED routingVars PROVE Routing!OnePaid
        OBVIOUS
      <3>1. Routing!Next
        BY <2>3 DEF routingVars, Routing!vars
      <3> QED BY <1>2, <3>1, PaidOnce
    <2> QED BY <2>4, <2>5, <2>6
  <1> QED BY <1>1, <1>2

(* What a worker remembers is still true when it is used: a cached answer  *)
(* was given to this request and is young, the requests used last are      *)
(* still cached (response_cache.get, put), a pin is no older than its time *)
(* to live and one write, a verdict than two and one write (affinity.py,   *)
(* selector.py, shared_state.py), and a process that met a failure of the  *)
(* store does not begin another call before the retry window is over.      *)
THEOREM MemoryIsTrue == SpecAll => MemoryTrue
  <1>1. (which = "cache" => CacheInv) /\ (which = "routing" => RoutingInv)
          => HitIsOwn /\ RecentKept /\ PinFresh /\ VerdictAge
    <2>1. RoutingInv => Routing!PinFresh /\ Routing!VerdictAge
      BY DEF RoutingInv, CallOK, Fresh, Routing!PinFresh, Routing!VerdictAge
    <2> QED BY <2>1, CacheKept DEF HitIsOwn, RecentKept, PinFresh, VerdictAge
  <1> QED
    BY <1>1, MemoryAlong, PTL DEF SpecAll, MemoryTrue, OutagePaidOnce
=============================================================================
