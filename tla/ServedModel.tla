----------------------------- MODULE ServedModel -----------------------------
(***************************************************************************)
(* Which model a subscription run says served it (agent/runs.py): every    *)
(* model.observed event of every attempt is folded into a short list on    *)
(* the job's row, and the answer is worked out from that list, while the   *)
(* run goes on (the poll) and again when it ends.                          *)
(***************************************************************************)
EXTENDS Integers, Sequences

CONSTANTS
  Model,
  Cap,       \* _MAX_MODEL_OBSERVATIONS
  MaxSeen    \* bound: model.observed events of the run

VARIABLES
  meta,   \* result_meta: model_observations and observations_truncated
  seen,   \* every observation of the run, in order
  over    \* the run has ended and its evidence is written

vars == <<meta, seen, over>>

None == "none"
_EVIDENCE_RANK == [response |-> 3, thread_config |-> 2, session_init |-> 1]
Observation == [model: Model, kind: DOMAIN _EVIDENCE_RANK]
Rank(o) == _EVIDENCE_RANK[o.kind]
Elements(s) == {s[i]: i \in DOMAIN s}

Init == meta = [items |-> <<>>, truncated |-> FALSE] /\ seen = <<>> /\ over = FALSE

\* The first of the weakest entries.
Weakest(items) ==
  CHOOSE i \in DOMAIN items:
    \A j \in DOMAIN items: Rank(items[i]) < Rank(items[j]) \/ (Rank(items[i]) = Rank(items[j]) /\ i <= j)

\* One observation folded in: kept once; into a full list only over a weaker entry.
_fold_observation_dropsNew(m, o) ==
  IF o \in Elements(m.items) THEN m
  ELSE IF Len(m.items) < Cap THEN [m EXCEPT !.items = Append(@, o)]
  ELSE [m EXCEPT !.truncated = TRUE]

_fold_observation_unmarked(m, o) ==
  IF o \in Elements(m.items) THEN m
  ELSE IF Len(m.items) < Cap THEN [m EXCEPT !.items = Append(@, o)]
  ELSE IF Rank(o) > Rank(m.items[Weakest(m.items)])
  THEN [m EXCEPT !.items = [@ EXCEPT ![Weakest(m.items)] = o]]
  ELSE [m EXCEPT !.truncated = TRUE]

_fold_observation(m, o) ==
  IF o \in Elements(m.items) THEN m
  ELSE IF Len(m.items) < Cap THEN [m EXCEPT !.items = Append(@, o)]
  ELSE IF Rank(o) > Rank(m.items[Weakest(m.items)])
  THEN [items |-> [m.items EXCEPT ![Weakest(m.items)] = o], truncated |-> TRUE]
  ELSE [m EXCEPT !.truncated = TRUE]

\* The first of the strongest entries of a list that is not empty.
Strongest(items) ==
  items[CHOOSE i \in DOMAIN items:
    \A j \in DOMAIN items: Rank(items[i]) > Rank(items[j]) \/ (Rank(items[i]) = Rank(items[j]) /\ i <= j)]

Responses(items) == {o.model: o \in {p \in Elements(items): p.kind = "response"}}

\* Several models answered and some observation was dropped.
Ambiguous_never(m) == FALSE
Ambiguous(m) == m.truncated /\ \E a, b \in Responses(m.items): a # b

\* What a caller is told: model_served only on the evidence of a response.
served_model_meta(m) ==
  IF m.items = <<>> THEN [served |-> None, best |-> None, kind |-> "unknown"]
  ELSE LET best == Strongest(m.items)
           strict == best.kind = "response" /\ ~Ambiguous(m)
       IN [served |-> IF strict THEN best.model ELSE None, best |-> best.model, kind |-> best.kind]

-----------------------------------------------------------------------------
\* append_event of a model.observed; a requeue or a quota wait keeps the list.
Observe ==
  /\ ~over /\ Len(seen) < MaxSeen
  /\ \E o \in Observation:
       meta' = _fold_observation(meta, o) /\ seen' = Append(seen, o)
  /\ UNCHANGED over

\* append_event of a terminal event: the evidence replaces the rest of result_meta.
Finish == ~over /\ over' = TRUE /\ UNCHANGED <<meta, seen>>

Next == Observe \/ Finish

Spec == Init /\ [][Next]_vars
-----------------------------------------------------------------------------
\* o is the first response among the observations s.
FirstResponse(s, o) ==
  \E i \in DOMAIN s:
    s[i] = o /\ o.kind = "response" /\ \A j \in DOMAIN s: j < i => s[j].kind # "response"

\* A run that names the model that served it names the first one any of its
\* responses came from, although the list is capped and entries are replaced:
\* where the cap may have hidden something it names none.
ServedIsFirstResponse ==
  LET served == served_model_meta(meta).served
  IN served # None => FirstResponse(seen, [model |-> served, kind |-> "response"])

\* The cap never costs the strongest evidence: the kind that is reported is the
\* best kind that was seen.
BestKindKept ==
  seen # <<>> => _EVIDENCE_RANK[served_model_meta(meta).kind] = Rank(Strongest(seen))

\* A list that is said to be complete holds every observation of the run.
CompleteIsWhole == ~meta.truncated => Elements(meta.items) = Elements(seen)
=============================================================================
