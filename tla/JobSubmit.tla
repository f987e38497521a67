------------------------------ MODULE JobSubmit ------------------------------
(***************************************************************************)
(* Submitting work: POST /v1/jobs for a provider model ("plain") and for a *)
(* subscription model ("sub"), POST /v1/agent/runs ("agent") and the       *)
(* synchronous calls ("sync"), over deep_jobs, agent_runs and the lifetime *)
(* request cap of one project (routes/proxy.py, routes/agent.py,           *)
(* services/deep_jobs.py, services/request_cap.py, agent/runs.py).         *)
(*                                                                         *)
(* One action is one database session or a run of checks without one; two  *)
(* requests interleave between them. A hash is kept as the tuple of what   *)
(* is hashed. A row keeps its place in `jobs' after the retention sweep    *)
(* deleted it.                                                             *)
(***************************************************************************)
EXTENDS Integers, Sequences, FiniteSets

CONSTANTS
  Request,    \* calls of clients, each made once
  Lane,       \* the entry points in use
  Payload,
  Key,        \* values of Idempotency-Key and of idempotency_key
  Account,    \* logins the broker may pick for a subscription job
  Cap,        \* values of total_request_cap
  None, NoCap \* no key, payload or account; no cap

ASSUME SubmitAssumption ==
  /\ IsFiniteSet(Request) /\ Lane \subseteq {"plain", "sub", "agent", "sync"} /\ Lane # {}
  /\ None \notin Key \cup Payload \cup Account /\ NoCap \notin Cap /\ Cap \subseteq Nat

VARIABLES
  jobs,      \* the rows ever inserted, by id
  req,       \* what each request is doing
  cap, used, \* total_request_cap, total_requests_used
  enabled    \* the settings that open the subscription route

vars == <<jobs, req, cap, used, enabled>>

JobsApi == {"plain", "sub"}

Phase == {"idle", "known", "admit", "recheck", "find", "dup", "insert", "race", "replay", "done"}
Answer == {"none", "created", "dedup", "replay", "conflict", "refused", "capped", "gone",
           "failed", "ran"}

Ids == 0 .. Cardinality(Request)

Hash == (Lane \X Payload) \cup ({"run"} \X Payload \X Account)

ReqState ==
  [phase : Phase, lane : Lane, payload : Payload \cup {None}, key : Key \cup {None},
   acct : Account \cup {None}, capped : BOOLEAN, spent : Nat, base : Ids, since : Ids,
   paid : BOOLEAN, free : BOOLEAN, ans : Answer, job : Ids]

Row ==
  [lane : Lane, payload : Payload, hash : Hash, jkey : Key \cup {None},
   akey : Key \cup {None}, live : BOOLEAN, fresh : BOOLEAN, here : BOOLEAN,
   since : Ids, by : Request]

TypeOK ==
  /\ jobs \in Seq(Row) /\ Len(jobs) <= Cardinality(Request)
  /\ req \in [Request -> ReqState]
  /\ cap \in Cap \cup {NoCap} /\ used \in 0 .. Cardinality(Request)
  /\ enabled \in BOOLEAN

Idle == [phase |-> "idle", lane |-> CHOOSE l \in Lane : TRUE,
         payload |-> None, key |-> None, acct |-> None, capped |-> FALSE, spent |-> 0,
         base |-> 0, since |-> 0, paid |-> FALSE, free |-> FALSE, ans |-> "none", job |-> 0]

Init ==
  /\ jobs = <<>>
  /\ req = [r \in Request |-> Idle]
  /\ cap \in Cap \cup {NoCap} /\ used = 0
  /\ enabled = TRUE

-----------------------------------------------------------------------------
(* What the sessions read                                                  *)

(* payload_hash: the account the broker picked is hashed with a            *)
(* subscription job unless an Idempotency-Key makes the client's own       *)
(* payload the hashed one.                                                 *)
PayloadHash(q) ==
  IF q.lane = "sub" /\ q.key = None THEN <<"run", q.payload, q.acct>> ELSE <<q.lane, q.payload>>

Rows == {j \in DOMAIN jobs : jobs[j].here}

(* find_by_idempotency_key, _find_by_idempotency: at most one row, the     *)
(* keys are unique in the table.                                           *)
KeyRows(q) ==
  {j \in Rows : q.key # None /\ q.key = (IF q.lane = "agent" THEN jobs[j].akey ELSE jobs[j].jkey)}

InFlightRows_ended(q) ==
  {j \in Rows : ~ jobs[j].live /\ jobs[j].fresh /\ jobs[j].hash = PayloadHash(q)}

(* _find_inflight_duplicate, _find_inflight: pending or running, inside    *)
(* the window; keyed rows count too.                                       *)
InFlightRows(q) ==
  {j \in Rows : jobs[j].live /\ jobs[j].fresh /\ jobs[j].hash = PayloadHash(q)}

Newest(S) == CHOOSE j \in S : \A i \in S : i <= j

Set(r, q) == req' = [req EXCEPT ![r] = q]

(* The handler returns: what it had read is forgotten.                     *)
Done(q, answer, job) ==
  [q EXCEPT !.phase = "done", !.ans = answer, !.job = job, !.capped = FALSE, !.spent = 0,
            !.acct = None, !.since = 0, !.base = IF answer = "refused" THEN @ ELSE 0]
Goto(q, phase) == [q EXCEPT !.phase = phase]

(* replayed_job_id: the job of this key, a conflict, or `otherwise'.       *)
Replayed(q, otherwise) ==
  IF KeyRows(q) = {} THEN otherwise
  ELSE LET j == Newest(KeyRows(q)) IN
       IF jobs[j].hash = PayloadHash(q) THEN [Goto(q, "replay") EXCEPT !.job = j]
       ELSE Done(q, "conflict", j)

-----------------------------------------------------------------------------
(* The steps of a request                                                  *)

(* require_project reads the project's row once; the handler keeps it.     *)
Begin(r) ==
  /\ req[r].phase = "idle"
  /\ \E l \in Lane, p \in Payload, k \in Key \cup {None} :
       /\ l = "sync" => k = None
       /\ Set(r, [Idle EXCEPT !.lane = l, !.payload = p, !.key = k, !.base = Len(jobs),
                              !.capped = cap # NoCap, !.spent = used,
                              !.phase = CASE l \in JobsApi -> "known"
                                          [] l = "agent"   -> "find"
                                          [] l = "sync"    -> "admit"])
  /\ UNCHANGED <<jobs, cap, used, enabled>>

Known_checksFirst(r) ==
  /\ req[r].phase = "known"
  /\ LET q == req[r] IN
     \/ q.lane = "sub" /\ ~ enabled /\ Set(r, Done(q, "refused", 0))
     \/ q.lane = "sub" /\ enabled /\ \E a \in Account :
          Set(r, Replayed([q EXCEPT !.acct = a], Goto([q EXCEPT !.acct = a], "admit")))
     \/ q.lane = "plain" /\ Set(r, Replayed(q, Goto(q, "admit")))
  /\ UNCHANGED <<jobs, cap, used, enabled>>

(* known_job_id comes before the checks of a subscription job, which read  *)
(* settings that may have changed since the key was first used, and before *)
(* the choice of an account.                                               *)
Known(r) ==
  /\ req[r].phase = "known"
  /\ LET q == req[r] IN
     \/ q.lane = "sub" /\ (KeyRows(q) # {} \/ ~ enabled)
        /\ Set(r, Replayed(q, Done(q, "refused", 0)))
     \/ q.lane = "sub" /\ KeyRows(q) = {} /\ enabled
        /\ \E a \in Account : Set(r, Goto([q EXCEPT !.acct = a], "admit"))
     \/ q.lane = "plain" /\ Set(r, Replayed(q, Goto(q, "admit")))
  /\ UNCHANGED <<jobs, cap, used, enabled>>

Admitted(r0) ==
  LET q == [r0 EXCEPT !.capped = FALSE, !.spent = 0, !.base = 0] IN
  CASE q.lane \in JobsApi -> Goto(q, "find")
    [] q.lane = "sync"    -> Done(q, "ran", 0)
    [] q.lane = "agent"   -> Done(q, "created", q.job)

Below(n) == IF cap = NoCap THEN TRUE ELSE n < cap

Admit_stale(r) ==
  /\ req[r].phase = "admit"
  /\ LET q == req[r] IN
     \/ ~ q.capped /\ Set(r, Admitted([q EXCEPT !.free = TRUE])) /\ UNCHANGED used
     \/ /\ q.capped /\ Below(q.spent)
        /\ used' = q.spent + 1 /\ Set(r, Admitted([q EXCEPT !.paid = TRUE]))
     \/ q.capped /\ ~ Below(q.spent) /\ Set(r, Goto(q, "recheck")) /\ UNCHANGED used
  /\ UNCHANGED <<jobs, cap, enabled>>

Admit_perAttempt(r) ==
  /\ req[r].phase = "admit"
  /\ LET q == req[r] IN
     \/ ~ q.capped /\ Set(r, Admitted([q EXCEPT !.free = TRUE])) /\ UNCHANGED used
     \/ /\ q.capped /\ Below(used)
        /\ used' = used + 2 /\ Set(r, Admitted([q EXCEPT !.paid = TRUE]))
     \/ q.capped /\ ~ Below(used) /\ Set(r, Goto(q, "recheck")) /\ UNCHANGED used
  /\ UNCHANGED <<jobs, cap, enabled>>

(* admit_request: whether there is a cap comes from the row read at        *)
(* authentication, whether it is reached from the live row.                *)
Admit(r) ==
  /\ req[r].phase = "admit"
  /\ LET q == req[r] IN
     \/ ~ q.capped /\ Set(r, Admitted([q EXCEPT !.free = TRUE])) /\ UNCHANGED used
     \/ /\ q.capped /\ Below(used)
        /\ used' = used + 1 /\ Set(r, Admitted([q EXCEPT !.paid = TRUE]))
     \/ q.capped /\ ~ Below(used) /\ Set(r, Goto(q, "recheck")) /\ UNCHANGED used
  /\ UNCHANGED <<jobs, cap, enabled>>

(* The second statement of admit_request: the cap may have been lifted     *)
(* since the update matched nothing.                                       *)
Recheck(r) ==
  /\ req[r].phase = "recheck"
  /\ Set(r, IF cap = NoCap THEN Admitted([req[r] EXCEPT !.free = TRUE])
            ELSE Done(req[r], "capped", req[r].job))
  /\ UNCHANGED <<jobs, cap, used, enabled>>

Insertable(q) == [q EXCEPT !.phase = "insert", !.since = Len(jobs)]

OrDuplicate(q) ==
  IF InFlightRows(q) = {} THEN Insertable(q) ELSE Done(q, "dedup", Newest(InFlightRows(q)))

(* The lookup before the insert, in submit_job_ex and create_run: a key    *)
(* turns the in-flight duplicates off on /v1/jobs, not on /v1/agent/runs.  *)
Find(r) ==
  /\ req[r].phase = "find"
  /\ LET q == req[r] IN
     CASE q.lane = "agent" ->
            Set(r, IF KeyRows(q) = {} THEN Goto(q, "dup")
                   ELSE LET j == Newest(KeyRows(q)) IN
                        IF jobs[j].hash = PayloadHash(q) THEN Done(q, "dedup", j)
                        ELSE Done(q, "conflict", j))
       [] q.lane \in JobsApi /\ q.key # None -> Set(r, Replayed(q, Insertable(q)))
       [] OTHER -> Set(r, OrDuplicate(q))
  /\ UNCHANGED <<jobs, cap, used, enabled>>

(* The second lookup of create_run for an agent run.                       *)
Duplicate(r) ==
  /\ req[r].phase = "dup"
  /\ Set(r, OrDuplicate(req[r]))
  /\ UNCHANGED <<jobs, cap, used, enabled>>

NewRow(q, r) ==
  [lane |-> q.lane, payload |-> q.payload, hash |-> PayloadHash(q),
   jkey |-> IF q.lane = "agent" THEN None ELSE q.key,
   akey |-> IF q.lane = "agent" THEN q.key ELSE None,
   live |-> TRUE, fresh |-> TRUE, here |-> TRUE, since |-> q.since, by |-> r]

(* An agent run is charged after its row is committed.                     *)
Created(q, j) ==
  IF q.lane = "agent" THEN [Goto(q, "admit") EXCEPT !.job = j] ELSE Done(q, "created", j)

Insert_noIndex(r) ==
  /\ req[r].phase = "insert"
  /\ jobs' = Append(jobs, NewRow(req[r], r))
  /\ Set(r, Created(req[r], Len(jobs) + 1))
  /\ UNCHANGED <<cap, used, enabled>>

(* The insert; the unique index on the key may refuse it.                  *)
Insert(r) ==
  /\ req[r].phase = "insert"
  /\ LET q == req[r] IN
     \/ KeyRows(q) # {} /\ Set(r, Goto(q, "race")) /\ UNCHANGED jobs
     \/ /\ KeyRows(q) = {}
        /\ jobs' = Append(jobs, NewRow(q, r))
        /\ Set(r, Created(q, Len(jobs) + 1))
  /\ UNCHANGED <<cap, used, enabled>>

Race_unchecked(r) ==
  /\ req[r].phase = "race"
  /\ LET q == req[r] IN
     Set(r, IF KeyRows(q) = {} THEN Done(q, "failed", 0)
            ELSE Done(q, "replay", Newest(KeyRows(q))))
  /\ UNCHANGED <<jobs, cap, used, enabled>>

(* except IntegrityError: the winner's row is the answer. /v1/jobs looks   *)
(* at its payload, create_run for /v1/agent/runs does not. A winner that   *)
(* is gone lets the error through.                                         *)
Race(r) ==
  /\ req[r].phase = "race"
  /\ LET q == req[r] IN
     Set(r, IF KeyRows(q) = {} THEN Done(q, "failed", 0)
            ELSE IF q.lane = "agent" THEN Done(q, "dedup", Newest(KeyRows(q)))
            ELSE Replayed(q, q))
  /\ UNCHANGED <<jobs, cap, used, enabled>>

(* _replay reads the job again for its poll body.                          *)
Replay(r) ==
  /\ req[r].phase = "replay"
  /\ Set(r, Done(req[r], IF req[r].job \in Rows THEN "replay" ELSE "gone", req[r].job))
  /\ UNCHANGED <<jobs, cap, used, enabled>>

-----------------------------------------------------------------------------
(* The rest of the system, as far as a submission sees it                  *)

(* A job ends: done, error or cancelled.                                   *)
End(j) ==
  /\ jobs[j].live
  /\ jobs' = [jobs EXCEPT ![j].live = FALSE]
  /\ UNCHANGED <<req, cap, used, enabled>>

(* _DEDUP_WINDOW_S passes.                                                 *)
Age(j) ==
  /\ jobs[j].fresh
  /\ jobs' = [jobs EXCEPT ![j].fresh = FALSE]
  /\ UNCHANGED <<req, cap, used, enabled>>

(* The retention sweep: a key lives as long as its row.                    *)
Purge(j) ==
  /\ jobs[j].here /\ ~ jobs[j].live /\ ~ jobs[j].fresh
  /\ jobs' = [jobs EXCEPT ![j].here = FALSE]
  /\ UNCHANGED <<req, cap, used, enabled>>

(* The owner edits the project's cap.                                      *)
SetCap ==
  /\ cap' \in (Cap \cup {NoCap}) \ {cap}
  /\ UNCHANGED <<jobs, req, used, enabled>>

(* A deployment with other settings.                                       *)
Configure ==
  /\ enabled' = ~ enabled
  /\ UNCHANGED <<jobs, req, cap, used>>

Step(r) ==
  \/ Begin(r) \/ Known(r) \/ Admit(r) \/ Recheck(r) \/ Find(r) \/ Duplicate(r)
  \/ Insert(r) \/ Race(r) \/ Replay(r)

Next ==
  \/ \E r \in Request : Step(r)
  \/ \E j \in DOMAIN jobs : End(j) \/ Age(j) \/ Purge(j)
  \/ SetCap \/ Configure

Spec == Init /\ [][Next]_vars

-----------------------------------------------------------------------------
(* Properties                                                              *)

HasJob(r) == req[r].phase = "done" /\ req[r].ans \in {"created", "dedup", "replay"}
OwnPayload(lanes) ==
  \A r \in Request : HasJob(r) /\ req[r].lane \in lanes =>
    /\ jobs[req[r].job].lane = req[r].lane
    /\ jobs[req[r].job].payload = req[r].payload

(* A caller of /v1/jobs is only ever given a job of its own entry point    *)
(* and its own payload, whatever other requests insert or the retention    *)
(* deletes between its lookups and its insert (submit_job_ex, create_run). *)
AnsweredWithOwnJob == OwnPayload(JobsApi)

(* An Idempotency-Key makes a submit safe to retry: two requests with one  *)
(* key and one payload that both got a job got the same one, unless the    *)
(* earlier row has been deleted by the retention sweep.                    *)
SameKeySameJob ==
  \A r, s \in Request :
    /\ HasJob(r) /\ HasJob(s) /\ req[r].lane \in JobsApi
    /\ req[r].key # None /\ req[r].key = req[s].key
    /\ req[r].lane = req[s].lane /\ req[r].payload = req[s].payload
    /\ req[r].job < req[s].job
    => ~ jobs[req[r].job].here

(* A serial resubmission collapses onto the job in flight: of two rows     *)
(* with one hash, both in flight and in the window, the later one's        *)
(* request had looked before the earlier one was committed.                *)
SerialResubmitsCollapse ==
  \A i, j \in Rows :
    /\ i < j /\ jobs[i].hash = jobs[j].hash
    /\ jobs[i].live /\ jobs[i].fresh /\ jobs[j].jkey = None
    => i > jobs[j].since

(* The lifetime counter is the number of requests charged, none of them    *)
(* twice and none lost to a concurrent one; and work is started through    *)
(* /v1/jobs or a synchronous call only by a request that was charged or    *)
(* met a project without a cap (admit_request).                            *)
CapAccounts ==
  /\ used = Cardinality({r \in Request : req[r].paid})
  /\ \A r \in Request : req[r].ans = "ran" => req[r].paid # req[r].free
  /\ \A j \in DOMAIN jobs : jobs[j].lane \in JobsApi => req[jobs[j].by].paid # req[jobs[j].by].free

(* A retry of a key already used with its payload is not turned away by    *)
(* settings that changed since (the order of known_job_id and the checks   *)
(* in jobs_submit).                                                        *)
RetryIsNotRefused ==
  \A r \in Request : req[r].ans = "refused" /\ req[r].key # None =>
    ~ \E j \in 1 .. req[r].base :
        jobs[j].here /\ jobs[j].jkey = req[r].key /\ jobs[j].hash = PayloadHash(req[r])

(* What a submission promises its caller and its project: the parts above. *)
SubmitSound ==
  /\ AnsweredWithOwnJob /\ SameKeySameJob /\ SerialResubmitsCollapse
  /\ CapAccounts /\ RetryIsNotRefused
=============================================================================
