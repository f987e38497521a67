---------------------------- MODULE AgentAccess ----------------------------
(***************************************************************************)
(* Who may run agents (agent/project_access.py, agent/policy.py,            *)
(* agent/constants.py).  The dashboard writes a project's access to its row; *)
(* every process decides on a snapshot it refreshes in a loop.  A refresh    *)
(* reads the table and publishes what it read later, so the loop's refresh   *)
(* and one made by a save or by the executor overlap in one process.  One    *)
(* project and one run of it are followed; the api process admits the run,   *)
(* the worker starts it.                                                     *)
(***************************************************************************)
EXTENDS Integers, Sequences

CONSTANTS
  Account,      \* account labels
  Owner,        \* the label taken when none is picked
  NoAccounts,   \* the stored marker of an empty account-only selection
  MaxSaves,     \* bound: saves on the dashboard
  MaxFaults     \* bound: refreshes that fail, restarts

VARIABLES
  env,       \* AGENT_ALLOWED_PROJECT_IDS and AGENT_PROJECT_POLICY, fixed at deployment
  table,     \* the versions of the row so far, the last one is stored now
  form,      \* per browser: a save in progress
  holder,    \* the browser whose transaction has the row locked, or None
  snap,      \* per process: the version its snapshot holds, 0 before the first load
  born,      \* per process: the version that was stored when it started
  refresh,   \* per process and caller: the version a refresh has read, or 0
  run,       \* the followed run
  faults

vars == <<env, table, form, holder, snap, born, refresh, run, faults>>

None == "none"
Proc == {"api", "worker"}
Browser == {"x", "y"}
Caller == {"loop", "own"}
Marker == "@accounts-v1"
MODEL == "model"

Untouched == [enabled |-> FALSE, models |-> {}, accounts |-> {}]
\* One form of each kind the page can send.
Form == [enabled: {TRUE}, models: {{MODEL}}, accounts: {Account}]
          \cup [enabled: {TRUE}, models: {{Marker}}, accounts: {{}, Account}]
          \cup [enabled: {FALSE}, models: {{Marker}}, accounts: {Account}]
NoForm == [pc |-> "idle", value |-> Untouched]
NotAsked == [pc |-> "none", account |-> Owner, from |-> 0, blind |-> FALSE]
Set(r) == run' = r

Init ==
  /\ \E on \in BOOLEAN: env = [allowed |-> on, models |-> IF on THEN {MODEL} ELSE {},
                              accounts |-> IF on THEN {Owner} ELSE {}]
  /\ table = <<Untouched>>
  /\ form = [b \in Browser |-> NoForm]
  /\ holder = None
  /\ snap = [p \in Proc |-> 0]
  /\ born = [p \in Proc |-> 1]
  /\ refresh = [p \in Proc |-> [c \in Caller |-> 0]]
  /\ run = NotAsked
  /\ faults = 0

-----------------------------------------------------------------------------
(* The checks: pure, on an access record or on no snapshot at all           *)

account_only(a) == a.models = {Marker}
has_policy(a) == a.models # {} /\ a.accounts # {}

\* v is the version a process's snapshot holds, 0 before the first load.
snapshot_loaded_always(v) == TRUE
snapshot_loaded(v) == v # 0

access_for(v) == IF v = 0 THEN Untouched ELSE table[v]

project_allowed(v) ==
  /\ snapshot_loaded(v)
  /\ IF account_only(access_for(v)) THEN access_for(v).enabled
     ELSE env.allowed \/ access_for(v).enabled

NoPolicy == [models |-> {}, accounts |-> {}]

policy_of(a) ==
  IF account_only(a) THEN [models |-> {MODEL}, accounts |-> a.accounts \ {NoAccounts}]
  ELSE IF has_policy(a) THEN [models |-> a.models, accounts |-> a.accounts]
  ELSE IF env.models # {} /\ env.accounts # {}
  THEN [models |-> env.models, accounts |-> env.accounts]
  ELSE NoPolicy

policy_for(v) == IF snapshot_loaded(v) THEN policy_of(access_for(v)) ELSE NoPolicy

policy_violation(v, account) ==
  MODEL \notin policy_for(v).models \/ account \notin policy_for(v).accounts

_access_problem(v, r) == ~project_allowed(v) \/ policy_violation(v, r.account)

-----------------------------------------------------------------------------
(* The dashboard's save, in the api process                                 *)

Stored(a) == IF account_only(a) /\ a.accounts = {} THEN [a EXCEPT !.accounts = {NoAccounts}] ELSE a

Erases(a) == account_only(table[Len(table)]) /\ ~account_only(a)

\* SELECT ... FOR UPDATE; a stale legacy form is refused and changes nothing.
Lock_notTaken(b) ==
  /\ b = "y" => form["x"].pc # "idle"
  /\ form[b].pc = "idle" /\ Len(table) <= MaxSaves
  /\ \E a \in Form: ~Erases(a) /\ form' = [form EXCEPT ![b] = [pc |-> "write", value |-> a]]
  /\ UNCHANGED <<env, table, holder, snap, born, refresh, run, faults>>
Lock(b) ==
  /\ b = "y" => form["x"].pc # "idle"        \* the browsers are alike
  /\ form[b].pc = "idle" /\ Len(table) <= MaxSaves /\ holder = None
  /\ \E a \in Form: ~Erases(a) /\ form' = [form EXCEPT ![b] = [pc |-> "write", value |-> a]]
  /\ holder' = b
  /\ UNCHANGED <<env, table, snap, born, refresh, run, faults>>

\* The commit; the save then refreshes its own process.
Write(b) ==
  /\ form[b].pc = "write"
  /\ table' = Append(table, Stored(form[b].value))
  /\ holder' = None
  /\ form' = [form EXCEPT ![b] = [pc |-> "refresh", value |-> Untouched]]
  /\ UNCHANGED <<env, snap, born, refresh, run, faults>>

-----------------------------------------------------------------------------
(* refresh_access, called by the loop, by a save and by the executor        *)

Wanted(p, c) ==
  \/ c = "loop"
  \/ p = "api" /\ \E b \in Browser: form[b].pc = "refresh"
  \/ p = "worker" /\ run.pc = "confirm"

RefreshRead(p, c) ==
  /\ refresh[p][c] = 0 /\ Wanted(p, c)
  /\ c = "loop" => snap[p] # Len(table)      \* a reading of nothing new changes nothing
  /\ refresh' = [refresh EXCEPT ![p][c] = Len(table)]
  /\ UNCHANGED <<env, table, form, holder, snap, born, run, faults>>

\* A save has its answer; the executor looks again, at once, and decides.
Saved == [b \in Browser |-> IF form[b].pc = "refresh" THEN NoForm ELSE form[b]]

Decided(v, r) == [r EXCEPT !.pc = IF _access_problem(v, r) THEN "refused" ELSE "started"]

Returned(p, c, v, blind) ==
  IF c = "own" /\ p = "api" THEN form' = Saved /\ UNCHANGED run
  ELSE IF c = "own" THEN Set([Decided(v, run) EXCEPT !.blind = blind]) /\ UNCHANGED form
  ELSE UNCHANGED <<form, run>>

Publish(p, c) ==
  /\ refresh[p][c] > 0
  /\ snap' = [snap EXCEPT ![p] = refresh[p][c]]
  /\ refresh' = [refresh EXCEPT ![p][c] = 0]
  /\ Returned(p, c, refresh[p][c], FALSE)
  /\ UNCHANGED <<env, table, holder, born, faults>>

\* An error keeps the last snapshot; the loop goes on, the executor decides on
\* what it has.
Retried_never(p, c) == IF c = "loop" THEN -1 ELSE 0
Retried(p, c) == 0

RefreshFails(p, c) ==
  /\ faults < MaxFaults /\ faults' = faults + 1
  /\ refresh[p][c] > 0
  /\ refresh' = [refresh EXCEPT ![p][c] = Retried(p, c)]
  /\ Returned(p, c, snap[p], TRUE)
  /\ UNCHANGED <<env, table, holder, snap, born>>

Restart(p) ==
  /\ faults < MaxFaults /\ faults' = faults + 1
  /\ snap' = [snap EXCEPT ![p] = 0]
  /\ born' = [born EXCEPT ![p] = Len(table)]
  /\ refresh' = [refresh EXCEPT ![p] = [c \in Caller |-> 0]]
  /\ IF p = "api"
     THEN /\ form' = [b \in Browser |-> NoForm] /\ holder' = None
          /\ IF run.pc = "pick" THEN Set(NotAsked) ELSE UNCHANGED run
     ELSE /\ UNCHANGED <<form, holder>>
          /\ IF run.pc = "confirm" THEN Set([run EXCEPT !.pc = "created"])
             ELSE UNCHANGED run
  /\ UNCHANGED <<env, table>>

-----------------------------------------------------------------------------
(* The run: admitted by jobs_submit, started by execute_run                 *)

\* The allowlist, then the candidates; pick_account yields.
Submit ==
  /\ run.pc = "none" /\ project_allowed(snap["api"])
  /\ LET candidates == policy_for(snap["api"]).accounts
     IN \E a \in (IF candidates = {} THEN {Owner} ELSE candidates):
          Set([NotAsked EXCEPT !.pc = "pick", !.account = a])
  /\ UNCHANGED <<env, table, form, holder, snap, born, refresh, faults>>

\* The policy is read again after the pick, then the run is created.
Create ==
  /\ run.pc = "pick"
  /\ Set(IF policy_violation(snap["api"], run.account) THEN NotAsked ELSE [run EXCEPT !.pc = "created"])
  /\ UNCHANGED <<env, table, form, holder, snap, born, refresh, faults>>

\* A snapshot that refuses is confirmed with a refresh first.
Execute_trustsSnapshot ==
  /\ run.pc = "created"
  /\ Set([Decided(snap["worker"], run) EXCEPT !.from = Len(table)])
  /\ UNCHANGED <<env, table, form, holder, snap, born, refresh, faults>>
Execute ==
  /\ run.pc = "created"
  /\ Set(IF _access_problem(snap["worker"], run)
         THEN [run EXCEPT !.pc = "confirm", !.from = Len(table)]
         ELSE [run EXCEPT !.pc = "started"])
  /\ UNCHANGED <<env, table, form, holder, snap, born, refresh, faults>>

Next ==
  \/ \E b \in Browser: Lock(b) \/ Write(b)
  \/ \E p \in Proc, c \in Caller: RefreshRead(p, c) \/ Publish(p, c) \/ RefreshFails(p, c)
  \/ \E p \in Proc: Restart(p)
  \/ Submit \/ Create \/ Execute

\* The refresh loop of every process goes on.
Fairness == \A p \in Proc: WF_vars(RefreshRead(p, "loop")) /\ WF_vars(Publish(p, "loop"))

Spec == Init /\ [][Next]_vars /\ Fairness
-----------------------------------------------------------------------------
\* The reference: what one stored row and the environment allow and list.
RowAllows(a) == a.enabled \/ (Marker \notin a.models /\ env.allowed)
RowLists(a, account) ==
  \/ a.models # {} /\ account \in a.accounts
  \/ (a.models = {} \/ a.accounts = {}) /\ MODEL \in env.models /\ account \in env.accounts
RowPermits(a, account) == RowAllows(a) /\ RowLists(a, account)

JustifiedStep ==
  /\ run'.pc = "started" /\ run.pc # "started" =>
       \E v \in born["worker"]..Len(table): RowPermits(table[v], run.account)
  /\ run'.pc = "created" /\ run.pc = "pick" =>
       \E v, w \in born["api"]..Len(table):
         RowAllows(table[v]) /\ RowLists(table[w], run.account)

\* A run starts only if one row stored since the worker came up permits it, and
\* is created only if rows stored since the api process came up allow the
\* project and list the account: a process that has loaded nothing decides for
\* nobody, whatever the environment would allow.
Justified == [][JustifiedStep]_vars

\* A run is refused for good only if a row stored since it was picked up forbids
\* it, or the confirming read failed: a box ticked before the run is never
\* missed because the snapshot is old.
RefusedForReason ==
  run.pc = "refused" =>
    run.blind \/ \E v \in run.from..Len(table): ~RowPermits(table[v], run.account)

KeepsMarker ==
  account_only(table[Len(table)]) => account_only(table'[Len(table')])

\* The account-only marker is never erased by a form loaded before it was set.
MarkerKept == [][KeepsMarker]_vars

\* Every process ends up deciding on the row that is stored, whatever refreshes
\* overlapped, failed or were cut by a restart.
SnapshotsConverge == \A p \in Proc: <>[](snap[p] = Len(table))
=============================================================================
