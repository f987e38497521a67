------------------------------ MODULE MCLoopsLive ------------------------------
(***************************************************************************)
(* What the background loops owe: the agent worker closes every run, the   *)
(* access loop brings every process to the stored table, and the monitor's *)
(* round of checks tells the operator of an outage.  They share no state   *)
(* here, so a behaviour is about one of them, the one `which' names; the   *)
(* others stay in an initial state.                                        *)
(***************************************************************************)
EXTENDS AgentRuns, TLC

CONSTANTS r1, s1, s2, c1, w1, owner, nobody

\* One run, two slots, a client, a sweeper, one death.
OneRun == {r1}
TwoSlots == {s1, s2}
OneClient == {c1}
OneSweeper == {w1}

VARIABLES
  which,   \* the component this behaviour is about
  env, table, form, holder, snap, born, refresh, accessRun, faults,
  deployed, round, service, oldest, backup, alertFile, news, lost

Access == INSTANCE AgentAccess WITH run <- accessRun, Account <- {owner}, Owner <- owner,
  NoAccounts <- nobody, MaxSaves <- 1, MaxFaults <- 1

Deployments == {{"local:vision"}, {"backup:stale"}}
Throttles == [c \in {"local:vision", "queue:backlog", "backup:stale"} |-> 2]
Infra == INSTANCE InfraChecks WITH pc <- round, file <- alertFile, faults <- lost,
  Throttle <- Throttles, StuckAfter <- 1, MaxAge <- 1, MaxFaults <- 1

runsVars == vars
infraVars == <<deployed, round, service, oldest, backup, alertFile, news, lost>>
accessVars == <<env, table, form, holder, snap, born, refresh, accessRun, faults>>

allVars == <<which, runsVars, accessVars, infraVars>>

InitAll ==
  /\ which \in {"runs", "access", "infra"}
  /\ Init
  /\ Access!Init /\ (which # "access" => env.allowed)
  /\ Infra!Init /\ (which # "infra" => deployed = {"local:vision"})

Running ==
  which = "runs" /\ Next /\ UNCHANGED <<which, accessVars, infraVars>>
Granting ==
  which = "access" /\ Access!Next /\ UNCHANGED <<which, runsVars, infraVars>>
Checking ==
  which = "infra" /\ Infra!Next /\ UNCHANGED <<which, runsVars, accessVars>>

NextAll == Running \/ Granting \/ Checking

FairnessAll ==
  /\ \A s \in Slot: WF_runsVars(which = "runs" /\ Work(s))
  /\ \A o \in Client \cup Sweeper: WF_runsVars(which = "runs" /\ Operate(o))
  /\ \A r \in Run: SF_runsVars(which = "runs" /\ \E s \in Slot: Claim(s, r))
  /\ \A r \in Run, o \in Sweeper: SF_runsVars(which = "runs" /\ ListStale(o, r))
  /\ \A p \in Access!Proc: WF_accessVars(which = "access" /\ Access!RefreshRead(p, "loop"))
  /\ \A p \in Access!Proc: WF_accessVars(which = "access" /\ Access!Publish(p, "loop"))
  /\ WF_infraVars(which = "infra" /\ Infra!Round)

SpecAll == InitAll /\ [][NextAll]_allVars /\ FairnessAll
-----------------------------------------------------------------------------
\* Every process ends up deciding on the row that is stored, whatever refreshes
\* overlapped, failed or were cut by a restart.
SnapshotsConverge == which = "access" => Access!SnapshotsConverge

\* An outage that lasts reaches the operator even when the first messages about it
\* are lost and other checks raise (notifier.alert, monitor.main).
OutageAnnounced == which = "infra" => Infra!OutageAnnounced

\* A check that stays good leaves no alert file (notifier.recover), so the next
\* outage is announced at once.
AlertCleared == which = "infra" => Infra!AlertCleared

\* Two alerts of a check without a recovery between them are a throttle apart.
AlertsSpaced == [][which = "infra" => Infra!SpacedStep]_infraVars

\* The access loop and the monitor's round of checks deliver: the parts above.
LoopsDeliver == SnapshotsConverge /\ OutageAnnounced /\ AlertCleared /\ AlertsSpaced
=============================================================================
