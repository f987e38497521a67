----------------------------- MODULE MCBackground -----------------------------
(***************************************************************************)
(* What runs beside the requests: the key monitor and the trackers of the  *)
(* comparison.  They share no state, so a behaviour is about one of them,  *)
(* the one `which' names; the other stays in an initial state.             *)
(***************************************************************************)
EXTENDS KeyMonitor, TLC

CONSTANTS
  Caller, Browser, Ip, NoIp, Model,   \* who asks on the comparison page, and which models
  Followed,                           \* the callers whose question is followed to its end
  MaxFaults                           \* bound: restarts

\* "none" is the holder of a free lock.
CallersNamed == "none" \notin Caller
ASSUME CallerAssumption == CallersNamed

Probed(p, m, v) == [probe |-> p, micro |-> m, vibe |-> v]
Kinds ==
  {Probed("list", FALSE, FALSE), Probed("gen", TRUE, FALSE), Probed("list", FALSE, TRUE),
   Probed("none", FALSE, FALSE)}

VARIABLES
  which,   \* the component this behaviour is about
  ask, lock, age, compareRow, job, sent, sync, track, faults

Comp == INSTANCE Compare WITH row <- compareRow

monitorVars == vars
compareVars == <<ask, lock, age, compareRow, job, sent, sync, track, faults>>

allVars == <<which, monitorVars, compareVars>>

InitAll ==
  /\ which \in {"monitor", "compare"}
  /\ Init /\ (which # "monitor" => world.funds /\ kind.probe = "gen" /\ row.tier = "paid")
  /\ Comp!Init
  /\ which # "compare" =>
       ask = [c \in Caller |-> [pc |-> "browser", browser |-> CHOOSE b \in Browser: TRUE,
                                ip |-> NoIp]]

Monitoring ==
  which = "monitor" /\ Next /\ UNCHANGED <<which, compareVars>>
Comparing ==
  which = "compare" /\ Comp!Next /\ UNCHANGED <<which, monitorVars>>

NextAll == Monitoring \/ Comparing

FairnessAll ==
  /\ WF_monitorVars(which = "monitor" /\ Sweep)
  /\ WF_monitorVars(which = "monitor" /\ Answer)
  /\ WF_monitorVars(which = "monitor" /\ Tick)
  /\ \A c \in Caller: WF_compareVars(which = "compare" /\ Comp!FanOut(c))
  /\ \A c \in Caller: WF_compareVars(which = "compare" /\ Comp!SyncStep(c, "tracker"))
  /\ \A c \in Caller: WF_compareVars(which = "compare" /\ Comp!TrackEnds(c))
  /\ \A c \in Caller: WF_compareVars(which = "compare" /\ Comp!Tick(c))

SpecAll == InitAll /\ [][NextAll]_allVars /\ FairnessAll
-----------------------------------------------------------------------------
\* A browser, and an address, never has two unfinished questions, however many
\* workers check and insert at once (the locks of create_request).
OneActivePerCaller == which = "compare" => Comp!OneActivePerCaller

\* An answer that was saved stays: no late timeout, no second sync and no
\* late write of fan_out replaces it.
AnswerKept == [][which = "compare" => Comp!KeepsAnswer]_compareVars

\* A question with a living tracker is closed for every model, without anyone
\* looking at the page and whatever the jobs do.
TrackedRowCloses == which = "compare" => Comp!TrackedRowCloses

\* A question is answered once and for every model (services/compare.py).
ComparisonCloses == AnswerKept /\ TrackedRowCloses
=============================================================================
