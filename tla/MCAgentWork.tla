----------------------------- MODULE MCAgentWork -----------------------------
(***************************************************************************)
(* An agent run: its row, lane and event log, the access table it is       *)
(* checked against, the account it is given, the files it returns and the  *)
(* model it says served it.                                                *)
(* A behaviour is about one of them, the one `which' names; the variables  *)
(* of the others stay 0, those of the run in their initial state.          *)
(***************************************************************************)
EXTENDS AgentRuns, Sequences, TLC

CONSTANTS
  r1, s1, s2, s3, c1, w1,
  AccessAccount, Owner, NoAccounts, MaxSaves, MaxFaults,  \* of AgentAccess
  PickAccount, Policies, OutOfPick, Submitter, Day, Week, Lookback, DownPause,
  MaxRuns, MaxEvents, MaxTime,                            \* of AccountPick
  Gen, Out, CopyBase, Content, MaxSize, FileMax, FilesTotal, FilesMax,
  ImageMax, ImageTotal, ImageCount, MaxWrites,            \* of RunFiles
  Model, Cap, MaxSeen                                     \* of ServedModel

\* The marker of an empty selection is no account.
AccessLabels == NoAccounts \notin AccessAccount \cup {Owner}
ASSUME AccessAssumption == AccessLabels

\* A policy lists accounts; the look-back is no shorter than the longest limit, a
\* week, and than the pause of a login that cannot serve.
PickLimits ==
  /\ Policies \subseteq Seq(PickAccount)
  /\ Day \in Nat \ {0} /\ Week \in Nat \ {0} /\ Lookback \in Nat /\ Week * Day <= Lookback
  /\ DownPause \in 0..Lookback
ASSUME PickAssumption == PickLimits

\* Paths are numbers, those of the copies above all others; 0 is no path.
FilesLimits ==
  /\ CopyBase \in Nat /\ MaxSize \in Nat /\ ImageMax \in Nat /\ ImageTotal \in Nat
  /\ Gen \cup Out \subseteq 1..CopyBase /\ Gen \cap Out = {}
ASSUME FilesAssumption == FilesLimits

\* The list of observations has room for one.
ServedLimits == Cap \in Nat \ {0}
ASSUME ServedAssumption == ServedLimits

\* One batch run in a lane of three slots, one of them reserved.
OneRun == {r1}
ThreeSlots == {s1, s2, s3}
OneClient == {c1}
OneSweeper == {w1}

\* One account, two in either order, and none but an excluded one.
FourPolicies == {<<"a">>, <<"b", "a">>, <<"x", "a", "b">>, <<"x">>}

VARIABLES
  which,   \* the component this behaviour is about
  now, pickEvents, load, sub,
  fs, reported, baseline, pc, todo, opened, used, files, images, outs, skipped, writes,
  env, table, form, holder, snap, born, refresh, accessRun, faults,
  resultMeta, seen, over

Pick == INSTANCE AccountPick WITH events <- pickEvents, Account <- PickAccount, Excluded <- OutOfPick

RFiles == INSTANCE RunFiles

Access == INSTANCE AgentAccess WITH run <- accessRun, Account <- AccessAccount

Served == INSTANCE ServedModel WITH meta <- resultMeta

runsVars == vars
pickVars == <<now, pickEvents, load, sub>>
runfilesVars == <<fs, reported, baseline, pc, todo, opened, used, files, images, outs, skipped, writes>>
accessVars == <<env, table, form, holder, snap, born, refresh, accessRun, faults>>
servedVars == <<resultMeta, seen, over>>

allVars == <<which, runsVars, pickVars, runfilesVars, accessVars, servedVars>>

InitAll ==
  /\ which \in {"runs", "pick", "runfiles", "access", "served"}
  /\ Init
  /\ IF which = "pick" THEN Pick!Init
     ELSE now = 0 /\ pickEvents = 0 /\ load = 0 /\ sub = 0
  /\ IF which = "runfiles" THEN RFiles!Init
     ELSE fs = 0 /\ reported = 0 /\ baseline = 0 /\ pc = 0 /\ todo = 0 /\ opened = 0 /\ used = 0 /\
          files = 0 /\ images = 0 /\ outs = 0 /\ skipped = 0 /\ writes = 0
  /\ IF which = "access" THEN Access!Init
     ELSE env = 0 /\ table = 0 /\ form = 0 /\ holder = 0 /\ snap = 0 /\ born = 0 /\ refresh = 0 /\
          accessRun = 0 /\ faults = 0
  /\ IF which = "served" THEN Served!Init ELSE resultMeta = 0 /\ seen = 0 /\ over = 0

Running ==
  which = "runs" /\ Next /\ UNCHANGED <<which, pickVars, runfilesVars, accessVars, servedVars>>
Picking ==
  which = "pick" /\ Pick!Next /\ UNCHANGED <<which, runsVars, runfilesVars, accessVars, servedVars>>
Collecting ==
  which = "runfiles" /\ RFiles!Next /\ UNCHANGED <<which, runsVars, pickVars, accessVars, servedVars>>
Granting ==
  which = "access" /\ Access!Next /\ UNCHANGED <<which, runsVars, pickVars, runfilesVars, servedVars>>
Observing ==
  which = "served" /\ Served!Next /\ UNCHANGED <<which, runsVars, pickVars, runfilesVars, accessVars>>

NextAll == Running \/ Picking \/ Collecting \/ Granting \/ Observing

SpecAll == InitAll /\ [][NextAll]_allVars

SymmetricAll == Permutations(Slot)
-----------------------------------------------------------------------------
\* The reset read from a message is the one the provider meant, in every form the
\* message can have and at every time of the day and the week.
ResetUnderstood == which = "pick" => Pick!ResetUnderstood

\* Where the policy gives a choice, a run goes to an account that could not serve
\* when the pauses were read only if no candidate could, and then to the one that
\* is back first: a weekly limit met days ago is still known.
PickCanServe == which = "pick" => Pick!PickCanServe

\* The images of a run keep the byte budget together, and each its own cap,
\* although two collectors fill it and files grow while they are read.
ImageBudget == which = "runfiles" => RFiles!ImageBudget

\* No picture is returned twice: not the copy of an exported one, not one that
\* is already among the files or the images.
ReturnedOnce == which = "runfiles" => RFiles!ReturnedOnce

\* A picture that was there before the run is never returned as the run's own,
\* also when something touches it meanwhile.
OwnImages == which = "runfiles" => RFiles!OwnImages

\* Who may run agents (agent/project_access.py, agent/executor.py).  A run starts
\* only if one row stored since the worker came up permits it, and is created
\* only if rows stored since the api process came up allow the project and list
\* the account; it is refused for good only if a row stored since it was picked
\* up forbids it, or the confirming read failed; and a form loaded before the
\* account-only marker was set never erases it.
AccessJustified ==
  [][which = "access" =>
       Access!JustifiedStep /\ Access!RefusedForReason' /\ Access!KeepsMarker]_accessVars

\* A run that names the model that served it names the first one any of its
\* responses came from, although the list of observations is capped and its
\* entries are replaced (_fold_observation, served_model_meta).
ServedIsFirstResponse == which = "served" => Served!ServedIsFirstResponse

\* The cap on observations never costs the strongest kind of evidence.
BestKindKept == which = "served" => Served!BestKindKept

\* A list of observations that is said to be complete holds every one of the run.
CompleteIsWhole == which = "served" => Served!CompleteIsWhole

\* The account of a run is one that can serve it, as far as the provider's words
\* allow (agent/accounts.py, agent/parsers.py): the two parts above.
AccountCanServe == ResetUnderstood /\ PickCanServe

\* What a run reports of itself is true: its own pictures, each once and within the
\* budget, and the model that served it (agent/executor.py, agent/runs.py).
ReportTrue ==
  /\ ImageBudget /\ ReturnedOnce /\ OwnImages
  /\ ServedIsFirstResponse /\ BestKindKept /\ CompleteIsWhole
=============================================================================
