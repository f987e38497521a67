----------------------------- MODULE MCJobPath -----------------------------
(***************************************************************************)
(* A job from its claim to its last poll: the queue with every failure it  *)
(* recovers from, the dispatcher that wakes up for it, the walk over       *)
(* providers that runs it, the reads of its status and the bytes it        *)
(* returned.  A behaviour is about one of them, the one `which' names; the *)
(* variables of the others stay 0, the queue's in its initial state.       *)
(***************************************************************************)
EXTENDS JobQueue, Sequences, TLC

CONSTANTS
  j1, w1, w2, None,
  Due, Slots, MaxFaults,                    \* of DispatcherWake: its jobs and slots
  MaxId, Agent, Labelled, Readable, AgentOpen, Limit, MaxSeq,   \* of JobReads
  FileJob, TTL, Retention, Slow, MaxTime,   \* of JobFiles
  Provider, Chain, Key, ProvOf, TierOf, Reserved, Pool, PinOf, MaxKeys, MaxAttempts, Paid,
  Sticky, Metered, Invoiced, Incapable, Unreliable, ToolCapable, EmptyFails, Saver, Kinds,
  Meddle                                    \* of ProviderWalk

ASSUME WakeAssumption == IsFiniteSet(Due) /\ Slots \in Nat

ASSUME ReadsAssumption ==
  /\ MaxId \in Nat /\ Agent \subseteq 1 .. MaxId /\ Readable \subseteq Agent
  /\ AgentOpen \in BOOLEAN /\ Limit \in Nat \ {0} /\ MaxSeq \in Nat

\* A file is kept until a read that began before it expired has ended.
ASSUME FilesAssumption ==
  /\ TTL \in Nat /\ Retention \in Nat /\ Slow \in Nat /\ MaxTime \in Nat
  /\ TTL + Slow <= Retention

\* One chat job, two processes.  Time units are coarse: a call takes one, a walk
\* two, so two attempts fit a walk and a third does not.
OneJob == {j1}
TwoWorkers == {w1, w2}
WalkOfTwo == [j \in Job |-> 2]
CallOfOne == [j \in Job |-> 1]

\* A chain of the paid provider that is deferred at times and, behind it, one with
\* a free and a paid key, two models of its own and one more that can be pinned.
SaverMixed == <<"saver", "mixed">>
ThreeKeys == [s1 |-> "saver", m1 |-> "mixed", m2 |-> "mixed"]
OneFree == [s1 |-> "paid", m1 |-> "free", m2 |-> "paid"]
Models == [saver |-> <<"v4">>, mixed |-> <<"flash", "lite">>]
Pinned == [saver |-> "v4", mixed |-> "pro"]
KeysTried == [saver |-> 1, mixed |-> 2]
Chat == [run |-> "chat", pin |-> FALSE, paid |-> FALSE, json |-> FALSE, tools |-> FALSE, free |-> FALSE]
Requests ==
  {[Chat EXCEPT !.json = TRUE], [Chat EXCEPT !.pin = TRUE],
   [Chat EXCEPT !.paid = TRUE, !.tools = TRUE], [Chat EXCEPT !.free = TRUE],
   [Chat EXCEPT !.run = "embed"], [Chat EXCEPT !.run = "decision"],
   [Chat EXCEPT !.run = "transcribe"]}

VARIABLES
  which,   \* the component this behaviour is about
  status, ripe, loop, claimed, wake, inflight, listener, stopping, told, faults,
  health, cool, hung, learned, route, stop, moves, walk,
  readsRow, run, client,
  now, inTable, meta, blob, made, poll, tool

Walk == INSTANCE ProviderWalk
Disp == INSTANCE DispatcherWake WITH Job <- Due, MaxConcurrency <- Slots
Reads == INSTANCE JobReads WITH row <- readsRow
Files == INSTANCE JobFiles WITH Job <- FileJob

\* A chain names a provider once.  _MAX_ATTEMPTS_ABS stays above the key sum of
\* every walk (the comment at its definition).
ASSUME WalkAssumption ==
  /\ Chain \in Seq(Provider) /\ Chain # <<>>
  /\ \A i, j \in 1 .. Len(Chain) : Chain[i] = Chain[j] => i = j
  /\ None \notin Key /\ \A k \in Key : ProvOf[k] \in Provider
  /\ \A p \in Provider : Pool[p] \in Seq(Walk!Model) /\ MaxKeys[p] \in Nat \ {0}
  /\ Kinds \subseteq Walk!Kind /\ Kinds # {} /\ Meddle \in Nat /\ MaxAttempts \in Nat
  /\ \A kind \in Kinds, over \in SUBSET Walk!Ran(Chain), defer \in BOOLEAN :
       \A target \in Walk!lookup_route(kind) :
         LET steps == Walk!ChatSteps(kind, over, defer, target)
         IN  Walk!KeySum(steps)[Len(steps)] <= MaxAttempts

queueVars == vars
dispatchVars == <<status, ripe, loop, claimed, wake, inflight, listener, stopping, told, faults>>
walkVars == <<health, cool, hung, learned, route, stop, moves, walk>>
readsVars == <<readsRow, run, client>>
filesVars == <<now, inTable, meta, blob, made, poll, tool>>

allVars == <<which, queueVars, dispatchVars, walkVars, readsVars, filesVars>>

InitAll ==
  /\ which \in {"queue", "dispatch", "walk", "reads", "files"}
  /\ Init
  /\ IF which = "dispatch" THEN Disp!Init
     ELSE status = 0 /\ ripe = 0 /\ loop = 0 /\ claimed = 0 /\ wake = 0 /\ inflight = 0 /\
          listener = 0 /\ stopping = 0 /\ told = 0 /\ faults = 0
  /\ IF which = "walk" THEN Walk!Init
     ELSE health = 0 /\ cool = 0 /\ hung = 0 /\ learned = 0 /\ route = 0 /\ stop = 0 /\ moves = 0 /\
          walk = 0
  /\ IF which = "reads" THEN Reads!Init
     ELSE readsRow = 0 /\ run = 0 /\ client = 0
  /\ IF which = "files" THEN Files!Init
     ELSE now = 0 /\ inTable = 0 /\ meta = 0 /\ blob = 0 /\ made = 0 /\ poll = 0 /\ tool = 0

Queueing ==
  which = "queue" /\ Next /\ UNCHANGED <<which, dispatchVars, walkVars, readsVars, filesVars>>
Dispatching ==
  which = "dispatch" /\ Disp!Next /\ UNCHANGED <<which, queueVars, walkVars, readsVars, filesVars>>
Asking ==
  which = "walk" /\ Walk!Next /\ UNCHANGED <<which, queueVars, dispatchVars, readsVars, filesVars>>
Reading ==
  which = "reads" /\ Reads!Next /\ UNCHANGED <<which, queueVars, dispatchVars, walkVars, filesVars>>
FileKeeping ==
  which = "files" /\ Files!Next /\ UNCHANGED <<which, queueVars, dispatchVars, walkVars, readsVars>>

NextAll == Queueing \/ Dispatching \/ Asking \/ Reading \/ FileKeeping

SpecAll == InitAll /\ [][NextAll]_allVars

\* The two processes are interchangeable.
SymmetricWorkers == Permutations(TwoWorkers)
-----------------------------------------------------------------------------
\* The dispatcher holds no more tasks than it has slots and never sleeps, with a
\* free slot, on a job whose NOTIFY the process received (services/job_queue.py).
DispatchSound == which = "dispatch" => Disp!DispatchSound

\* The types of ProviderWalk.
WalkTypeOK == which = "walk" => Walk!TypeOK

(* A pinned request is answered by the pinned model and no other, whatever *)
(* the rotation and the route pins hold.                                   *)
PinnedModelOnly == which = "walk" => Walk!PinnedModelOnly

(* Once a project or global cap refused an unpinned walk, the rest of it   *)
(* calls free keys only, the steps after the refused one included.         *)
NoPaidAfterCapped == which = "walk" => Walk!NoPaidAfterCapped

(* Free first: while a free provider heads the walk, the affine leg never  *)
(* calls a paid key; a free-walk capability calls no paid provider before  *)
(* its final retry.                                                        *)
FreeFirst == which = "walk" => Walk!FreeFirst

(* A parked key, a dead key or a model parked on the key is called only if *)
(* it was parked after this walk had chosen it, or the lookup failed.      *)
ParkedNotCalled == which = "walk" => Walk!ParkedNotCalled

(* A chat walk that gives up for want of capacity has visited every step:  *)
(* the attempt cap never hides the tail of the chain.                      *)
EveryStepTaken == which = "walk" => Walk!EveryStepTaken

(* A cancelled chat job starts at most the one call whose key was chosen   *)
(* before the cancel.                                                      *)
CancelCostsOneAttempt == which = "walk" => Walk!CancelCostsOneAttempt

(* Without a pin, a (provider, model) that answered the prompt with an     *)
(* empty or malformed body is asked again by the same walk only when the   *)
(* first answer came from the affine leg.                                  *)
ContentRetriedOnce == which = "walk" => Walk!ContentRetriedOnce

\* The listing of a walk: in order of id, every job at most once, and when the
\* pages are complete every job that was there when the walk began and has not
\* been purged since.
WalkExact == which = "reads" => Reads!WalkExact

\* no_nonterminal_in_filter is a promise for good: of the jobs that were there
\* when it was given none is ever pending or running again, whatever page the
\* walk is on.
QuietIsFinal == which = "reads" => Reads!QuietIsFinal

\* A bulk cancel tells the truth about each job it selected: cancelled is final
\* and nothing executes any more, cancel_requested is seen by whoever runs the job, and none is left out.
CancelAnswersTrue == which = "reads" => Reads!CancelAnswersTrue

\* A client that is told `finished` has had every event of the run, the terminal
\* one included, once and in order.
EventsWhole == which = "reads" => Reads!EventsWhole

\* A poll is answered as if the bytes had always been inline: the very text the
\* run returned until it expires, nothing and the mark afterwards, wherever the
\* bytes were stored and whatever was cleared or purged while it read.
ServedAsInline == which = "files" => Files!ServedAsInline


\* A walk over providers (services/llm_service.py, services/attempt.py) calls only
\* what the request, the caps and the state of the keys allow, and gives up only
\* when it has asked everybody: the parts above.
WalkSound ==
  /\ WalkTypeOK /\ PinnedModelOnly /\ NoPaidAfterCapped /\ FreeFirst /\ ParkedNotCalled
  /\ EveryStepTaken /\ CancelCostsOneAttempt /\ ContentRetriedOnce

\* What a client is told in answers put together from several reads (listing, bulk
\* cancel, events, returned files) is true whatever happens between the reads: the
\* parts above.
ToldTrue ==
  WalkExact /\ QuietIsFinal /\ CancelAnswersTrue /\ EventsWhole /\ ServedAsInline
=============================================================================
