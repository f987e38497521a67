----------------------------- MODULE MCFrontEnd -----------------------------
(***************************************************************************)
(* What a request meets in the HTTP processes, one instance of each.  They *)
(* share no state, so a behaviour is about one of them, the one `which'    *)
(* names; the variables of the others stay 0, JobSubmit's in an initial    *)
(* state.                                                                  *)
(***************************************************************************)
EXTENDS JobSubmit, TLC

CONSTANTS
  r1, r2, p1, p2, a1, a2, k1,
  \* Of Projects:
  Worker, Tab, Name, Slug, Ip, PerDay, PerIp, SignupCap, NameRetries, MaxId, MaxForms, MaxTokens,
  \* Of ResponseCache:
  Project, Message, Format, Capability, Cacheable, CacheTTL, MaxEntries, MaxCacheAge, MaxCalls,
  \* Of RoutingState:
  Call, PinTTL, SatTTL, RetryS, Slow, MaxRoutingAge, MaxFaults

\* The limits of sign-up are numbers, and somebody can sign up.
ProjectLimits ==
  /\ PerDay \in Nat /\ PerIp \in Nat /\ SignupCap \in Nat /\ Slug \in Name
  /\ IsFiniteSet(Worker) /\ Worker # {}
ASSUME ProjectAssumption == ProjectLimits

\* Every capability that is cached has a time to live.
ASSUME CacheAssumption ==
  /\ MaxEntries \in Nat /\ MaxCacheAge \in Nat
  /\ \A c \in Cacheable : CacheTTL[c] \in Nat

\* A store that failed is left alone for a while.
ASSUME RoutingAssumption ==
  /\ PinTTL \in Nat /\ SatTTL \in Nat /\ Slow \in Nat /\ MaxRoutingAge \in Nat
  /\ RetryS \in Nat \ {0}

TwoRequests == {r1, r2}
TwoPayloads == {p1, p2}
OneKey == {k1}
TwoAccounts == {a1, a2}
TranslateAndChat == <<"translate", "chat">>
OneTick == [translate |-> 1]
AllLanes == {"plain", "sub", "agent", "sync"}

VARIABLES
  which,   \* the component this behaviour is about
  row, ids, tokens, projectsJobs, signup, form, forms, client,
  store, calls, hit, cacheUsed,
  up, redis, local, off, failed, routingReq, about, faults

Proj == INSTANCE Projects WITH jobs <- projectsJobs

Cache == INSTANCE ResponseCache WITH used <- cacheUsed, TTL <- CacheTTL, MaxAge <- MaxCacheAge

Routing == INSTANCE RoutingState WITH req <- routingReq, Req <- Call, TTL <- PinTTL,
  MaxAge <- MaxRoutingAge

submitVars == vars
projectsVars == <<row, ids, tokens, projectsJobs, signup, form, forms, client>>
cacheVars == <<store, calls, hit, cacheUsed>>
routingVars == <<up, redis, local, off, failed, routingReq, about, faults>>

allVars == <<which, submitVars, projectsVars, cacheVars, routingVars>>

InitAll ==
  /\ which \in {"submit", "projects", "cache", "routing"}
  /\ Init /\ (which # "submit" => cap = NoCap)
  /\ IF which = "projects" THEN Proj!Init
     ELSE row = 0 /\ ids = 0 /\ tokens = 0 /\ projectsJobs = 0 /\ signup = 0 /\ form = 0 /\
          forms = 0 /\ client = 0
  /\ IF which = "cache" THEN Cache!Init
     ELSE store = 0 /\ calls = 0 /\ hit = 0 /\ cacheUsed = 0
  /\ IF which = "routing" THEN Routing!Init
     ELSE up = 0 /\ redis = 0 /\ local = 0 /\ off = 0 /\ failed = 0 /\ routingReq = 0 /\ about = 0 /\
          faults = 0

Submission ==
  which = "submit" /\ Next /\ UNCHANGED <<which, projectsVars, cacheVars, routingVars>>
Administration ==
  which = "projects" /\ Proj!Next /\ UNCHANGED <<which, submitVars, cacheVars, routingVars>>
Caching ==
  which = "cache" /\ Cache!Next /\ UNCHANGED <<which, submitVars, projectsVars, routingVars>>
Remembering ==
  which = "routing" /\ Routing!Next /\ UNCHANGED <<which, submitVars, projectsVars,
    cacheVars>>

NextAll == Submission \/ Administration \/ Caching \/ Remembering

SpecAll == InitAll /\ [][NextAll]_allVars

\* The same values stand for requests and workers, and for payloads, tabs and
\* calls: no behaviour has both.
SymmetricAll ==
  UNION {Permutations({r1, r2}), Permutations({p1, p2}), Permutations({a1, a2})}
-----------------------------------------------------------------------------
\* A key that was rotated out never comes back: a row's key only ever changes to
\* a newly generated one, whatever form was open while it was rotated.
RotationSticks == [][which = "projects" => Proj!KeyReplaced]_projectsVars

\* No form takes back requests that were counted while it was open.
CountKept == [][which = "projects" => Proj!CountGrows]_projectsVars

\* A cached answer was given to this very project for this very request, format
\* included, and within the time to live of its capability.
HitIsOwn == which = "cache" => Cache!HitIsOwn

\* The cache holds at most MaxEntries, and the MaxEntries requests used last are
\* all still there: one that is read again and again is never the one evicted.
RecentKept == which = "cache" => Cache!RecentKept

\* A pin that routes a request was noted by a success no longer ago than the time
\* to live, plus the one write to the store: neither a store that comes back nor
\* the process's own dictionary revives an older one.
PinFresh == which = "routing" => Routing!PinFresh

\* The saturation verdict a pick uses is at most two times to live old ("the
\* staleness compounds up to ~2xTTL"), plus the write to the store, however the
\* workers hand it to each other.
VerdictAge == which = "routing" => Routing!VerdictAge

\* A sick Redis is paid for once per retry window: a worker that fails against it
\* twice within the window had both calls under way at the first failure.
OutagePaidOnce == [][which = "routing" => Routing!OnePaid]_routingVars

\* Sign-ups, owners' forms and deletions keep the table of projects (services/
\* signup.py, routes/dashboard.py, db/models.py): daily limits overshot by no
\* more than the sign-ups in flight, a project of its own for each, no job left
\* behind by a deleted one.
ProjectsSound == which = "projects" => Proj!ProjectsSound

\* A form saved late takes nothing back that happened while it was open.
FormsKeep == RotationSticks /\ CountKept

\* What a worker remembers between requests is still true when it is used
\* (services/response_cache.py, routing/affinity.py, routing/selector.py), and an
\* outage of the store is remembered as well.
MemoryTrue ==
  [](HitIsOwn /\ RecentKept /\ PinFresh /\ VerdictAge) /\ OutagePaidOnce
=============================================================================
