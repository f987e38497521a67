---------------------------- MODULE AccountPick ----------------------------
(***************************************************************************)
(* Which login a new subscription run goes to (agent/accounts.py): the       *)
(* events of earlier runs say until when an account is paused, in the words  *)
(* of the provider (agent/parsers.py), and the choice is made from two       *)
(* queries while other submissions, runs and failures go on.  A clock time   *)
(* is a tick of the day; the zone is UTC.                                    *)
(***************************************************************************)
EXTENDS Integers, Sequences, FiniteSets, FiniteSetsExt

CONSTANTS
  Account,
  Policies,      \* account lists a project policy may give, in its order
  Excluded,      \* AGENT_CLAUDE_EXCLUDED_ACCOUNTS
  Submitter,     \* concurrent submissions
  Day, Week,     \* ticks of a day; days of a week
  Lookback,      \* QUOTA_LOOKBACK
  DownPause,     \* AGENT_ACCOUNT_DISABLED_PAUSE_S
  MaxRuns,       \* bound: unfinished runs of an account
  MaxEvents,     \* bound: run.failed and run.waiting_quota events
  MaxTime        \* bound: the clock

VARIABLES
  now,
  events,    \* run.failed, run.waiting_quota: [account, at, reset, back], back: when it really ends
  load,      \* account -> unfinished runs
  sub        \* per submission

vars == <<now, events, load, sub>>

Idle == [pc |-> "idle", cand |-> <<>>, paused |-> {}, account |-> "none", down |-> {}]

Init ==
  /\ now = 0 /\ events = {} /\ load = [a \in Account |-> 0]
  /\ sub = [s \in Submitter |-> Idle]

Accounts(cand) == {cand[i]: i \in DOMAIN cand}

-----------------------------------------------------------------------------
(* The words of a limit                                                     *)

Today(t) == (t \div Day) * Day
Weekday(t) == (t \div Day) % Week

\* "resets 8pm": today if that is still ahead, else tomorrow; "resets Mon 8pm": the
\* next such day.
_parse_resets_clock_today(clock, weekday, t) == Today(t) + clock
_parse_resets_clock(clock, weekday, t) ==
  LET at == Today(t) + clock + (IF weekday = -1 THEN 0 ELSE ((weekday - Weekday(t)) % Week) * Day)
  IN IF at < t THEN at + (IF weekday = -1 THEN Day ELSE Week * Day) ELSE at

\* A limit that ends at `back` in one of the forms a message has: the epoch or the
\* hours left, a clock time for less than a day, a weekday for less than a week.
parse_reset_at(back, t) ==
  {back} \cup (IF back - t < Day THEN {_parse_resets_clock(back % Day, -1, t)} ELSE {})
         \cup (IF back - t < Week * Day THEN {_parse_resets_clock(back % Day, Weekday(back), t)} ELSE {})

-----------------------------------------------------------------------------
(* Runs                                                                     *)

Record(a, reset, back) ==
  events' = events \cup {[account |-> a, at |-> now, reset |-> reset, back |-> back]}

\* A limit was met: the run fails with the reset, or waits until it.
Limited(a) ==
  /\ load[a] > 0 /\ Cardinality(events) < MaxEvents
  /\ \E back \in (now + 1)..(now + Week * Day), waits \in BOOLEAN:
       /\ \E reset \in parse_reset_at(back, now): Record(a, reset, back)
       /\ load' = IF waits THEN load ELSE [load EXCEPT ![a] = @ - 1]
  /\ UNCHANGED <<now, sub>>

\* The login cannot serve at all: paused for DownPause after the failure.
Down(a) ==
  /\ load[a] > 0 /\ Cardinality(events) < MaxEvents
  /\ Record(a, now + DownPause, now + DownPause)
  /\ load' = [load EXCEPT ![a] = @ - 1]
  /\ UNCHANGED <<now, sub>>

Finish(a) == load[a] > 0 /\ load' = [load EXCEPT ![a] = @ - 1] /\ UNCHANGED <<now, events, sub>>

-----------------------------------------------------------------------------
(* pick_account                                                             *)

\* The events the query returns.
Scanned_daily(cand, t) == {e \in events: e.account \in Accounts(cand) /\ e.at >= t - Day}
Scanned(cand, t) == {e \in events: e.account \in Accounts(cand) /\ e.at >= t - Lookback}

\* The latest reset ahead of each account that has one.
quota_resets(cand, t) ==
  {[account |-> a, reset |-> Max({e.reset: e \in {f \in Scanned(cand, t): f.account = a /\ f.reset > t}})]:
     a \in {e.account: e \in {f \in Scanned(cand, t): f.reset > t}}}

\* The accounts that cannot serve at t, with the time they come back.
Unable(t) ==
  {[account |-> a, reset |-> Max({e.back: e \in {f \in events: f.account = a /\ f.back > t}})]:
     a \in {e.account: e \in {f \in events: f.back > t}}}

Position(cand, a) == CHOOSE i \in DOMAIN cand: cand[i] = a /\ \A j \in DOMAIN cand: cand[j] = a => i <= j

\* Among `from`, the least by cost; ties in the order of the policy.
Least(cand, from, cost) ==
  CHOOSE a \in from: \A b \in from \ {a}:
    cost[a] < cost[b] \/ (cost[a] = cost[b] /\ Position(cand, a) < Position(cand, b))

ResetOf(paused) == [a \in {p.account: p \in paused} |-> (CHOOSE p \in paused: p.account = a).reset]
Named(paused) == {p.account: p \in paused}

\* The accounts of a policy that are not excluded, at their places in its order.
Candidates(policy) == [i \in {k \in DOMAIN policy: policy[k] \notin Excluded} |-> policy[i]]

\* A single candidate is taken unasked; else the pauses are read.
Begin(s) ==
  /\ sub[s].pc = "idle"
  /\ \E policy \in Policies:
       LET cand == Candidates(policy)
           places == DOMAIN cand
       IN sub' = [sub EXCEPT ![s] =
                    IF places = {} THEN Idle
                    ELSE IF Cardinality(places) = 1
                    THEN [Idle EXCEPT !.pc = "create", !.cand = cand, !.account = cand[CHOOSE i \in places: TRUE]]
                    ELSE [Idle EXCEPT !.pc = "load", !.cand = cand,
                                      !.paused = quota_resets(cand, now), !.down = Unable(now)]]
  /\ UNCHANGED <<now, events, load>>

\* unfinished_runs, a query of its own, and the choice.
pick_account(s) ==
  /\ sub[s].pc = "load"
  /\ LET cand == sub[s].cand
         free == Accounts(cand) \ Named(sub[s].paused)
         choice == IF free # {} THEN Least(cand, free, load)
                   ELSE Least(cand, Accounts(cand), ResetOf(sub[s].paused))
     IN sub' = [sub EXCEPT ![s] = [@ EXCEPT !.pc = "create", !.account = choice, !.paused = {}]]
  /\ UNCHANGED <<now, events, load>>

Create(s) ==
  /\ sub[s].pc = "create" /\ load[sub[s].account] < MaxRuns
  /\ load' = [load EXCEPT ![sub[s].account] = @ + 1]
  /\ sub' = [sub EXCEPT ![s] = Idle]
  /\ UNCHANGED <<now, events>>

Tick ==
  /\ now < MaxTime /\ now' = now + 1
  /\ UNCHANGED <<events, load, sub>>

Next ==
  \/ \E a \in Account: Limited(a) \/ Down(a) \/ Finish(a)
  \/ \E s \in Submitter: Begin(s) \/ pick_account(s) \/ Create(s)
  \/ Tick

Spec == Init /\ [][Next]_vars
-----------------------------------------------------------------------------
\* The reset read from a message is the one the provider meant, in every form the
\* message can have and at every time of the day and the week.
ResetUnderstood == \A e \in events: e.reset = e.back

\* Where the policy gives a choice, a run goes to an account that could not serve
\* when the pauses were read only if no candidate could, and then to the one that
\* is back first: a weekly limit met days ago is still known.
PickCanServe ==
  \A s \in Submitter: sub[s].pc = "create" /\ Cardinality(DOMAIN sub[s].cand) > 1 =>
    LET cand == Accounts(sub[s].cand)
        down == {d \in sub[s].down: d.account \in cand}
    IN sub[s].account \in Named(down) =>
         cand = Named(down) /\ \A a \in cand: ResetOf(down)[sub[s].account] <= ResetOf(down)[a]
=============================================================================
