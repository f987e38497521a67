---------------------------- MODULE InfraChecks ----------------------------
(***************************************************************************)
(* The checks the monitor makes after each sweep (monitor.py, main) and the *)
(* alert and recover pair that tells the operator (telemetry/notifier.py):  *)
(* an alert file per check, whose age throttles the alerts, and a message   *)
(* that may be lost.  One tick of the clock passes between two rounds; ages *)
(* stop counting at the largest bound they are compared with.               *)
(***************************************************************************)
EXTENDS Integers

CONSTANTS
  Deployments,  \* the checks that may be switched on: VISION_LOCAL_URL, MONITOR_BACKUP_DIR
  Throttle,     \* check -> throttle_min, in ticks
  StuckAfter,   \* _QUEUE_STUCK_MIN
  MaxAge,       \* _BACKUP_MAX_AGE_H
  MaxFaults     \* bound: checks that raise and messages that are lost

Check == {"local:vision", "queue:backlog", "backup:stale"}
None == -1

VARIABLES
  deployed, \* the checks that are switched on; the backlog is always checked
  pc,       \* the check that is next, or "sleep"
  service,  \* the local service: "ok", or "failing" (a status, or no answer)
  oldest,   \* age of the oldest unfinished job
  backup,   \* age of the newest dump and of the newest directory; what can be read
  file,     \* check -> age of its alert file
  news,     \* check -> the last message: its word, its age, and the last word heard
  faults

vars == <<deployed, pc, service, oldest, backup, file, news, faults>>
world == <<service, oldest, backup>>
notifier == <<file, news>>

Init ==
  /\ deployed \in Deployments
  /\ pc = "sleep" /\ service = "ok" /\ oldest = None
  /\ backup = [dump |-> 0, child |-> 0, read |-> "all"]
  /\ file = [c \in Check |-> None]
  /\ news = [c \in Check |-> [word |-> "none", age |-> 0, heard |-> "none"]]
  /\ faults = 0

-----------------------------------------------------------------------------
(* The notifier                                                             *)

\* The post is tried once and its failure swallowed.
_post(c, word) ==
  \/ /\ news' = [news EXCEPT ![c] = [word |-> word, age |-> 0, heard |-> word]]
     /\ UNCHANGED faults
  \/ /\ faults < MaxFaults /\ faults' = faults + 1
     /\ news' = [news EXCEPT ![c] = [word |-> word, age |-> 0, heard |-> @.heard]]

alert_touchFirst(c) ==
  /\ file' = [file EXCEPT ![c] = 0]
  /\ \/ file[c] # None /\ file[c] < Throttle[c] /\ UNCHANGED <<news, faults>>
     \/ (file[c] = None \/ file[c] >= Throttle[c]) /\ _post(c, "alert")

alert_unthrottled(c) ==
  /\ file' = [file EXCEPT ![c] = 0]
  /\ _post(c, "alert")

alert(c) ==
  \/ /\ file[c] # None /\ file[c] < Throttle[c]
     /\ UNCHANGED <<file, news, faults>>
  \/ /\ file[c] = None \/ file[c] >= Throttle[c]
     /\ file' = [file EXCEPT ![c] = 0]
     /\ _post(c, "alert")

recover_keepsFile(c) ==
  \/ file[c] = None /\ UNCHANGED <<file, news, faults>>
  \/ file[c] # None /\ UNCHANGED file /\ _post(c, "recovered")

recover(c) ==
  \/ file[c] = None /\ UNCHANGED <<file, news, faults>>
  \/ file[c] # None /\ file' = [file EXCEPT ![c] = None] /\ _post(c, "recovered")

-----------------------------------------------------------------------------
(* The checks                                                               *)

check_local_services ==
  \/ "local:vision" \notin deployed /\ UNCHANGED <<notifier, faults>>
  \/ /\ "local:vision" \in deployed
     /\ IF service = "ok" THEN recover("local:vision") ELSE alert("local:vision")

check_queue_backlog ==
  IF oldest > StuckAfter THEN alert("queue:backlog") ELSE recover("queue:backlog")

\* The newest dump that can be read; if there is none, the newest directory.
_newest_dump_mtime ==
  CASE backup.read = "none" -> None
    [] backup.read = "all" /\ backup.dump # None -> backup.dump
    [] OTHER -> backup.child

backup_is_fresh(age) == age # None /\ age <= MaxAge

check_backup_freshness ==
  \/ "backup:stale" \notin deployed /\ UNCHANGED <<notifier, faults>>
  \/ /\ "backup:stale" \in deployed
     /\ IF backup_is_fresh(_newest_dump_mtime) THEN recover("backup:stale") ELSE alert("backup:stale")

RunCheck(c) ==
  CASE c = "local:vision"  -> check_local_services
    [] c = "queue:backlog" -> check_queue_backlog
    [] c = "backup:stale"  -> check_backup_freshness

After(c) ==
  CASE c = "local:vision"  -> "queue:backlog"
    [] c = "queue:backlog" -> "backup:stale"
    [] c = "backup:stale"  -> "sleep"

\* One round; a check that raises is logged and the next one made.
MakeCheck(c) ==
  /\ pc = c /\ pc' = After(c)
  /\ \/ RunCheck(c)
     \/ faults < MaxFaults /\ faults' = faults + 1 /\ UNCHANGED notifier
  /\ UNCHANGED <<deployed, world>>

Older(age, bound) == IF age = None \/ age > bound THEN age ELSE age + 1

\* asyncio.sleep(INTERVAL_S), and the next sweep.
Sleep ==
  /\ pc = "sleep" /\ pc' = "local:vision"
  /\ oldest' = Older(oldest, StuckAfter)
  /\ backup' = IF "backup:stale" \in deployed
               THEN [backup EXCEPT !.dump = Older(@, MaxAge), !.child = Older(@, MaxAge)] ELSE backup
  /\ file' = [c \in Check |-> Older(file[c], Throttle[c])]
  /\ news' = [c \in Check |-> [news[c] EXCEPT !.age = Older(@, Throttle[c])]]
  /\ UNCHANGED <<deployed, service, faults>>

-----------------------------------------------------------------------------
(* What is checked                                                          *)

ServiceChanges ==
  /\ "local:vision" \in deployed
  /\ service' \in {"ok", "failing"} \ {service}
  /\ UNCHANGED <<deployed, pc, oldest, backup, notifier, faults>>

\* A job is submitted to an empty queue, or the oldest one ends.
QueueChanges ==
  /\ oldest' = IF oldest = None THEN 0 ELSE None
  /\ UNCHANGED <<deployed, pc, service, backup, notifier, faults>>

\* The nightly script makes a directory and, unless it fails, a dump in it; it also
\* removes old dumps; the rights on the directories may change.
BackupChanges ==
  /\ "backup:stale" \in deployed
  /\ backup' \in {[backup EXCEPT !.dump = 0, !.child = 0], [backup EXCEPT !.child = 0],
                  [backup EXCEPT !.dump = None]}
               \cup {[backup EXCEPT !.read = r]: r \in {"all", "root", "none"}}
  /\ backup' # backup
  /\ UNCHANGED <<deployed, pc, service, oldest, notifier, faults>>

Next ==
  \/ \E c \in Check: MakeCheck(c)
  \/ Sleep
  \/ ServiceChanges \/ QueueChanges \/ BackupChanges

Round == Sleep \/ \E c \in Check: MakeCheck(c)

\* main() goes round for ever: every check has a timeout or ends with an error.
Fairness == WF_vars(Round)

Spec == Init /\ [][Next]_vars /\ Fairness
-----------------------------------------------------------------------------
On == deployed \cup {"queue:backlog"}

Bad(c) ==
  CASE c = "local:vision"  -> service # "ok"
    [] c = "queue:backlog" -> oldest > StuckAfter
    [] c = "backup:stale"  -> backup.child > MaxAge

Fine(c) ==
  CASE c = "local:vision"  -> service = "ok"
    [] c = "queue:backlog" -> oldest <= StuckAfter
    [] c = "backup:stale"  -> backup.read = "all" /\ backup.dump \in 0..MaxAge

\* An outage that lasts reaches the operator even when the first messages about it
\* are lost and other checks raise: the file a lost message leaves behind only
\* delays the next one.
OutageAnnounced == \A c \in Check: <>[](c \in On /\ Bad(c)) => <>[](news[c].heard = "alert")

\* A check that stays good leaves no alert file, so the next outage is announced at once.
AlertCleared == \A c \in Check: <>[]Fine(c) => <>[](file[c] = None)

SpacedStep ==
  \A c \in Check:
    news[c].word = "alert" /\ news'[c].word = "alert" /\ news'[c].age < news[c].age
      => news[c].age >= Throttle[c]

\* Two alerts of a check without a recovery between them are a throttle apart.
AlertsSpaced == [][SpacedStep]_vars
=============================================================================
