------------------------------ MODULE Projects ------------------------------
(***************************************************************************)
(* The projects table: public sign-up (services/signup.py), the owner's      *)
(* forms (routes/dashboard.py, routes/admin.py, scripts/bootstrap.py) and    *)
(* the key check of every request (auth.py).  A form loads the row, and at   *)
(* the end of its session writes only the columns it changed; requests count *)
(* against the same row meanwhile.  Two workers sign up at once.             *)
(***************************************************************************)
EXTENDS Integers, FiniteSets

CONSTANTS
  Worker,         \* concurrent sign-ups
  Tab,            \* concurrent owner forms
  Name, Slug,     \* project names; the one every sign-up and form asks for
  Ip,
  PerDay, PerIp,  \* SIGNUP_PER_DAY, SIGNUP_PER_IP_PER_DAY
  SignupCap,      \* SIGNUP_REQUEST_CAP
  NameRetries,    \* _NAME_RETRIES
  MaxId,          \* bound: project rows
  MaxTokens,      \* bound: keys generated before the last sign-up begins
  MaxForms        \* bound: owner forms opened

VARIABLES
  row,       \* projects: id -> row, for the ids that are in the table
  ids,       \* ids given out (the sequence never returns one twice)
  tokens,    \* project keys generated so far: 1..tokens
  jobs,      \* ids of the projects that have a job row
  signup,    \* per worker
  form,      \* per tab
  forms,     \* forms opened so far
  client     \* one request, with the project row it was authenticated as

vars == <<row, ids, tokens, jobs, signup, form, forms, client>>

Unlimited == -1
NoName == "noname"
Idle == [pc |-> "idle", ip |-> NoName, name |-> NoName, tries |-> 0, token |-> 0, id |-> 0]
NoForm == [pc |-> "idle", kind |-> NoName, id |-> 0, name |-> NoName, cap |-> Unlimited, set |-> {}, old |-> {}]
NoClient == [pc |-> "idle", id |-> 0, capped |-> FALSE]

Init ==
  /\ row = <<>> /\ ids = 0 /\ tokens = 0 /\ jobs = {}
  /\ signup = [w \in Worker |-> Idle]
  /\ form = [t \in Tab |-> NoForm] /\ forms = 0
  /\ client = NoClient

Names == {row[i].name: i \in DOMAIN row}

\* The unique index on the name decides; the id is used up either way.
Inserted(r) ==
  /\ ids < MaxId
  /\ ids' = ids + 1
  /\ row' = [i \in DOMAIN row \cup {ids + 1} |-> IF i = ids + 1 THEN r ELSE row[i]]

NewRow(name, token, cap, ip) ==
  [name |-> name, token |-> token, cap |-> cap, used |-> 0, ip |-> ip, recent |-> TRUE]

-----------------------------------------------------------------------------
(* self_signup                                                              *)

Begin(w) ==
  /\ signup[w].pc \in {"idle", "done"} /\ tokens < MaxTokens
  /\ \E ip \in Ip: signup' = [signup EXCEPT ![w] = [Idle EXCEPT !.pc = "count", !.ip = ip]]
  /\ UNCHANGED <<row, ids, tokens, jobs, form, forms, client>>

Recent == {i \in DOMAIN row: row[i].ip # NoName /\ row[i].recent}

From(ip) == {i \in Recent: row[i].ip = ip}

OverLimit_offByOne(ip) == Cardinality(Recent) > PerDay \/ Cardinality(From(ip)) > PerIp
OverLimit(ip) == Cardinality(Recent) >= PerDay \/ Cardinality(From(ip)) >= PerIp

\* The counts, in a session of their own; then the key is generated.
_check_limits(w) ==
  /\ signup[w].pc = "count"
  /\ IF OverLimit(signup[w].ip)
     THEN /\ signup' = [signup EXCEPT ![w] = [Idle EXCEPT !.pc = "refused"]]
          /\ UNCHANGED tokens
     ELSE /\ tokens' = tokens + 1
          /\ signup' = [signup EXCEPT ![w] = [@ EXCEPT !.pc = "insert", !.name = Slug, !.token = tokens + 1]]
  /\ UNCHANGED <<row, ids, jobs, form, forms, client>>

Renamed(s, n) ==
  IF s.tries + 1 = NameRetries THEN [Idle EXCEPT !.pc = "refused"]
  ELSE [s EXCEPT !.name = n, !.tries = s.tries + 1]

\* One try: the row, or a clash and another name, at most NameRetries of them.
_insert_unique_adopts(w) ==
  /\ signup[w].pc = "insert"
  /\ IF signup[w].name \notin Names
     THEN /\ Inserted(NewRow(signup[w].name, signup[w].token, SignupCap, signup[w].ip))
          /\ signup' = [signup EXCEPT ![w] = [@ EXCEPT !.pc = "done", !.id = ids + 1]]
     ELSE /\ signup' = [signup EXCEPT ![w] = [@ EXCEPT !.pc = "done",
                          !.id = CHOOSE i \in DOMAIN row: row[i].name = signup[w].name]]
          /\ UNCHANGED <<row, ids>>
  /\ UNCHANGED <<tokens, jobs, form, forms, client>>
_insert_unique(w) ==
  /\ signup[w].pc = "insert"
  /\ \/ /\ signup[w].name \notin Names
        /\ Inserted(NewRow(signup[w].name, signup[w].token, SignupCap, signup[w].ip))
        /\ signup' = [signup EXCEPT ![w] = [signup[w] EXCEPT !.pc = "done", !.id = ids + 1]]
     \/ /\ signup[w].name \in Names
        /\ \E n \in Name: signup' = [signup EXCEPT ![w] = Renamed(signup[w], n)]
        /\ UNCHANGED <<row, ids>>
  /\ UNCHANGED <<tokens, jobs, form, forms, client>>

\* A day passes for the sign-ups there are.
Day ==
  /\ Recent # {}
  /\ row' = [i \in DOMAIN row |-> [row[i] EXCEPT !.recent = FALSE]]
  /\ UNCHANGED <<ids, tokens, jobs, signup, form, forms, client>>

-----------------------------------------------------------------------------
(* The owner's forms                                                        *)

\* POST /dashboard/projects/create, POST /admin/projects, bootstrap's first run.
CreateProject ==
  /\ forms < MaxForms /\ forms' = forms + 1
  /\ Slug \notin Names /\ Inserted(NewRow(Slug, tokens + 1, Unlimited, NoName))
  /\ tokens' = tokens + 1
  /\ UNCHANGED <<jobs, signup, form, client>>

\* s.get: the row as it is now, and the columns the form sets to something else.
Opened(i, kind, n, present, cap) ==
  [NoForm EXCEPT !.pc = "flush", !.kind = kind, !.id = i, !.name = n, !.cap = cap, !.old = {row[i]},
                 !.set = {f \in {"name", "cap"}: \/ f = "name" /\ n # row[i].name
                                                 \/ f = "cap" /\ present /\ cap # row[i].cap}]

Load(t, kind) ==
  /\ form[t].pc = "idle" /\ forms < MaxForms /\ forms' = forms + 1
  /\ \E i \in DOMAIN row, n \in Name, present \in BOOLEAN, cap \in {Unlimited, SignupCap}:
       /\ n \in {row[i].name, Slug}
       /\ kind # "edit" => n = row[i].name /\ ~present
       /\ ~present => cap = Unlimited
       /\ form' = [form EXCEPT ![t] = Opened(i, kind, n, present, cap)]
  /\ UNCHANGED <<row, ids, tokens, jobs, signup, client>>

\* The columns that differ from what was loaded.
Edited_wholeRow(r, f) ==
  LET old == CHOOSE o \in f.old: TRUE
  IN [old EXCEPT !.name = f.name, !.cap = IF "cap" \in f.set THEN f.cap ELSE @]
Edited(r, f) ==
  [r EXCEPT !.name = IF "name" \in f.set THEN f.name ELSE @,
            !.cap = IF "cap" \in f.set THEN f.cap ELSE @]

Clash(f) == "name" \in f.set /\ \E i \in DOMAIN row \ {f.id}: row[i].name = f.name

dash_edit_project(t) ==
  /\ form[t].pc = "flush" /\ form[t].kind = "edit"
  /\ IF form[t].id \in DOMAIN row /\ ~Clash(form[t])
     THEN row' = [row EXCEPT ![form[t].id] = Edited(@, form[t])]
     ELSE UNCHANGED row
  /\ form' = [form EXCEPT ![t] = NoForm]
  /\ UNCHANGED <<ids, tokens, jobs, signup, forms, client>>

dash_rotate_project_token(t) ==
  /\ form[t].pc = "flush" /\ form[t].kind = "rotate"
  /\ tokens' = tokens + 1
  /\ row' = IF form[t].id \in DOMAIN row
            THEN [row EXCEPT ![form[t].id].token = tokens + 1] ELSE row
  /\ form' = [form EXCEPT ![t] = NoForm]
  /\ UNCHANGED <<ids, jobs, signup, forms, client>>

\* The job rows go with the project (ON DELETE CASCADE).
Cascade_none(i) == jobs
Cascade(i) == jobs \ {i}

dash_delete_project(t) ==
  /\ form[t].pc = "flush" /\ form[t].kind = "delete"
  /\ row' = [i \in DOMAIN row \ {form[t].id} |-> row[i]]
  /\ jobs' = Cascade(form[t].id)
  /\ form' = [form EXCEPT ![t] = NoForm]
  /\ UNCHANGED <<ids, tokens, signup, forms, client>>

-----------------------------------------------------------------------------
(* A client                                                                 *)

require_project ==
  /\ client.pc = "idle"
  /\ \E k \in 1..tokens, i \in DOMAIN row:
       row[i].token = k /\ client' = [pc |-> "in", id |-> i, capped |-> row[i].cap # Unlimited]
  /\ UNCHANGED <<row, ids, tokens, jobs, signup, form, forms>>

Allowed(i) == row[i].cap = Unlimited \/ row[i].used < row[i].cap

\* admit_request: nothing to do for a project that was uncapped when the key was
\* checked; else one UPDATE on the live row, which refuses only a cap that is
\* still there and spent: a project deleted since is let through.
Admit ==
  /\ client.pc = "in"
  /\ LET counted == client.capped /\ client.id \in DOMAIN row /\ Allowed(client.id)
         refused == client.capped /\ client.id \in DOMAIN row /\ ~Allowed(client.id)
     IN /\ row' = IF counted
                  THEN [row EXCEPT ![client.id].used = IF @ < SignupCap THEN @ + 1 ELSE @]
                  ELSE row
        /\ client' = IF refused THEN NoClient ELSE [client EXCEPT !.pc = "admitted", !.capped = FALSE]
  /\ UNCHANGED <<ids, tokens, jobs, signup, form, forms>>

\* The insert of the job; the foreign key refuses a project that is gone.
Submit ==
  /\ client.pc = "admitted"
  /\ jobs' = IF client.id \in DOMAIN row THEN jobs \cup {client.id} ELSE jobs
  /\ client' = NoClient
  /\ UNCHANGED <<row, ids, tokens, signup, form, forms>>

Next ==
  \/ \E w \in Worker: Begin(w) \/ _check_limits(w) \/ _insert_unique(w)
  \/ Day \/ CreateProject
  \/ \E t \in Tab, kind \in {"edit", "rotate", "delete"}: Load(t, kind)
  \/ \E t \in Tab: dash_edit_project(t) \/ dash_rotate_project_token(t) \/ dash_delete_project(t)
  \/ require_project \/ Admit \/ Submit

Spec == Init /\ [][Next]_vars
-----------------------------------------------------------------------------
KeyReplaced ==
  \A i \in DOMAIN row \cap DOMAIN row': row'[i].token # row[i].token => row'[i].token > tokens

\* A key that was rotated out never comes back: a row's key only ever changes to
\* a newly generated one, whatever form was open while it was rotated.
RotationSticks == [][KeyReplaced]_vars

CountGrows ==
  \A i \in DOMAIN row \cap DOMAIN row': row'[i].used >= row[i].used

\* No form takes back requests that were counted while it was open.
CountKept == [][CountGrows]_vars

\* Count-then-insert overshoots the daily limits by no more than the other
\* sign-ups in flight.
SignupOvershoot ==
  /\ Cardinality(Recent) <= PerDay + Cardinality(Worker) - 1
  /\ \A ip \in Ip: Cardinality(From(ip)) <= PerIp + Cardinality(Worker) - 1

\* A sign-up is answered with a project of its own: no two sign-ups, and no
\* sign-up and an owner's project, share one, whatever names they raced for.
SignupOwnsItsProject ==
  \A w \in Worker: signup[w].pc = "done" =>
    /\ signup[w].id \in DOMAIN row => row[signup[w].id].ip = signup[w].ip
    /\ \A v \in Worker \ {w}: signup[v].pc = "done" => signup[v].id # signup[w].id

\* A deleted project leaves no job behind, also when a request that was already
\* admitted submits late.
JobsGoWithProject == jobs \subseteq DOMAIN row

\* Sign-ups, owners' forms and deletions keep the table of projects (services/
\* signup.py, routes/dashboard.py, db/models.py).
ProjectsSound == SignupOvershoot /\ SignupOwnsItsProject /\ JobsGoWithProject

\* A form saved late takes nothing back that happened while it was open.
FormsKeep == RotationSticks /\ CountKept
=============================================================================
