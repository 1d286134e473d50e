----------------------------- MODULE Initialise -----------------------------
(***************************************************************************)
(* shreni init (cli/init.ts, cli/init-kshetra.ts): it sets a repository up   *)
(* as a Kshetra, which workers work, or as a tracker, which none may, and   *)
(* turns one into the other.  It runs in phases and may stop in any of them  *)
(* and be run again, in either mode, while workers are started and stopped.  *)
(* A stop between two phases is a crash or a phase that failed.              *)
(***************************************************************************)
EXTENDS Naturals, Sequences

CONSTANTS
  MaxRuns,       \* bound: runs of init
  None

VARIABLES
  app,           \* the app repo: none, created at GitHub, wired as origin, pushed
  beads,         \* the repo holds a beads export with issues
  kshetra,       \* .shreni/kshetra.yaml: None, or the project it names
  tracker,       \* .shreni/tracker.yaml, likewise
  registered,    \* the Kshetra is in ~/.shreni/registry.json
  modeOf,        \* the projects in the database, each with its mode
  worker,        \* a worker runs
  slipped,       \* a worker was started between a switch's look for one and its first write
  run,           \* the init under way: its phase and what it read when it began
  runs

vars == <<app, beads, kshetra, tracker, registered, modeOf, worker, slipped, run, runs>>

Unnamed == 0     \* a config that names no project yet
Project == 1..MaxRuns
Mode == {"kshetra", "tracker"}
File(f) == f \in {None, Unnamed} \cup Project
Idle == [at |-> "idle", mode |-> "kshetra", had |-> FALSE, other |-> FALSE, id |-> Unnamed]

ProjectIn(f) == IF f = None THEN Unnamed ELSE f
Or(a, b) == IF a # Unnamed THEN a ELSE b
KeptOwn(m) == IF m = "kshetra" THEN ProjectIn(kshetra) ELSE ProjectIn(tracker)
\* The project a run goes on with: its own file's, else the one of the file it replaces.
Kept(m) == IF m = "kshetra" THEN Or(ProjectIn(kshetra), ProjectIn(tracker))
                            ELSE Or(ProjectIn(tracker), ProjectIn(kshetra))

Init ==
  /\ app \in {"none", "pushed"} /\ beads \in BOOLEAN
  /\ kshetra = None /\ tracker = None /\ registered = FALSE /\ modeOf = <<>>
  /\ worker = FALSE /\ slipped = FALSE /\ run = Idle /\ runs = 0

Go(phase) == run' = [run EXCEPT !.at = phase]
At(phase) == run.at = phase
repo == <<app, beads>>
files == <<kshetra, tracker>>
work == <<worker, slipped>>

----------------------------------------------------------------------------
\* A Kshetra still on beads is migrate's to move; a switch to tracker waits for the worker.
Refused(m) ==
  \/ m = "kshetra" /\ kshetra = Unnamed /\ beads
  \/ m = "tracker" /\ kshetra # None /\ worker

Begin(m) ==
  /\ At("idle") /\ runs < MaxRuns /\ ~Refused(m)
  /\ runs' = runs + 1
  /\ run' = [at |-> IF m = "kshetra" THEN "app" ELSE "database", mode |-> m, id |-> Kept(m),
             had |-> (IF m = "kshetra" THEN kshetra ELSE tracker) # None,
             other |-> (IF m = "kshetra" THEN tracker ELSE kshetra) # None]
  /\ UNCHANGED <<repo, files, registered, modeOf, work>>

\* ensureAppRepo: an origin that is wired is taken as it is; a kept config must find one.
AppNext == CASE app = "none" -> "created" [] app = "created" -> "wired" [] app = "wired" -> "pushed"
Wired == app \in {"wired", "pushed"}
EnsureAppRepo ==
  /\ At("app")
  /\ \/ Wired /\ Go("database") /\ UNCHANGED app
     \/ ~Wired /\ ~run.had /\ app' = AppNext /\ Go(IF AppNext = "wired" THEN "push" ELSE "app")
  /\ UNCHANGED <<beads, files, registered, modeOf, work, runs>>
Push ==
  /\ At("push") /\ app' = AppNext /\ Go("database")
  /\ UNCHANGED <<beads, files, registered, modeOf, work, runs>>

\* engine.database: the entry, the check, the migrations.
Database ==
  /\ At("database") /\ Go("config")
  /\ UNCHANGED <<repo, files, registered, modeOf, work, runs>>

\* A config that is there keeps its settings; a new one gets the project init goes on with.
Config ==
  /\ At("config") /\ Go("project")
  /\ IF run.mode = "kshetra"
     THEN kshetra' = (IF run.had THEN kshetra ELSE run.id) /\ UNCHANGED tracker
     ELSE tracker' = (IF tracker = None THEN run.id ELSE tracker) /\ UNCHANGED kshetra
  /\ UNCHANGED <<repo, registered, modeOf, work, runs>>

\* registerProject: the named project with its mode, or a new one.
RegisterProject(id) == modeOf' = [p \in DOMAIN modeOf \cup {id} |-> IF p = id THEN run.mode ELSE modeOf[p]]
\* A new project has the number of the run that makes it.
Fresh == runs
\* The import of a tracker's beads names the project itself.
EngineProject ==
  /\ At("project")
  /\ \E id \in {IF run.id # Unnamed THEN run.id ELSE Fresh} :
       /\ RegisterProject(id)
       /\ run' = [run EXCEPT !.at = "record", !.id = id]
       /\ tracker' = IF run.mode = "tracker" /\ run.id = Unnamed /\ beads THEN id ELSE tracker
  /\ UNCHANGED <<repo, kshetra, registered, work, runs>>
\* Kshetra to tracker: it leaves the registry, then its file is moved aside.
RenamedFirst == <<"rename", "unregister">>
LeaveOrder == <<"unregister", "rename">>
AfterLeave(step) == IF step = LeaveOrder[1] THEN LeaveOrder[2] ELSE "done"

RecordProjectId ==
  /\ At("record")
  /\ IF run.mode = "kshetra" THEN kshetra' = run.id /\ UNCHANGED tracker
                             ELSE tracker' = run.id /\ UNCHANGED kshetra
  /\ Go(IF run.mode = "kshetra" THEN "remove" ELSE LeaveOrder[1])
  /\ UNCHANGED <<repo, registered, modeOf, work, runs>>

\* Tracker to Kshetra: the tracker's file goes, then the Kshetra is registered.
RemoveTracker ==
  /\ At("remove") /\ Go("register")
  /\ tracker' = IF run.other THEN None ELSE tracker
  /\ UNCHANGED <<repo, kshetra, registered, modeOf, work, runs>>
Register ==
  /\ At("register") /\ registered' = TRUE /\ Go("done")
  /\ UNCHANGED <<repo, files, modeOf, work, runs>>

Unregister ==
  /\ At("unregister")
  /\ registered' = (registered /\ ~run.other) /\ Go(AfterLeave("unregister"))
  /\ UNCHANGED <<repo, files, modeOf, work, runs>>
Rename ==
  /\ At("rename") /\ Go(AfterLeave("rename"))
  /\ kshetra' = IF run.other THEN None ELSE kshetra
  /\ UNCHANGED <<repo, tracker, registered, modeOf, work, runs>>

\* A phase fails, the process dies, or the run that was done is over.
Stop == ~At("idle") /\ run' = Idle /\ UNCHANGED <<repo, files, registered, modeOf, work, runs>>

StartAnyway == FALSE
\* shreni start works what is registered, has a config and no tracker.yaml.
StartRefusal == tracker # None
StartWorker ==
  /\ ~worker /\ registered /\ kshetra # None /\ ~StartRefusal
  /\ worker' = TRUE
  /\ slipped' = (run.mode = "tracker" /\ run.at \in {"database", "config"})
  /\ UNCHANGED <<repo, files, registered, modeOf, run, runs>>
StopWorker ==
  /\ worker /\ worker' = FALSE /\ slipped' = FALSE
  /\ UNCHANGED <<repo, files, registered, modeOf, run, runs>>

Next ==
  \/ \E m \in Mode : Begin(m)
  \/ EnsureAppRepo \/ Push \/ Database \/ Config \/ EngineProject \/ RecordProjectId
  \/ RemoveTracker \/ Register \/ Unregister \/ Rename \/ Stop \/ StartWorker \/ StopWorker
Spec == Init /\ [][Next]_vars

----------------------------------------------------------------------------
TypeOK ==
  /\ app \in {"none", "created", "wired", "pushed"} /\ beads \in BOOLEAN
  /\ File(kshetra) /\ File(tracker)
  /\ registered \in BOOLEAN /\ worker \in BOOLEAN /\ slipped \in BOOLEAN
  /\ DOMAIN modeOf \subseteq Project /\ \A p \in DOMAIN modeOf : modeOf[p] \in Mode
  /\ run.id \in {Unnamed} \cup Project /\ run.mode \in Mode /\ runs \in 0..MaxRuns

\* The projects the repo's files name.
Named == {kshetra, tracker} \cap Project

\* The repo has one project, and once a file names it no later run of init loses it or names
\* another: through switches of mode, stopped anywhere and begun again in either mode, which
\* pass the project from file to file.
OneProjectKept == [][Named \subseteq Named' /\ (\A p, q \in Named' : p = q)]_vars

\* When init says it is done the repo is one kind of project, in its files, in the registry and
\* in the database, whatever earlier runs that stopped part way left behind.
OneKind ==
  At("done") =>
    /\ run.mode = "kshetra" => registered /\ tracker = None /\ kshetra \in Project
    /\ run.mode = "tracker" => ~registered /\ kshetra = None /\ tracker \in Project
    /\ modeOf[ProjectIn(IF run.mode = "kshetra" THEN kshetra ELSE tracker)] = run.mode

\* No worker works a repo that holds a tracker.yaml, a switch left part way included, but one
\* started between the switch's look for a running worker and its first write.
TrackerUnworked == worker /\ tracker # None => slipped

=============================================================================
