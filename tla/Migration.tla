----------------------------- MODULE Migration -----------------------------
(***************************************************************************)
(* shreni migrate (cli/migrate.ts, policy/migrate/kshetra.ts): a manifest    *)
(* saves every file the clean-up will touch; a dump; the import, one         *)
(* transaction; the manifest records where the project then stood; the       *)
(* repository is cleaned up, the config last.  A run may be killed anywhere  *)
(* and started again, and --undo puts everything back until someone has      *)
(* worked on the engine.  One migration runs at a time.                      *)
(***************************************************************************)
EXTENDS Naturals

CONSTANTS
  File,          \* what the clean-up rewrites before the config: link, .gitignore, instructions
  MaxRuns,       \* bound: commands run
  MaxWork,       \* bound: writes to the project
  None

VARIABLES
  file,          \* each file: "beads" or "engine"
  config,        \* the config: None, or the project it names
  project,       \* the projects in the database: id -> events written
  manifest,      \* None, or [id, files, through]
  pc, mine,      \* the command that runs, and the manifest it holds
  looked,        \* what undo saw of the project's events
  runs,
  late           \* someone wrote between undo's look and its purge

vars == <<file, config, project, manifest, pc, mine, looked, runs, late>>

Ids == 1..MaxRuns
Files == File \cup {"config"}
\* The config as a file.
Now(f) == IF f = "config" THEN (IF config = None THEN "beads" ELSE "engine") ELSE file[f]
Exists(i) == i \in DOMAIN project

TypeOK ==
  /\ file \in [File -> {"beads", "engine"}] /\ config \in Ids \cup {None}
  /\ DOMAIN project \subseteq Ids /\ \A i \in DOMAIN project : project[i] \in 0..MaxWork
  /\ \A m \in {manifest, mine} \ {None} :
       m.id \in Ids /\ m.files \in [Files -> {"beads", "engine"}] /\ m.through \in 0..MaxWork \cup {None}
  /\ pc \in {"idle", "save", "import", "record", "clean", "config", "purge", "restore", "forget"}

Init ==
  /\ file = [f \in File |-> "beads"] /\ config = None /\ project = <<>> /\ manifest = None
  /\ pc = "idle" /\ mine = None /\ looked = None /\ runs = 0 /\ late = FALSE

db == <<project, late>>
repo == <<file, config>>

----------------------------------------------------------------------------
\* migrateOffBeads begins: a config that names another project is on the engine, and only
\* the clean-up may be left; an import that is gone is refused; a manifest whose import was
\* never recorded is recorded now.
Resumes == manifest # None /\ Exists(manifest.id)
RecordsAgain(m) == TRUE
Unrecorded(m) == m.through = None
Migrate ==
  /\ pc = "idle" /\ runs < MaxRuns /\ runs' = runs + 1
  /\ \/ /\ config # None /\ (manifest = None \/ manifest.id # config)
        /\ Exists(config) /\ pc' = "clean"
        /\ mine' = [id |-> config, files |-> [f \in Files |-> Now(f)], through |-> 0]
     \/ /\ config = None \/ (manifest # None /\ manifest.id = config)
        /\ ~(manifest # None /\ ~Exists(manifest.id) /\ manifest.through # None)
        /\ mine' = manifest
        /\ pc' = IF ~Resumes THEN "save" ELSE IF Unrecorded(manifest) THEN "record" ELSE "clean"
  /\ UNCHANGED <<repo, db, manifest, looked>>

\* The dry run fails or the person says no; or everything is saved, unless a run before
\* this one saved it, and its id is kept.
WrittenLater(m) == manifest
Written(m) == m
Save ==
  /\ pc = "save"
  /\ \/ pc' = "idle" /\ UNCHANGED <<manifest, mine>>
     \/ /\ pc' = "import"
        /\ mine' = IF mine # None THEN mine
                   ELSE [id |-> runs, files |-> [f \in Files |-> Now(f)], through |-> None]
        /\ manifest' = Written(mine')
  /\ UNCHANGED <<repo, db, looked, runs>>

\* The dump, and the import in one transaction; either may fail.
Import ==
  /\ pc = "import"
  /\ \/ pc' = "idle" /\ UNCHANGED project
     \/ /\ pc' = "record"
        /\ project' = [i \in DOMAIN project \cup {mine.id} |-> IF i = mine.id THEN 0 ELSE project[i]]
  /\ UNCHANGED <<repo, late, manifest, mine, looked, runs>>

Record ==
  /\ pc = "record" /\ pc' = "clean"
  /\ mine' = [mine EXCEPT !.through = project[mine.id]] /\ manifest' = mine'
  /\ UNCHANGED <<repo, db, looked, runs>>

\* cleanUp: each step a no-op once done, and the config last.
FilesDone == \A f \in File : file[f] = "engine"
Clean ==
  /\ pc = "clean"
  /\ \E f \in File : file[f] = "beads" /\ file' = [file EXCEPT ![f] = "engine"]
  /\ UNCHANGED <<config, db, manifest, pc, mine, looked, runs>>
NameProject ==
  /\ pc = "clean" /\ FilesDone
  /\ config' = mine.id /\ pc' = "idle"
  /\ UNCHANGED <<file, db, manifest, mine, looked, runs>>

----------------------------------------------------------------------------
\* undoMigration: refused once the project has changed since the import was recorded.
GoneIsDone == "forget"
IfGone == "restore"
Untouched == manifest.through # None /\ project[manifest.id] = manifest.through
Undo ==
  /\ pc = "idle" /\ runs < MaxRuns /\ runs' = runs + 1 /\ manifest # None
  /\ mine' = manifest
  /\ pc' = IF ~Exists(manifest.id) THEN IfGone ELSE IF Untouched THEN "purge" ELSE "idle"
  /\ looked' = IF Exists(manifest.id) THEN project[manifest.id] ELSE None
  /\ late' = FALSE
  /\ UNCHANGED <<repo, project, manifest>>

Purge ==
  /\ pc = "purge" /\ pc' = "restore"
  /\ project' = [i \in DOMAIN project \ {mine.id} |-> project[i]]
  /\ UNCHANGED <<repo, late, manifest, mine, looked, runs>>

Restore ==
  /\ pc = "restore"
  /\ \/ \E f \in File : file[f] # mine.files[f] /\ file' = [file EXCEPT ![f] = mine.files[f]]
                        /\ UNCHANGED <<config, pc>>
     \/ Now("config") # mine.files["config"] /\ config' = None /\ UNCHANGED <<file, pc>>
     \/ (\A f \in Files : Now(f) = mine.files[f]) /\ pc' = "forget" /\ UNCHANGED repo
  /\ UNCHANGED <<db, manifest, mine, looked, runs>>

Forget ==
  /\ pc = "forget" /\ pc' = "idle" /\ manifest' = None
  /\ UNCHANGED <<repo, db, mine, looked, runs>>

\* A command is killed.
Crash ==
  /\ pc # "idle" /\ pc' = "idle" /\ UNCHANGED <<repo, db, manifest, mine, looked, runs>>

\* A worker or a person writes to the project the config names.  No worker runs while a
\* migration does, but a person's command may.
Work ==
  /\ config # None /\ Exists(config) /\ project[config] < MaxWork
  /\ project' = [project EXCEPT ![config] = @ + 1]
  /\ late' = (late \/ (pc = "purge" /\ config = mine.id))
  /\ UNCHANGED <<repo, manifest, pc, mine, looked, runs>>

Next == Migrate \/ Save \/ Import \/ Record \/ Clean \/ NameProject \/ Undo \/ Purge \/ Restore
        \/ Forget \/ Crash \/ Work
Spec == Init /\ [][Next]_vars

----------------------------------------------------------------------------
\* However often it was killed and begun again, a migration has one project: everything in
\* the database is what the manifest or the config names.
OneProject == \A i, j \in DOMAIN project : i = j

\* An undo that ends has put the repository back as it was before the first run: on beads,
\* each file as it was, and no project left behind.
UndoneExactly ==
  [][pc = "forget" /\ pc' = "idle" /\ manifest' = None
       => config = None /\ (\A f \in File : file[f] = "beads") /\ DOMAIN project = {}]_vars

\* Work done on the engine is never undone, unless it was written as undo looked: the
\* config names the project after the import was recorded, so nothing runs in between.
WorkKept ==
  [][\A i \in DOMAIN project : i \notin DOMAIN project' => project[i] = 0 \/ late]_vars

=============================================================================
