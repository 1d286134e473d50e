------------------------------ MODULE Commands ------------------------------
(***************************************************************************)
(* What people do beside the worker, composed: dumps, moving off beads,     *)
(* init, work by hand, planning sessions, snapshots, starting and stopping  *)
(* the worker, reviews of its pull requests, and exports.  They share no    *)
(* state, so a behaviour is of one of them and the others stay as they      *)
(* began.                                                                   *)
(***************************************************************************)
EXTENDS Naturals, FiniteSets

CONSTANTS
  None,
  Dumper, KindOf, Keep, MaxDays,                                          \* dumps
  RepoFile, MaxRuns, MaxWork,                                             \* migration
  MaxInits,                                                               \* init
  Person, HandCheck, MaxAttempts,                                         \* work by hand
  Launcher, Plan, Task,                                                   \* planning sessions
  Location, MaxWrites, MaxSnaps, MaxRestores,                             \* snapshots
  Proc, Cmd,                                                              \* start and stop
  Reviews, MaxRounds, SelfKnown, MaxTime, MaxPushes, MaxLost,             \* follow-up
  Bead, Graphs                                                            \* export

VARIABLES part,
          dumpLock, aside, saw, dpc, name, partial, dumps, clock, failed, gone, ousted, migrated,
          file, config, project, manifest, pc, mine, looked, runs, late,
          app, beads, kshetra, tracker, registered, modeOf, worker, slipped, run, inits,
          state, holder, attempt, checks, seen, passed, landed, cmd, at, forced,
          launcherPid, alive, trees, plan, in, ln,
          cur, own, writes, working, slock, overlap, snaps, freeze, archives, rs, restores, said,
          pidfile, lock, old, os, job, spoiled,
          now, sent, tip, check, pr, task, fat, found, round, local, mark, handed, spent, lost,
          graph, epic, allowed, indegree, remaining, ordered, xpc

dumpsVars == <<dumpLock, aside, saw, dpc, name, partial, dumps, clock, failed, gone, ousted, migrated>>
migrationVars == <<file, config, project, manifest, pc, mine, looked, runs, late>>
initVars == <<app, beads, kshetra, tracker, registered, modeOf, worker, slipped, run, inits>>
byhandVars == <<state, holder, attempt, checks, seen, passed, landed, cmd, at, forced>>
planningVars == <<launcherPid, alive, trees, plan, in, ln>>
snapshotsVars == <<cur, own, writes, working, slock, overlap, snaps, freeze, archives, rs, restores, said>>
ownershipVars == <<pidfile, lock, old, os, job, spoiled>>
followupVars == <<now, sent, tip, check, pr, task, fat, found, round, local, mark, handed, spent, lost>>
exportVars == <<graph, epic, allowed, indegree, remaining, ordered, xpc>>

\* Every dump has one of the reasons in its name, and the days are numbered.
ASSUME DumpAssumption ==
  /\ None \notin Dumper /\ MaxDays \in Nat
  /\ KindOf \in [Dumper -> {"daily", "manual", "pre-migrate"}]

\* Projects are numbered by the runs that made them.
ASSUME ProjectAssumption == None \notin Nat /\ MaxRuns \in Nat /\ MaxWork \in Nat /\ MaxInits \in Nat

\* A manifest that is there is not taken for none.
ASSUME ManifestAssumption ==
  None \notin [id : 1..MaxRuns, files : [RepoFile \cup {"config"} -> {"beads", "engine"}], through : 0..MaxWork \cup {None}]

\* The worker is no person, the config no other file, and the project and the flags are not
\* among the locations that are files.
ASSUME NamesAssumption ==
  /\ None \notin Person \cup {"worker"} /\ "worker" \notin Person /\ MaxAttempts \in Nat
  /\ "config" \notin RepoFile
  /\ None \notin Plan \cup Launcher
  /\ {"project", "flags"} \cap Location = {} /\ MaxWrites \in Nat

\* A command has a process of its own, none of the workers'.
ASSUME ProcessAssumption == Proc \cap Cmd = {} /\ None \notin Proc \cup Cmd

ASSUME FollowupAssumption == MaxRounds \in Nat /\ MaxTime \in Nat \ {0}

\* There is a project to export, of finitely many tasks, each with a priority.
ASSUME ExportAssumption ==
  /\ IsFiniteSet(Bead) /\ Bead \subseteq Nat /\ Graphs # {}
  /\ \A h \in Graphs : h.deps \subseteq Bead \X Bead /\ h.priority \in [Bead -> Nat]

D == INSTANCE Backups WITH Proc <- Dumper, MaxTime <- MaxDays, lock <- dumpLock, pc <- dpc

M == INSTANCE Migration WITH File <- RepoFile

I == INSTANCE Initialise WITH MaxRuns <- MaxInits, runs <- inits

H == INSTANCE ByHand WITH Check <- HandCheck

P == INSTANCE Planning WITH pidfile <- launcherPid

S == INSTANCE Snapshots WITH File <- Location, worker <- working, lock <- slock

O == INSTANCE Ownership

F == INSTANCE Followup WITH at <- fat, seen <- found

E == INSTANCE Export WITH g <- graph, pc <- xpc

\* A part that does not run is at rest in one of its initial states.
Init ==
  /\ part \in {"dumps", "migration", "init", "byhand", "planning", "snapshots", "ownership", "followup", "export"}
  /\ M!Init /\ O!Init /\ F!Init
  /\ D!Init /\ (part # "dumps" => gone = {})
  /\ I!Init /\ (part # "init" => app = "none" /\ ~beads)
  /\ H!Init /\ (part # "byhand" => checks = {})
  /\ P!Init /\ (part # "planning" => \A l \in Launcher : ln[l] = P!Fresh(FALSE))
  /\ S!Init /\ (part # "snapshots" => None \notin {cur[p] : p \in DOMAIN cur})
  /\ IF part = "export" THEN E!Init
     ELSE /\ graph = CHOOSE h \in Graphs : TRUE
          /\ epic = None /\ allowed = FALSE /\ xpc = "build"
          /\ indegree = [b \in Bead |-> 0] /\ remaining = {} /\ ordered = <<>>

Next ==
  /\ UNCHANGED part
  /\ \/ /\ part = "dumps" /\ D!Next
        /\ UNCHANGED <<migrationVars, initVars, byhandVars, planningVars, snapshotsVars, ownershipVars, followupVars, exportVars>>
     \/ /\ part = "migration" /\ M!Next
        /\ UNCHANGED <<dumpsVars, initVars, byhandVars, planningVars, snapshotsVars, ownershipVars, followupVars, exportVars>>
     \/ /\ part = "init" /\ I!Next
        /\ UNCHANGED <<dumpsVars, migrationVars, byhandVars, planningVars, snapshotsVars, ownershipVars, followupVars, exportVars>>
     \/ /\ part = "byhand" /\ H!Next
        /\ UNCHANGED <<dumpsVars, migrationVars, initVars, planningVars, snapshotsVars, ownershipVars, followupVars, exportVars>>
     \/ /\ part = "planning" /\ P!Next
        /\ UNCHANGED <<dumpsVars, migrationVars, initVars, byhandVars, snapshotsVars, ownershipVars, followupVars, exportVars>>
     \/ /\ part = "snapshots" /\ S!Next
        /\ UNCHANGED <<dumpsVars, migrationVars, initVars, byhandVars, planningVars, ownershipVars, followupVars, exportVars>>
     \/ /\ part = "ownership" /\ O!Next
        /\ UNCHANGED <<dumpsVars, migrationVars, initVars, byhandVars, planningVars, snapshotsVars, followupVars, exportVars>>
     \/ /\ part = "followup" /\ F!Next
        /\ UNCHANGED <<dumpsVars, migrationVars, initVars, byhandVars, planningVars, snapshotsVars, ownershipVars, exportVars>>
     \/ /\ part = "export" /\ E!Next
        /\ UNCHANGED <<dumpsVars, migrationVars, initVars, byhandVars, planningVars, snapshotsVars, ownershipVars, followupVars>>

vars == <<part, dumpsVars, migrationVars, initVars, byhandVars, planningVars, snapshotsVars, ownershipVars, followupVars, exportVars>>

Spec == Init /\ [][Next]_vars

\* backups.ts, restore.ts: one dump at a time, no migration without its dump kept, and what
\* a restore replaces is kept somewhere.
CopiesKept == D!TypeOK /\ S!TypeOK /\ D!OneDumper /\ D!MigrationsBackedUp /\ S!NothingLost
\* kshetra.ts, init-kshetra.ts, restore.ts: crashes, reruns and undos of a migration
\* keep its project's work, an undo leaves what was there before, a rerun of init keeps the
\* project the config names, and what is restored is whole.
RerunsKeep == M!WorkKept /\ M!UndoneExactly /\ I!OneProjectKept /\ S!WholeRestored
\* init.ts, kshetra.ts: through stopped and repeated runs a repository is of one kind
\* and has one project, and no worker runs on a tracker's.
OneKind == I!TypeOK /\ M!TypeOK /\ I!OneKind /\ I!TrackerUnworked /\ M!OneProject
\* by-hand.ts: what is finished was confirmed as it is, and a forced release ends the
\* attempt that was read.
HandledAsRead == H!TypeOK /\ P!TypeOK /\ H!FinishedAsConfirmed /\ H!ForcedAsRead
\* suthradhara.ts decidePlan: a plan is approved as it was shown.
ApprovedWasSeen == P!ApprovedWasSeen
\* pid.ts: the process that owns the Kshetra is the one its pid file names.
OwnerListed == O!TypeOK /\ O!OwnerListed
\* pr-followup-run.ts: a review answered is not answered again, within the budget of rounds.
FollowupSafe == F!TypeOK /\ F!ReviewOnce /\ F!BudgetHolds
\* export.ts topoOrder: what is written out is in the one order its rule gives.
ExportsInOrder == E!TypeOK /\ E!FirstOrder

=============================================================================
