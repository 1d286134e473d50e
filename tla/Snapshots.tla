----------------------------- MODULE Snapshots -----------------------------
(***************************************************************************)
(* Freeze and restore of a Kshetra (freeze.ts, restore.ts, snapshot.ts and *)
(* policy/sthapathi/snapshot.ts): the project's bundle, then each state    *)
(* location, then the manifest; back again through an archive, a purge and *)
(* an import of the project, then the locations.  The worker lock is held  *)
(* for the project alone.  Either command may die between any two steps.   *)
(***************************************************************************)
EXTENDS Naturals, Sequences, FiniteSets

CONSTANTS
  File,          \* the state locations that are files or directories
  MaxWrites,     \* bound: writes of the worker
  MaxSnaps,      \* bound: freezes
  MaxRestores,   \* bound: restores
  None           \* an absent location

Part == File \cup {"project", "flags"}

VARIABLES
  cur,           \* what is there: each part's content, numbered by the write that made it
  own,           \* what the worker last wrote to each part
  writes,
  worker, lock,  \* a worker runs; who holds the worker lock
  overlap,       \* a worker started during a restore
  snaps,         \* the snapshot directories, oldest first: [part, full (all copied), manifest]
  freeze,        \* the freeze: [on, todo (the locations still to copy)]
  archives,      \* what was archived of each part
  rs,            \* the restore: [pc, from (the snapshot), old (the project it archived), todo]
  restores,
  said           \* how the last restore ended

vars == <<cur, own, writes, worker, lock, overlap, snaps, freeze, archives, rs, restores, said>>
state == <<cur, own, writes>>
freezing == <<snaps, freeze, overlap>>
restoring == <<archives, rs, restores, said>>

NoRestore == [pc |-> "no", from |-> 0, old |-> None, todo |-> {}]
NoFreeze == [on |-> FALSE, todo |-> {}]

TypeOK ==
  /\ cur \in [Part -> 0..MaxWrites \cup {None}] /\ lock \in {"free", "worker", "restore"}
  /\ rs.pc \in {"no", "lock", "archive", "purge", "import", "back", "away", "copy", "verify"}
  /\ archives \in [Part -> SUBSET (0..MaxWrites)]

Init ==
  /\ cur \in [Part -> {0, None}] /\ cur["project"] = 0
  /\ own = cur /\ writes = 0 /\ worker = FALSE /\ lock = "free" /\ overlap = FALSE
  /\ snaps = <<>> /\ freeze = NoFreeze
  /\ archives = [p \in Part |-> {}] /\ rs = NoRestore /\ restores = 0 /\ said = "nothing"

----------------------------------------------------------------------------
StartWorker ==
  /\ ~worker /\ lock = "free"
  /\ worker' = TRUE /\ lock' = "worker"
  /\ overlap' = (overlap \/ rs.pc # "no")
  /\ UNCHANGED <<state, snaps, freeze, restoring>>
StopWorker ==
  /\ worker /\ worker' = FALSE /\ lock' = "free"
  /\ UNCHANGED <<state, freezing, restoring>>
Work(p) ==
  /\ worker /\ writes < MaxWrites
  /\ writes' = writes + 1
  /\ cur' = [cur EXCEPT ![p] = writes'] /\ own' = [own EXCEPT ![p] = writes']
  /\ UNCHANGED <<worker, lock, freezing, restoring>>

----------------------------------------------------------------------------
\* runFreeze: refused while a worker runs, unless forced; freezeEngine takes the worker
\* lock for the export, or goes without it.
Freeze(force) ==
  /\ ~freeze.on /\ Len(snaps) < MaxSnaps
  /\ force \/ (~worker /\ lock = "free")
  /\ cur["project"] # None
  /\ snaps' = Append(snaps, [part |-> [p \in Part |-> IF p = "project" THEN cur[p] ELSE None],
                             full |-> FALSE, manifest |-> FALSE])
  /\ freeze' = [on |-> TRUE, todo |-> Part \ {"project"}]
  /\ UNCHANGED <<state, worker, lock, overlap, restoring>>

\* Each location is copied as it is by then.
Copy(p) ==
  /\ freeze.on /\ p \in freeze.todo
  /\ snaps' = [snaps EXCEPT ![Len(snaps)].part[p] = cur[p],
                            ![Len(snaps)].full = (freeze.todo = {p})]
  /\ freeze' = [freeze EXCEPT !.todo = @ \ {p}]
  /\ UNCHANGED <<state, worker, lock, overlap, restoring>>

\* The manifest comes last.  ManifestFirst does not wait for the copies.
ManifestFirst == TRUE
Captured == freeze.todo = {}
WriteManifest ==
  /\ freeze.on /\ Captured /\ ~snaps[Len(snaps)].manifest
  /\ snaps' = [snaps EXCEPT ![Len(snaps)].manifest = TRUE]
  /\ freeze' = IF freeze.todo = {} THEN NoFreeze ELSE freeze
  /\ UNCHANGED <<state, worker, lock, overlap, restoring>>

FreezeDies ==
  /\ freeze.on /\ freeze' = NoFreeze
  /\ UNCHANGED <<state, worker, lock, overlap, snaps, restoring>>

----------------------------------------------------------------------------
\* runRestore with --latest: the newest directory that has a manifest; never under a
\* worker of this machine.
Listed == {i \in 1..Len(snaps) : snaps[i].manifest}
Latest == CHOOSE i \in Listed : \A j \in Listed : j <= i

Restore ==
  /\ rs.pc = "no" /\ restores < MaxRestores /\ ~worker /\ Listed # {}
  /\ rs' = [NoRestore EXCEPT !.pc = "lock", !.from = Latest]
  /\ restores' = restores + 1 /\ said' = "nothing"
  /\ UNCHANGED <<state, worker, lock, freezing, archives>>

\* restoreEngine, under the worker lock: the live project is written to the archive,
\* purged, and the snapshot's imported.
TakeLock ==
  /\ rs.pc = "lock"
  /\ \/ lock = "free" /\ lock' = "restore" /\ rs' = [rs EXCEPT !.pc = "archive"] /\ UNCHANGED said
     \/ lock # "free" /\ UNCHANGED lock /\ rs' = NoRestore /\ said' = "refused"
  /\ UNCHANGED <<state, worker, freezing, archives, restores>>

NothingKept(p) == archives
Kept(p) == IF cur[p] = None THEN archives ELSE [archives EXCEPT ![p] = @ \cup {cur[p]}]

Archive ==
  /\ rs.pc = "archive"
  /\ archives' = Kept("project")
  /\ rs' = [rs EXCEPT !.pc = IF cur["project"] = None THEN "import" ELSE "purge",
                      !.old = cur["project"]]
  /\ UNCHANGED <<state, worker, lock, freezing, restores, said>>

Purge ==
  /\ rs.pc = "purge"
  /\ cur' = [cur EXCEPT !["project"] = None]
  /\ rs' = [rs EXCEPT !.pc = "import"]
  /\ UNCHANGED <<own, writes, worker, lock, freezing, archives, restores, said>>

\* The import fails as a whole; then the archived project is put back, which may fail too.
Import ==
  /\ rs.pc = "import"
  /\ \/ /\ cur' = [cur EXCEPT !["project"] = snaps[rs.from].part["project"]]
        /\ rs' = [rs EXCEPT !.pc = "away", !.todo = Part \ {"project"}]
        /\ lock' = "free" /\ UNCHANGED said
     \/ /\ rs.old # None /\ rs' = [rs EXCEPT !.pc = "back"] /\ UNCHANGED <<cur, lock, said>>
     \/ /\ rs.old = None /\ rs' = NoRestore /\ said' = "failed"
        /\ lock' = "free" /\ UNCHANGED cur
  /\ UNCHANGED <<own, writes, worker, freezing, archives, restores>>

PutBack ==
  /\ rs.pc = "back"
  /\ \/ cur' = [cur EXCEPT !["project"] = rs.old] /\ said' = "put back"
     \/ UNCHANGED cur /\ said' = "failed"
  /\ rs' = NoRestore /\ lock' = "free"
  /\ UNCHANGED <<own, writes, worker, freezing, archives, restores>>

\* Every location is archived first, by a move or, for the flags, by a copy; then each
\* comes back from the snapshot, and what that lacks stays away.
MoveAway(p) ==
  /\ rs.pc = "away" /\ p \in rs.todo
  /\ archives' = Kept(p)
  /\ cur' = IF p = "flags" THEN cur ELSE [cur EXCEPT ![p] = None]
  /\ rs' = IF rs.todo = {p} THEN [rs EXCEPT !.pc = "copy", !.todo = Part \ {"project"}]
           ELSE [rs EXCEPT !.todo = @ \ {p}]
  /\ UNCHANGED <<own, writes, worker, lock, freezing, restores, said>>

CopyBack(p) ==
  /\ rs.pc = "copy" /\ p \in rs.todo
  /\ cur' = [cur EXCEPT ![p] = snaps[rs.from].part[p]]
  /\ rs' = IF rs.todo = {p} THEN [rs EXCEPT !.pc = "verify", !.todo = {}]
           ELSE [rs EXCEPT !.todo = @ \ {p}]
  /\ UNCHANGED <<own, writes, worker, lock, freezing, archives, restores, said>>

\* The stats were read back under the lock; the flags are read now.
Verify ==
  /\ rs.pc = "verify"
  /\ said' = "restored"
  /\ rs' = NoRestore
  /\ UNCHANGED <<state, worker, lock, freezing, archives, restores>>

RestoreDies ==
  /\ rs.pc # "no" /\ rs' = NoRestore /\ said' = "died"
  /\ lock' = IF lock = "restore" THEN "free" ELSE lock
  /\ UNCHANGED <<state, worker, freezing, archives, restores>>

Next ==
  \/ StartWorker \/ StopWorker \/ \E p \in Part : Work(p) \/ Copy(p) \/ MoveAway(p) \/ CopyBack(p)
  \/ \E force \in BOOLEAN : Freeze(force)
  \/ WriteManifest \/ FreezeDies
  \/ Restore \/ TakeLock \/ Archive \/ Purge \/ Import \/ PutBack \/ Verify \/ RestoreDies

Spec == Init /\ [][Next]_vars

----------------------------------------------------------------------------
\* A restore is reversible at every step, after every crash and every repetition of it:
\* what the worker last wrote to a part is there, or in an archive.  The files are moved and
\* copied after the worker lock is given back, so a worker that starts then is on its own.
NothingLost == overlap \/ \A p \in Part : own[p] \in {cur[p], None} \cup archives[p]

\* A restore that reports success put back the whole of a finished freeze, project, files
\* and flags, with nothing else left beside them.
WholeRestored ==
  [][(said' = "restored" /\ said # "restored" /\ ~overlap) =>
       \E i \in 1..Len(snaps) : snaps[i].full /\ cur = snaps[i].part]_vars

=============================================================================
