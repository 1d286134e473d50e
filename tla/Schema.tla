------------------------------- MODULE Schema -------------------------------
(***************************************************************************)
(* The database's two schemas, the engine's and Shreni's, and the commands *)
(* of several versions of Shreni on it (taskgraph/migrate.ts, client.ts,   *)
(* policy/db, cli/db.ts): checking the server and making the database,     *)
(* migrating after a dump, the check before a worker starts, a worker's    *)
(* writes behind the version fence, and restoring a dump.                  *)
(***************************************************************************)
EXTENDS Naturals, FiniteSets, FiniteSetsExt

CONSTANTS
  Proc,
  Code,          \* the newest migration of each schema that a process's code carries
  Floor,         \* minWriter of each schema's migrations; 0 for an additive one
  Left,          \* the databases earlier releases left: each schema's newest migration
  Triggers,      \* the engine migration every write needs: 0002_triggers
  MaxCommands,   \* bound: commands of one process
  None

Schemas == {"taskgraph", "shreni"}
Locks == Schemas \cup {"kysely"}
Command == {"check", "init", "start", "migrate", "restore"}

VARIABLES
  server, made,  \* the Postgres server, and whether it has the database
  db,            \* per schema, the migrations applied and min_writer
  locked,        \* the advisory locks of migrations under way
  copies,        \* what the dumps hold
  at, cmd, runs, \* where each process is, in which of its commands
  behind,        \* the client's cache of the engine migrations not run
  raced          \* processes that a restore went past

vars == <<server, made, db, locked, copies, at, cmd, runs, behind, raced>>

InTx == {"taskgraph.tx", "shreni.tx", "taskgraph.up", "shreni.up", "wrote"}
Connected == InTx \cup {"dump", "taskgraph", "shreni", "working", "writing"}
Place == Connected \cup {"idle", "check", "wait", "missing", "fresh", "gate", "open", "worker", "sessions", "restore"}
Empty == [s \in Schemas |-> [applied |-> {}, min |-> 0]]

TypeOK ==
  /\ server \in {"absent", "stopped", "starting", "up"} /\ made \in BOOLEAN
  /\ \A s \in Schemas : db[s].applied \subseteq Nat /\ db[s].min \in Nat
  /\ locked \in [Locks -> Proc \cup {None}]
  /\ at \in [Proc -> Place] /\ cmd \in [Proc -> Command] /\ runs \in [Proc -> 0..MaxCommands]
  /\ raced \subseteq Proc

\* version advances; min_writer rises only for a breaking migration.
Floors(s, ms) == {1} \cup {Floor[s][m] : m \in ms}
LastFloor(s, old, ms) == IF Floor[s][Max(ms)] = 0 THEN 1 ELSE Floor[s][Max(ms)]
Raised(s, old, ms) == Max({old} \cup Floors(s, ms))
Migrated(s, ms, old) == [applied |-> old.applied \cup ms, min |-> Raised(s, old.min, ms)]

Carried(p, s) == 1..Code[p][s]
Lacks(p, s) == Carried(p, s) \ db[s].applied

Init ==
  /\ \E old \in Left :
       /\ db = [s \in Schemas |-> IF old[s] = 0 THEN Empty[s]
                                  ELSE [applied |-> 1..old[s], min |-> Max(Floors(s, 1..old[s]))]]
       /\ server \in IF old["taskgraph"] = 0 THEN {"absent", "stopped", "up"} ELSE {"up"}
       /\ made = (old["taskgraph"] # 0)
  /\ locked = [l \in Locks |-> None] /\ copies = {} /\ raced = {}
  /\ at = [p \in Proc |-> "idle"] /\ cmd = [p \in Proc |-> "check"] /\ runs = [p \in Proc |-> 0]
  /\ behind = [p \in Proc |-> {}]

Goto(p, to) == at' = [at EXCEPT ![p] = to]
\* A command that throws, refuses or is done: its connection closes.
End(p) == Goto(p, "idle")
data == <<db, copies>>
rest == <<cmd, runs>>

\* A person, a script or another process runs a command.
Begin(p, c) ==
  /\ at[p] = "idle" /\ runs[p] < MaxCommands
  /\ c \in {"check", "init"} \/ made
  /\ cmd' = [cmd EXCEPT ![p] = c] /\ runs' = [runs EXCEPT ![p] = @ + 1]
  /\ Goto(p, CASE c \in {"check", "init"} -> "check" [] c = "start" -> "gate"
               [] c = "migrate" -> "open" [] c = "restore" -> "sessions")
  /\ behind' = [behind EXCEPT ![p] = {}]
  /\ UNCHANGED <<server, made, data, locked>>

----------------------------------------------------------------------------
\* checkDatabase: what a connection finds.  A login, a version or a person's answer may
\* end it anywhere.
Found(p) == Goto(p, IF cmd[p] = "init" THEN "fresh" ELSE "idle")
Connects(p) ==
  /\ at[p] \in {"check", "wait"}
  /\ \/ server = "up" /\ IF made THEN Found(p) ELSE Goto(p, "missing")
     \/ End(p)
  /\ UNCHANGED <<server, made, data, locked, behind, rest>>

\* An installed server that does not answer is started, by a person's leave, and waited for.
StartServer(p) ==
  /\ at[p] = "check" /\ server \in {"stopped", "starting"}
  /\ server' = "starting" /\ Goto(p, "wait")
  /\ UNCHANGED <<made, data, locked, behind, rest>>
ServerUp == server = "starting" /\ server' = "up" /\ UNCHANGED <<made, data, locked, at, behind, rest>>

\* init creates the missing database, db check only when asked; one that another made
\* since is an error.
CreateDatabase(p) ==
  /\ at[p] = "missing"
  /\ \/ ~made /\ made' = TRUE /\ Found(p)
     \/ End(p) /\ UNCHANGED made
  /\ UNCHANGED <<server, data, locked, behind, rest>>

----------------------------------------------------------------------------
\* init's Database phase: a database without the engine's schema is set up with no dump.
Fresh(p) ==
  /\ at[p] = "fresh" /\ Goto(p, IF db["taskgraph"].applied = {} THEN "taskgraph" ELSE "gate")
  /\ UNCHANGED <<server, made, data, locked, behind, rest>>

\* pendingFor: the migrations each schema lacks, of those this code carries.
EngineOnly(p) == Lacks(p, "taskgraph")
PendingFor(p) == UNION {Lacks(p, s) : s \in Schemas}
\* The command goes on after its migrations: a start to the worker.
Passed(p) == Goto(p, IF cmd[p] = "start" THEN "worker" ELSE "idle")

\* ensureMigrated: a detached start refuses, a person may too.
Gate(p) ==
  /\ at[p] = "gate"
  /\ \/ PendingFor(p) = {} /\ Passed(p)
     \/ PendingFor(p) # {} /\ (End(p) \/ Goto(p, "open"))
  /\ UNCHANGED <<server, made, data, locked, behind, rest>>

\* migrateDatabase: looks again, and dumps first, unless the database is another machine's.
OpenMigrate(p) ==
  /\ at[p] = "open"
  /\ IF PendingFor(p) = {} THEN Passed(p) ELSE Goto(p, "dump")
  /\ UNCHANGED <<server, made, data, locked, behind, rest>>
Dump(p) ==
  /\ at[p] = "dump"
  /\ \/ copies' = copies \cup {db} /\ Goto(p, "taskgraph")
     \/ (End(p) \/ Goto(p, "taskgraph")) /\ UNCHANGED copies
  /\ UNCHANGED <<server, made, db, locked, behind, rest>>

\* migrate, migrateShreni: one transaction under the schema's lock, so it reads what the
\* last one left.  A schema with migrations this code does not know has none left for it;
\* otherwise Kysely's migrator takes the lock all migrators share.
Tx(s) == IF s = "taskgraph" THEN "taskgraph.tx" ELSE "shreni.tx"
Up(s) == IF s = "taskgraph" THEN "taskgraph.up" ELSE "shreni.up"
After(p, s) == IF s = "taskgraph" THEN Goto(p, "shreni") ELSE Passed(p)
Take(p, l) == locked[l] = None /\ locked' = [locked EXCEPT ![l] = p]
Drop(p) == locked' = [l \in Locks |-> IF locked[l] = p THEN None ELSE locked[l]]

LockSchema(p, s) ==
  /\ at[p] = s /\ Take(p, s) /\ Goto(p, Tx(s))
  /\ UNCHANGED <<server, made, data, behind, rest>>

Unknown(p, s) == db[s].applied \ Carried(p, s)
Newer(p, s) ==
  /\ at[p] = Tx(s) /\ (s = "shreni" => db["taskgraph"].applied # {})
  /\ Unknown(p, s) # {} /\ Lacks(p, s) = {}
  /\ Drop(p) /\ After(p, s)
  /\ UNCHANGED <<server, made, data, behind, rest>>
LockMigrator(p, s) ==
  /\ at[p] = Tx(s) /\ (s = "shreni" => db["taskgraph"].applied # {})
  /\ Unknown(p, s) = {} /\ Take(p, "kysely") /\ Goto(p, Up(s))
  /\ UNCHANGED <<server, made, data, behind, rest>>
Migrate(p, s) ==
  /\ at[p] = Up(s)
  /\ db' = IF Lacks(p, s) = {} THEN db ELSE [db EXCEPT ![s] = Migrated(s, Lacks(p, s), @)]
  /\ Drop(p) /\ After(p, s)
  /\ UNCHANGED <<server, made, copies, behind, rest>>

\* A migration fails, a schema is behind, or the process dies: the transaction is undone.
Fail(p) ==
  /\ at[p] \in Connected /\ Drop(p) /\ End(p)
  /\ UNCHANGED <<server, made, data, behind, rest>>

----------------------------------------------------------------------------
\* The worker opens its client, which reads the engine migrations that have not run, and
\* reads them again only before it refuses a call for one.
OpenClient(p) ==
  /\ at[p] = "worker" /\ behind' = [behind EXCEPT ![p] = Lacks(p, "taskgraph")] /\ Goto(p, "working")
  /\ UNCHANGED <<server, made, data, locked, rest>>

Need(p) ==
  LET refreshed == IF Triggers \in behind[p] THEN Lacks(p, "taskgraph") ELSE behind[p] IN
  /\ at[p] = "working"
  /\ behind' = [behind EXCEPT ![p] = refreshed]
  /\ IF Triggers \in refreshed THEN UNCHANGED at ELSE Goto(p, "writing")
  /\ UNCHANGED <<server, made, data, locked, rest>>

\* check_writer: the trigger refuses a writer older than min_writer.  Without the trigger
\* the row goes in; without the tables nothing does.
AdmitsByShreni(p) == Triggers \in db["taskgraph"].applied => Code[p]["taskgraph"] >= db["shreni"].min
Admits(p) == Triggers \in db["taskgraph"].applied => Code[p]["taskgraph"] >= db["taskgraph"].min
WriteRow(p) ==
  /\ at[p] = "writing"
  /\ Goto(p, IF db["taskgraph"].applied # {} /\ Admits(p) THEN "wrote" ELSE "working")
  /\ UNCHANGED <<server, made, data, locked, behind, rest>>
Commit(p) ==
  /\ at[p] = "wrote" /\ Goto(p, "working")
  /\ UNCHANGED <<server, made, data, locked, behind, rest>>

----------------------------------------------------------------------------
\* restoreCommand: refused while anything else is connected, seen once; the schemas are
\* dropped and loaded in one transaction, which waits for those under way.
Unseen(p) == FALSE
OtherSessions(p) == \E q \in Proc \ {p} : at[q] \in Connected
LookForSessions(p) ==
  /\ at[p] = "sessions" /\ Goto(p, IF OtherSessions(p) THEN "idle" ELSE "restore")
  /\ UNCHANGED <<server, made, data, locked, behind, rest>>
Restore(p) ==
  /\ at[p] = "restore" /\ End(p)
  /\ \/ db' \in copies /\ \A q \in Proc : at[q] \notin InTx
     \/ UNCHANGED db
  /\ UNCHANGED <<server, made, copies, locked, behind, rest>>

\* A process connects, or starts a worker, between a restore's look and the restore.
Overtaken ==
  LET restoring == \E q \in Proc : at[q] = "restore" IN
  raced' = {p \in raced : at[p] # "idle"} \cup
           {p \in Proc : restoring /\ at[p] \notin Connected /\ (at'[p] \in Connected \/ at[p] = "worker")}

Next ==
  /\ \/ \E p \in Proc : \/ \E c \in Command : Begin(p, c)
                        \/ Connects(p) \/ StartServer(p) \/ CreateDatabase(p) \/ Fresh(p)
                        \/ Gate(p) \/ OpenMigrate(p) \/ Dump(p) \/ Fail(p)
                        \/ \E s \in Schemas : LockSchema(p, s) \/ Newer(p, s) \/ LockMigrator(p, s) \/ Migrate(p, s)
                        \/ OpenClient(p) \/ Need(p) \/ WriteRow(p) \/ Commit(p)
                        \/ LookForSessions(p) \/ Restore(p)
     \/ ServerUp
  /\ Overtaken

Spec == Init /\ [][Next]_vars

----------------------------------------------------------------------------
\* Through migrations of several code versions at once, crashes and restores, each schema
\* holds an unbroken run of migrations, Shreni's never without the engine's, and the
\* oldest writer it admits is what its breaking migrations ask, not what the last one does.
SchemaSound ==
  /\ \A s \in Schemas : LET a == db[s].applied IN
       a # {} => a = 1..Max(a) /\ db[s].min = Max(Floors(s, a))
  /\ db["shreni"].applied # {} => db["taskgraph"].applied # {}

\* A worker runs only on a database that has every migration its code carries, both
\* schemas', unless it connected while a restore that had seen no session was under way.
StartsMigrated ==
  \A p \in Proc : at[p] \in {"working", "writing", "wrote"} /\ p \notin raced =>
    \A s \in Schemas : Carried(p, s) \subseteq db[s].applied

\* No row is written behind the fence's back: by a client that still believes in triggers
\* the database no longer has, or by code older than a breaking migration that had run.
WritesFenced ==
  [][\A p \in Proc : at[p] # "wrote" /\ at'[p] = "wrote" /\ p \notin raced =>
       /\ Triggers \in db["taskgraph"].applied
       /\ Code[p]["taskgraph"] >= Max(Floors("taskgraph", db["taskgraph"].applied))]_vars

=============================================================================
