------------------------------- MODULE Engine -------------------------------
(***************************************************************************)
(* The protocols with the database, composed: repeated requests, session    *)
(* locks, activation of a lifecycle version, purging a project, cancelling  *)
(* with dependants, migrating the schemas.  They share no state, so a       *)
(* behaviour is of one of them and the others stay as they began.           *)
(***************************************************************************)
EXTENDS Naturals, FiniteSets

CONSTANTS
  None,
  Client, Id, Item, CallOf, MaxRetries, MaxTries, Faults,                 \* requests
  Session, Key, Pid, MaxToken,                                            \* session locks
  Task, Writer, VerOf, Lc, First, ParentOf, DependsOn, MaxWrites,         \* activation
  PurgeWriter, Old, New, MaxAborts,                                       \* purge
  CancelTask, Shapes, MaxActs,                                            \* cancel
  Proc, Code, Floor, Left, Triggers, MaxCommands                          \* schemas

VARIABLES part,
          events, tx, lost, pc, held, reruns, tries, reply,
          conn, lock, backends, pid, tokens, closed, doing, used, says,
          active, state, leased, lapsed, share, excl, rowOf, w, act, writes,
          rows, log, project, kind, on, wpc, ppc, todo, graph, row, pshare, pexcl, aborts,
          parent, deps, live, claimed, root, dropDeps, pending, pass, moved, step, inSet, acts,
          server, made, db, locked, copies, at, cmd, runs, behind, raced

requestVars == <<events, tx, lost, pc, held, reruns, tries, reply>>
lockVars == <<conn, lock, backends, pid, tokens, closed, doing, used, says>>
activationVars == <<active, state, leased, lapsed, share, excl, rowOf, w, act, writes>>
purgeVars == <<rows, log, project, kind, on, wpc, ppc, todo, graph, row, pshare, pexcl, aborts>>
cancelVars == <<parent, deps, live, claimed, root, dropDeps, pending, pass, moved, step, inSet, acts>>
schemaVars == <<server, made, db, locked, copies, at, cmd, runs, behind, raced>>

\* Every version keeps the registration rules (lifecycle.ts): a task is created in a state of
\* it that is neither leased nor terminal, moves stay in its states, and its migrate map leads
\* into them.
ASSUME LifecycleAssumption ==
  /\ First \in DOMAIN Lc
  /\ None \notin Task
  /\ \A v \in DOMAIN Lc :
       /\ None \notin Lc[v].states
       /\ Lc[v].create \in Lc[v].states \ {Lc[v].leased}
       /\ Lc[v].terminal \subseteq Lc[v].states \ {Lc[v].leased}
       /\ Lc[v].moves \subseteq Lc[v].states \X Lc[v].states
       /\ \A m \in DOMAIN Lc[v].migrate : Lc[v].migrate[m] \in Lc[v].states

\* A call has a request id; its signature (kind, actor, and the task or plan it names) says
\* whether it names its task, and which.
ASSUME RequestAssumption ==
  /\ None \notin Item
  /\ None \notin [sig : {CallOf[c].sig : c \in Client}, item : Item]
  /\ \A c \in Client : CallOf[c].id \in Id /\ CallOf[c].items \subseteq Item /\ CallOf[c].named \in BOOLEAN
  /\ \A c, d \in Client : CallOf[c].sig = CallOf[d].sig /\ CallOf[c].named => CallOf[d].items = CallOf[c].items

\* Tokens are numbers, and None is neither one nor a process id.
ASSUME LockAssumption == None \notin Pid /\ None \notin Nat /\ MaxToken \in Nat

\* Tasks are numbered in the order of their ids; purge is not one of the writers.
ASSUME PurgeAssumption ==
  /\ Old \subseteq Nat /\ \A p \in PurgeWriter : New[p] \in Nat \ Old
  /\ None \notin Nat \cup PurgeWriter /\ "purge" \notin PurgeWriter \cup {None}
  /\ MaxAborts \in Nat

\* A project has finitely many tasks, and a container and what a task waits on are among them.
ASSUME CancelAssumption ==
  /\ IsFiniteSet(CancelTask) /\ None \notin CancelTask
  /\ \A g \in Shapes : g.parent \in [CancelTask -> CancelTask \cup {None}] /\ g.deps \subseteq CancelTask \X CancelTask

\* Migrations are numbered from 1 and a release carries an unbroken run of them, the triggers'
\* included; a database that an earlier release left has the engine's schema if it has Shreni's.
ASSUME SchemaAssumption ==
  /\ \A s \in {"taskgraph", "shreni"} :
       /\ \A m \in DOMAIN Floor[s] : Floor[s][m] \in Nat
       /\ \A p \in Proc : Code[p][s] \in Nat /\ 1..Code[p][s] \subseteq DOMAIN Floor[s]
       /\ \A old \in Left : old[s] \in Nat /\ 1..old[s] \subseteq DOMAIN Floor[s]
  /\ \A old \in Left : old["taskgraph"] = 0 => old["shreni"] = 0
  /\ \A p \in Proc : Triggers \in 1..Code[p]["taskgraph"]
  /\ MaxCommands \in Nat

R == INSTANCE Requests

L == INSTANCE SessionLocks WITH held <- tokens

A == INSTANCE Activation

P == INSTANCE Purge WITH
  Writer <- PurgeWriter, events <- log, share <- pshare, excl <- pexcl

C == INSTANCE Cancel WITH Task <- CancelTask, leased <- claimed, pc <- step

S == INSTANCE Schema

\* A part that does not run is at rest in one of its initial states.
Init ==
  /\ part \in {"requests", "locks", "activation", "purge", "cancel", "schema"}
  /\ R!Init /\ L!Init /\ A!Init /\ P!Init /\ S!Init
  /\ part # "activation" => state = [t \in Task |-> None]
  /\ part # "schema" => db["shreni"].applied # {}
  /\ IF part = "cancel" THEN C!Init
     ELSE /\ parent = [t \in CancelTask |-> None] /\ deps = {} /\ live = CancelTask /\ claimed = {}
          /\ root = CHOOSE t \in CancelTask : TRUE
          /\ dropDeps = FALSE /\ pending = <<>> /\ pass = <<>> /\ moved = FALSE
          /\ step = "look" /\ inSet = {} /\ acts = 0

Next ==
  /\ UNCHANGED part
  /\ \/ part = "requests" /\ R!Next /\ UNCHANGED <<lockVars, activationVars, purgeVars, cancelVars, schemaVars>>
     \/ part = "locks" /\ L!Next /\ UNCHANGED <<requestVars, activationVars, purgeVars, cancelVars, schemaVars>>
     \/ part = "activation" /\ A!Next /\ UNCHANGED <<requestVars, lockVars, purgeVars, cancelVars, schemaVars>>
     \/ part = "purge" /\ P!Next /\ UNCHANGED <<requestVars, lockVars, activationVars, cancelVars, schemaVars>>
     \/ part = "cancel" /\ C!Next /\ UNCHANGED <<requestVars, lockVars, activationVars, purgeVars, schemaVars>>
     \/ part = "schema" /\ S!Next /\ UNCHANGED <<requestVars, lockVars, activationVars, purgeVars, cancelVars>>

Spec == Init /\ [][Next]_<<part, requestVars, lockVars, activationVars, purgeVars, cancelVars, schemaVars>>

\* requests.ts once implements the abstract promise OnceOnly: however often a request is
\* repeated, its write is made once and every answer is the first one's.
KeepsPromise == R!KeepsPromise
\* session.ts held(), trySession, release(): a lock that is confirmed is held by its session,
\* and every lock on a live connection has someone to release it.
LocksTrue == L!TypeOK /\ L!ConfirmedIsHeld /\ L!NoLockLeaked
\* upgrade.ts activate: with writes of both versions under way, no task is left in a state
\* the active version lacks, leases are in its leased state only, and the graph rules hold
\* under its flags.
ActivationSound == A!TypeOK /\ A!StatesOfActive /\ A!LeaseIffLeased /\ A!SoundUnderActive
\* bundle.ts purge: beside writers it leaves no row, and waits for no write that began on
\* a task made since.
PurgesWhole == P!TypeOK /\ P!NothingLeft /\ P!WaitsOnNewOnly
\* move.ts cancel with its dependants: it ends with all of them cancelled, or none of what
\* it could not.
CancelsWhole == C!TypeOK /\ C!CancelsWhole
\* migrate.ts, db.ts: both schemas stay sound, and a worker starts on none that lacks a
\* migration its code carries.
SchemasSound == S!TypeOK /\ S!SchemaSound /\ S!StartsMigrated
\* 0002_triggers.ts: no row is written behind the version fence, through restores too.
WritesFenced == S!WritesFenced

=============================================================================
