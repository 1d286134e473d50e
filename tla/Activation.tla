----------------------------- MODULE Activation -----------------------------
(***************************************************************************)
(* Activating a lifecycle version (upgrade.ts) while processes on the old  *)
(* and on the new version write.  Every write passes the trigger           *)
(* check_writer, which takes a share lock on the project row and compares  *)
(* versions; activation holds that row for update, then every task row,    *)
(* ends the leases and moves the tasks the new version has no state for.   *)
(***************************************************************************)
EXTENDS Naturals, FiniteSets

CONSTANTS
  Task, Writer, None,
  VerOf,          \* the version each writer's process runs
  Lc,             \* version -> [states, terminal, satisfying, leased, expiry, create, moves, migrate]
  First,          \* the version the project starts on
  ParentOf,       \* the container each task is in, or None
  DependsOn,      \* pairs <<a, b>>: a waits on b
  MaxWrites       \* writes begun

Version == DOMAIN Lc

VARIABLES
  active,         \* projects.lifecycle_version, committed
  state,          \* tasks.state, committed; None before the task is created
  leased,         \* tasks with a lease
  lapsed,         \* of those, the ones past lease_expires_at
  share,          \* project row: writers holding it for share
  excl,           \* project row: the activation holds it for update
  rowOf,          \* each writer's locked task row, or None
  w,              \* each writer's transaction: [pc, task, to]
  act,            \* the activation: [pc, to, force, seen]
  writes          \* writes begun so far

vars == <<active, state, leased, lapsed, share, excl, rowOf, w, act, writes>>

NoTx == [pc |-> "idle", task |-> None, to |-> None]
NoAct == [pc |-> "idle", to |-> None, force |-> FALSE, seen |-> {}]
Filed == {t \in Task : state[t] # None}

TypeOK ==
  /\ active \in Version
  /\ leased \subseteq Filed /\ lapsed \subseteq leased
  /\ share \subseteq Writer /\ excl \in BOOLEAN
  /\ rowOf \in [Writer -> Task \cup {None}]
  /\ act.pc \in {"idle", "tasks", "apply"}

\* The graph rules under a version's flags: nothing live under a closed container,
\* nothing live waiting on closed work that cannot satisfy it; and every task's
\* container and dependencies exist.
Sound(v, s) ==
  LET live(t) == s[t] # None /\ s[t] \notin Lc[v].terminal IN
  /\ \A t \in Task : s[t] # None /\ ParentOf[t] # None => s[ParentOf[t]] # None
  /\ \A d \in DependsOn : s[d[1]] # None => s[d[2]] # None
  /\ \A t \in Task : live(t) /\ ParentOf[t] # None => s[ParentOf[t]] \notin Lc[v].terminal
  /\ \A d \in DependsOn : live(d[1]) => s[d[2]] \notin Lc[v].terminal \ Lc[v].satisfying

Init ==
  /\ active = First
  /\ state \in {s \in [Task -> {Lc[First].create, None} \cup Lc[First].terminal] : Sound(First, s)}
  /\ leased = {} /\ lapsed = {} /\ share = {} /\ excl = FALSE
  /\ rowOf = [p \in Writer |-> None]
  /\ w = [p \in Writer |-> NoTx]
  /\ act = NoAct
  /\ writes = 0

----------------------------------------------------------------------------
\* A lease outlives its time; nothing has swept it yet.
Lapse(t) ==
  /\ t \in leased \ lapsed
  /\ lapsed' = lapsed \cup {t}
  /\ UNCHANGED <<active, state, leased, share, excl, rowOf, w, act, writes>>

\* assertVersion, in the transaction and without a lock: then the row is locked.  A
\* create has no row yet.
Begin(p, t, to) ==
  /\ w[p].pc = "idle" /\ writes < MaxWrites
  /\ VerOf[p] = active
  /\ LET l == Lc[VerOf[p]] IN
       IF state[t] = None THEN to = l.create ELSE <<state[t], to>> \in l.moves
  /\ w' = [w EXCEPT ![p] = [pc |-> IF state[t] = None THEN "write" ELSE "row", task |-> t, to |-> to]]
  /\ writes' = writes + 1
  /\ UNCHANGED <<active, state, leased, lapsed, share, excl, rowOf, act>>

\* select ... for update on the task's row; the state may have moved on meanwhile.
LockRow(p) ==
  LET t == w[p].task IN
  /\ w[p].pc = "row" /\ act.pc # "apply"
  /\ \A q \in Writer : rowOf[q] # t
  /\ IF <<state[t], w[p].to>> \in Lc[VerOf[p]].moves
     THEN /\ rowOf' = [rowOf EXCEPT ![p] = t]
          /\ w' = [w EXCEPT ![p].pc = "write"]
     ELSE /\ w' = [w EXCEPT ![p] = NoTx]
          /\ UNCHANGED rowOf
  /\ UNCHANGED <<active, state, leased, lapsed, share, excl, act, writes>>

Rollback(p) ==
  /\ w' = [w EXCEPT ![p] = NoTx]
  /\ rowOf' = [rowOf EXCEPT ![p] = None]
  /\ share' = share \ {p}

\* check_writer: waits for the project row, shares it to the end of the transaction,
\* and refuses a writer of another version.  ReadOnlyFence compares and takes no lock.
ReadOnlyFence(p) == VerOf[p] = active /\ UNCHANGED share
Fence(p) == ~excl /\ VerOf[p] = active /\ share' = share \cup {p}

Write(p) ==
  /\ w[p].pc = "write"
  /\ Fence(p)
  /\ w' = [w EXCEPT ![p].pc = "commit"]
  /\ UNCHANGED <<active, state, leased, lapsed, excl, rowOf, act, writes>>

VersionMismatch(p) ==
  /\ w[p].pc = "write" /\ ~excl /\ VerOf[p] # active
  /\ Rollback(p)
  /\ UNCHANGED <<active, state, leased, lapsed, excl, act, writes>>

\* The rest of check_task_write judged the row when it was written; the engine's own
\* rules keep the graph sound (TaskGraph).
Commit(p) ==
  LET t == w[p].task
      l == Lc[VerOf[p]]
      s == [state EXCEPT ![t] = w[p].to]
  IN
  /\ w[p].pc = "commit"
  /\ IF Sound(VerOf[p], s) /\ (rowOf[p] = None => state[t] = None)
     THEN /\ state' = s
          /\ leased' = IF w[p].to = l.leased THEN leased \cup {t} ELSE leased \ {t}
          /\ lapsed' = lapsed \ {t}
     ELSE UNCHANGED <<state, leased, lapsed>>
  /\ Rollback(p)
  /\ UNCHANGED <<active, excl, act, writes>>

----------------------------------------------------------------------------
\* activate: only the version this process runs, and not the one already active;
\* then the project row for update, once no writer shares it.
Activate(v, force) ==
  /\ act.pc = "idle" /\ share = {}
  /\ v # active
  /\ act' = [pc |-> "tasks", to |-> v, force |-> force, seen |-> {}]
  /\ excl' = TRUE
  /\ UNCHANGED <<active, state, leased, lapsed, share, rowOf, w, writes>>

\* Every task row for update: waits for the writers that hold one.
LockTasks ==
  /\ act.pc = "tasks"
  /\ \A p \in Writer : rowOf[p] = None
  /\ act' = [act EXCEPT !.pc = "apply", !.seen = Filed]
  /\ UNCHANGED <<active, state, leased, lapsed, share, excl, rowOf, w, writes>>

\* Writers that hold a task row wait for the project row and the activation for the
\* task rows: Postgres ends one of them, and the runner reruns it.
Deadlock ==
  /\ act.pc = "tasks"
  /\ \E p \in Writer :
       /\ rowOf[p] # None /\ w[p].pc = "write"
       /\ \/ Rollback(p) /\ UNCHANGED <<act, excl>>
          \/ act' = NoAct /\ excl' = FALSE /\ UNCHANGED <<w, rowOf, share>>
  /\ UNCHANGED <<active, state, leased, lapsed, writes>>

\* plan: a leased task goes where expiry would take it; a state the target lacks goes
\* along the migrate map, which a rollback does not use.
AfterLease(t) == IF t \in leased THEN Lc[active].expiry ELSE state[t]
MapFor(v) == IF v > active THEN Lc[v].migrate ELSE <<>>
MapsAll(v) == {}
Unmapped(v) ==
  {t \in act.seen : AfterLease(t) \notin Lc[v].states /\ AfterLease(t) \notin DOMAIN MapFor(v)}
After(v) ==
  [t \in Task |-> IF t \in act.seen /\ AfterLease(t) \in Lc[v].states THEN AfterLease(t)
                  ELSE IF t \in act.seen /\ AfterLease(t) \in DOMAIN MapFor(v) THEN MapFor(v)[AfterLease(t)]
                  ELSE state[t]]

\* What the result may not break, judged with the new version's flags; BrokenAsNow
\* judges with the flags of the version that is active.
BrokenAsNow(v) == ~Sound(active, After(v))
Broken(v) ==
  \/ \E t \in act.seen : After(v)[t] = Lc[v].leased
  \/ ~Sound(v, After(v))

Refused(v, force) ==
  \/ leased \ lapsed # {} /\ ~force
  \/ Unmapped(v) # {}
  \/ Broken(v)

KeepLeases(v) == leased
LeasesLeft(v) == leased \ act.seen

\* The rest of activate, to its commit: refused with nothing changed, or the version
\* set, the leases ended and the tasks moved.
Apply ==
  /\ act.pc = "apply"
  /\ IF Refused(act.to, act.force) THEN UNCHANGED <<active, state, leased, lapsed>>
     ELSE /\ active' = act.to
          /\ state' = After(act.to)
          /\ leased' = LeasesLeft(act.to)
          /\ lapsed' = lapsed \cap leased'
  /\ act' = NoAct
  /\ excl' = FALSE
  /\ UNCHANGED <<share, rowOf, w, writes>>

Next ==
  \/ \E t \in Task : Lapse(t)
  \/ \E p \in Writer :
       \/ LockRow(p) \/ Write(p) \/ VersionMismatch(p) \/ Commit(p)
       \/ \E t \in Task, to \in UNION {Lc[v].states : v \in Version} : Begin(p, t, to)
  \/ \E v \in Version, force \in BOOLEAN : Activate(v, force)
  \/ LockTasks \/ Deadlock \/ Apply

Spec == Init /\ [][Next]_vars

----------------------------------------------------------------------------
\* Every task is in a state of the version that is active, whatever the order in which
\* writes of the old version and the activation ran: none slips a row past it.
StatesOfActive == \A t \in Filed : state[t] \in Lc[active].states

\* A lease is held in the leased state and nowhere else, across every upgrade and
\* rollback.
LeaseIffLeased == \A t \in Filed : t \in leased <=> state[t] = Lc[active].leased

\* An upgrade never leaves live work under a closed container, or waiting on closed
\* work that cannot satisfy it, though the version's flags have changed.
SoundUnderActive == Sound(active, state)

=============================================================================
