----------------------------- MODULE TaskGraph -----------------------------
(***************************************************************************)
(* The task graph engine (src/src/taskgraph): the tables of one project and *)
(* the calls that write them.  Each call is one database transaction, and   *)
(* one action here: the engine's row locks, graph lock and plan lock (lock  *)
(* order in docs/architecture/task-graph-engine.md) make each call see and  *)
(* change the rows it decides on as one step.  What locks do not cover,     *)
(* rows that SKIP LOCKED passes over, is a choice (`locked`).  A refused    *)
(* call rolls back and changes nothing, so refusals are the guards.         *)
(*                                                                         *)
(* Time is abstracted to its only effects: a lease lapses, a hold ends.     *)
(***************************************************************************)
EXTENDS Lifecycle, Digraph, Sequences, FiniteSets

CONSTANTS
  MaxTasks,     \* bound: tasks ever created
  MaxAttempts,  \* bound: attempts ever started
  Plan,         \* plan ids
  MoveRole,     \* the roles whose actors call move and moveClaimed
  Kind, Hold,   \* the kinds tasks are given, and whether they may be held
  Priority,     \* task priorities; a smaller one is more urgent
  Guard(_,_,_)  \* the caller's guard of a move, on a task, reading the tables

ASSUME BoundsAssumption ==
  /\ MaxTasks \in Nat /\ MaxAttempts \in Nat
  /\ Kind \subseteq {"work", "container"} /\ Hold \subseteq BOOLEAN
  /\ MoveRole \subseteq Role /\ Priority \subseteq Nat
  /\ None \notin Plan /\ None \notin Nat /\ None \notin {"open", "approved", "discarded"}
  /\ "running" \notin Move

\* No caller makes the expiry move by hand: only the sweep does.
OnlySweepExpires == MoveDef[OnLeaseExpiry].by \cap MoveRole = {}

\* Task ids, in creation order.  An id is never used again.
Task == 1 .. MaxTasks
Attempt == 1 .. MaxAttempts
Running == "running"    \* the outcome of an attempt that has not ended

AttemptRecord == [task : Task, outcome : Move \cup {Running}]

VARIABLES
  created,   \* how many tasks were ever created
  tasks,     \* the ids in the tasks table
  state, kind, parent, plan, priority, boosted, held,  \* columns of tasks
  lease,     \* tasks.lease_attempt_id
  lapsed,    \* tasks.lease_expires_at < now
  deps,      \* task_deps: <<t, u>> when t waits for u
  attempts,  \* the attempts table in started_at order; the index is the id
  planState, \* plans: None before plans.create, then open, approved, discarded
  announced  \* the tasks the last transaction wrote children.settled for

graphVars == <<created, tasks, kind, parent, plan, priority, held, deps>>
leaseVars == <<lease, lapsed, attempts>>
vars == <<created, tasks, state, kind, parent, plan, priority, boosted, held,
          lease, lapsed, deps, attempts, planState, announced>>

TypeOK ==
  /\ created \in 0 .. MaxTasks
  /\ tasks \subseteq 1 .. created
  /\ state \in [Task -> State]
  /\ kind \in [Task -> {"work", "container"}]
  /\ parent \in [Task -> Task \cup {None}]
  /\ plan \in [Task -> Plan \cup {None}]
  /\ priority \in [Task -> Priority]
  /\ boosted \in [Task -> BOOLEAN]
  /\ held \in [Task -> BOOLEAN]
  /\ lease \in [Task -> Attempt \cup {None}]
  /\ lapsed \in [Task -> BOOLEAN]
  /\ deps \subseteq tasks \X tasks
  /\ attempts \in Seq(AttemptRecord)
  /\ Len(attempts) \leq MaxAttempts
  /\ planState \in [Plan -> {None, "open", "approved", "discarded"}]
  /\ announced \subseteq tasks

Init ==
  /\ created = 0
  /\ tasks = {}
  /\ state = [t \in Task |-> CreateState]
  /\ kind = [t \in Task |-> "work"]
  /\ parent = [t \in Task |-> None]
  /\ plan = [t \in Task |-> None]
  /\ priority \in {[t \in Task |-> p] : p \in Priority}
  /\ boosted = [t \in Task |-> FALSE]
  /\ held = [t \in Task |-> FALSE]
  /\ lease = [t \in Task |-> None]
  /\ lapsed = [t \in Task |-> FALSE]
  /\ deps = {}
  /\ attempts = <<>>
  /\ planState = [p \in Plan |-> None]
  /\ announced = {}

---------------------------------------------------------------------------
\* What the calls read.

Live(t) == state[t] \notin Terminal
Children(t) == {c \in tasks : parent[c] = t}
LiveChildren(t) == {c \in Children(t) : Live(c)}
LiveDependents(t) == {w \in tasks : <<w, t>> \in deps /\ Live(w)}
HasAttempts(t) == \E a \in DOMAIN attempts : attempts[a].task = t

ParentEdges == {<<c, parent[c]>> : c \in {x \in tasks : parent[x] # None}}
\* The task itself and what contains it (`up`), or what it contains (`down`).
Up(t) == {a \in tasks : Reaches(Task, ParentEdges, t, a)}
Down(t) == {d \in tasks : Reaches(Task, ParentEdges, d, t)}

\* containerSettled
Settled(c) ==
  /\ c \in tasks /\ kind[c] = "container"
  /\ Children(c) # {} /\ LiveChildren(c) = {}

\* children.settled is written for the tasks of C that are settled after the change.
\* Faulty variant: the check runs before the change.
AnnounceBefore(C) == announced' = {c \in C \ {None} : Settled(c)}
Announce(C) == announced' = {c \in C \ {None} : Settled(c)'}

\* What a guard may read of the tables.
Db == [tasks |-> tasks, state |-> state, kind |-> kind, parent |-> parent]

\* readyWhere, in the states st (the sweep of the same transaction included)
WaitsIn(st, t) == \E u \in tasks : <<t, u>> \in deps /\ st[u] \notin Satisfying
ReadyIn(st, t) ==
  /\ t \in tasks /\ st[t] = Claimable /\ kind[t] = "work" /\ ~held[t]
  /\ ~WaitsIn(st, t)
  /\ \A a \in Up(t) \ {t} : st[a] = Claimable /\ ~WaitsIn(st, a)

\* CLAIM_ORDER: boosted first, then priority, then age
ClaimsBefore(bo, t, u) ==
  \/ bo[t] /\ ~bo[u]
  \/ /\ bo[t] = bo[u]
     /\ \/ priority[t] < priority[u]
        \/ priority[t] = priority[u] /\ t < u

---------------------------------------------------------------------------
\* Creating, editing and deleting tasks (tasks.ts).

\* A plan takes tasks only until it is approved or discarded.
\* Faulty variant: any plan that exists does.
PlanExists(pl) == pl # None => planState[pl] # None
PlanOpen(pl) == pl # None => planState[pl] = "open"

\* tasks.create: a plan's tasks wait for the plan's approval, whoever files them.
Create(role, k, pr, h, p, pl) ==
  LET t == created + 1 IN
  /\ created < MaxTasks
  /\ MayCall("tasks.create", role, None)
  /\ PlanOpen(pl)
  /\ p # None => Live(p)
  /\ created' = t
  /\ tasks' = tasks \cup {t}
  /\ state' = [state EXCEPT ![t] = IF pl = None THEN CreateByRole[role] ELSE CreateState]
  /\ kind' = [kind EXCEPT ![t] = k]
  /\ parent' = [parent EXCEPT ![t] = p]
  /\ plan' = [plan EXCEPT ![t] = pl]
  /\ priority' = [priority EXCEPT ![t] = pr]
  /\ held' = [held EXCEPT ![t] = h]
  /\ announced' = {}
  /\ UNCHANGED <<boosted, deps, planState, leaseVars>>

\* The checks of a reparent: the new parent is open (for a live task), is not in
\* the task's own subtree, and no dependency joins the subtree to its new ancestors.
\* Faulty variants: each drops one of them.
ReparentUnderClosed(t, p) ==
  p # t /\ t \notin Up(p)
    /\ ~\E u \in Up(p), d \in Down(t) : <<u, d>> \in deps \/ <<d, u>> \in deps
ReparentIntoSubtree(t, p) == p # t /\ (Live(t) => Live(p))
ReparentOverEdges(t, p) == p # t /\ (Live(t) => Live(p)) /\ t \notin Up(p)
MayReparent(t, p) ==
  /\ p # t
  /\ Live(t) => Live(p)
  /\ t \notin Up(p)
  /\ ~\E u \in Up(p), d \in Down(t) : <<u, d>> \in deps \/ <<d, u>> \in deps

\* tasks.update, with a patch of the columns the engine itself reads
Update(t, role, k, pr, h, p) ==
  /\ MayCall("tasks.update", role, state[t])
  /\ k # kind[t] => Children(t) = {} /\ ~HasAttempts(t)
  /\ p # parent[t] /\ p # None => MayReparent(t, p)
  /\ <<k, pr, h, p>> # <<kind[t], priority[t], held[t], parent[t]>>
  /\ kind' = [kind EXCEPT ![t] = k]
  /\ priority' = [priority EXCEPT ![t] = pr]
  /\ held' = [held EXCEPT ![t] = h]
  /\ parent' = [parent EXCEPT ![t] = p]
  /\ UNCHANGED <<created, tasks, state, plan, boosted, deps, planState, leaseVars>>
  /\ Announce({c \in {parent[t], p} : p # parent[t] /\ ~Settled(c)})

\* The foreign keys' on delete cascade.  Faulty variant: only one direction.
EdgesOut(t) == {e \in deps : e[1] # t}
EdgesWithout(t) == {e \in deps : t \notin {e[1], e[2]}}

\* tasks.delete
Delete(t, role) ==
  /\ MayCall("tasks.delete", role, state[t])
  /\ state[t] = CreateState
  /\ ~HasAttempts(t) /\ Children(t) = {}
  /\ tasks' = tasks \ {t}
  /\ deps' = EdgesWithout(t)
  /\ UNCHANGED <<created, state, kind, parent, plan, priority, boosted, held,
                 planState, leaseVars>>
  /\ Announce({parent[t]})

---------------------------------------------------------------------------
\* Dependencies (deps.ts).

\* deps.add; adding an edge that exists changes nothing
AddDep(t, u, role) ==
  /\ MayCall("deps.add", role, state[t])
  /\ Live(u) \/ state[u] \in Satisfying
  /\ t # u
  /\ ~Reaches(Task, deps, u, t)
  /\ u \notin Up(t) /\ t \notin Up(u)
  /\ deps' = deps \cup {<<t, u>>}
  /\ announced' = {}
  /\ UNCHANGED <<created, tasks, state, kind, parent, plan, priority, boosted, held,
                 planState, leaseVars>>

\* deps.remove
RemoveDep(t, u, role) ==
  /\ MayCall("deps.remove", role, state[t])
  /\ <<t, u>> \in deps
  /\ deps' = deps \ {<<t, u>>}
  /\ announced' = {}
  /\ UNCHANGED <<created, tasks, state, kind, parent, plan, priority, boosted, held,
                 planState, leaseVars>>

---------------------------------------------------------------------------
\* Lifecycle moves (moves.ts).

\* Attempt a ends with outcome o, unless it has ended.
Ended(r, o) == [task |-> r.task, outcome |-> o]
EndAttempt(a, o) ==
  [b \in DOMAIN attempts |->
     IF b = a /\ attempts[b].outcome = Running THEN Ended(attempts[b], o) ELSE attempts[b]]

\* move, and moveClaimed when fence is an attempt id; drop is dropDeps.
MakeMove(t, m, role, drop, fence) ==
  /\ m # OnClaim
  /\ fence # None => lease[t] = fence
  /\ role \in MoveDef[m].by
  /\ state[t] \in MoveDef[m].from
  /\ ToTerminal(m) => LiveChildren(t) = {}
  /\ Strands(m) => LiveDependents(t) = {} \/ drop
  /\ MoveDef[m].guarded => Guard(m, t, Db)
  /\ deps' = IF Strands(m) THEN deps \ {<<w, t>> : w \in LiveDependents(t)} ELSE deps
  /\ attempts' = IF state[t] = Leased /\ lease[t] # None
                 THEN EndAttempt(lease[t], m) ELSE attempts
  /\ state' = [state EXCEPT ![t] = MoveDef[m].to]
  /\ boosted' = [boosted EXCEPT ![t] = BoostAfter(m, @)]
  /\ lease' = [lease EXCEPT ![t] = None]
  /\ lapsed' = [lapsed EXCEPT ![t] = FALSE]
  /\ UNCHANGED <<created, tasks, kind, parent, plan, priority, held, planState>>
  /\ Announce(IF ToTerminal(m) THEN {parent[t]} ELSE {})

---------------------------------------------------------------------------
\* Claims and the lease sweep (claims.ts).

Lapsed == {t \in tasks : state[t] = Leased /\ lapsed[t]}

\* Attempts of t that expired since its last attempt that ended another way.
PriorExpiries(t) ==
  {a \in DOMAIN attempts :
     /\ attempts[a].task = t /\ attempts[a].outcome = OnLeaseExpiry
     /\ \A b \in DOMAIN attempts :
          attempts[b].task = t /\ attempts[b].outcome \notin {OnLeaseExpiry, Running}
            => b < a}

\* Faulty variant: off by one.
ExpiryMoveLate(t) == IF Cardinality(PriorExpiries(t)) >= RepeatAfter
                     THEN OnRepeatedExpiry ELSE OnLeaseExpiry
ExpiryMove(t) == IF Cardinality(PriorExpiries(t)) + 1 >= RepeatAfter
                 THEN OnRepeatedExpiry ELSE OnLeaseExpiry

\* The tables after the sweep returned the leases of the tasks S.
SweptState(S) == [t \in Task |-> IF t \in S THEN MoveDef[ExpiryMove(t)].to ELSE state[t]]
SweptBoost(S) == [t \in Task |-> IF t \in S THEN BoostAfter(ExpiryMove(t), boosted[t])
                                            ELSE boosted[t]]
SweptLease(S) == [t \in Task |-> IF t \in S THEN None ELSE lease[t]]
SweptLapsed(S) == [t \in Task |-> lapsed[t] /\ t \notin S]
\* Faulty variants: the attempt is left open; every attempt of the task is ended again.
SweptLeavesOpen(S) == attempts
SweptEndsAll(S) ==
  [a \in DOMAIN attempts |->
     IF attempts[a].task \in S
     THEN Ended(attempts[a], ExpiryMove(attempts[a].task)) ELSE attempts[a]]
SweptAttempts(S) ==
  [a \in DOMAIN attempts |->
     IF attempts[a].task \in S /\ lease[attempts[a].task] = a /\ attempts[a].outcome = Running
     THEN Ended(attempts[a], ExpiryMove(attempts[a].task))
     ELSE attempts[a]]

\* expireLeases: the sweep on its own, over the lapsed leases whose rows are not locked
ExpireLeases(locked) ==
  LET S == Lapsed \ locked IN
  /\ S # {}
  /\ state' = SweptState(S)
  /\ boosted' = SweptBoost(S)
  /\ lease' = SweptLease(S)
  /\ lapsed' = SweptLapsed(S)
  /\ attempts' = SweptAttempts(S)
  /\ announced' = {}
  /\ UNCHANGED <<graphVars, planState>>

\* claim: the sweep, then the first ready task whose row is not locked, under a
\* new attempt.  When nothing is ready only the sweep commits (ExpireLeases).
Claim(role, locked) ==
  LET S == Lapsed \ locked
      ready == {t \in tasks \ locked : ReadyIn(SweptState(S), t)}
      a == Len(attempts) + 1
  IN
  /\ a \in Attempt
  /\ role \in MoveDef[OnClaim].by
  /\ \E t \in ready :
       /\ \A u \in ready \ {t} : ClaimsBefore(SweptBoost(S), t, u)
       /\ state' = [SweptState(S) EXCEPT ![t] = Leased]
       /\ boosted' = [SweptBoost(S) EXCEPT ![t] = BoostAfter(OnClaim, @)]
       /\ lease' = [SweptLease(S) EXCEPT ![t] = a]
       /\ lapsed' = [SweptLapsed(S) EXCEPT ![t] = FALSE]
       /\ attempts' = Append(SweptAttempts(S), [task |-> t, outcome |-> Running])
  /\ announced' = {}
  /\ UNCHANGED <<graphVars, planState>>

\* heartbeat: a lapsed lease that no sweep returned still belongs to its holder
Heartbeat(a, role) ==
  LET t == attempts[a].task IN
  /\ role \in MoveDef[OnClaim].by
  /\ lease[t] = a
  /\ lapsed' = [lapsed EXCEPT ![t] = FALSE]
  /\ announced' = {}
  /\ UNCHANGED <<graphVars, state, boosted, lease, attempts, planState>>

---------------------------------------------------------------------------
\* Plans and approval (plans.ts, validators.ts).

PlanTasks(pl) == {t \in tasks : plan[t] = pl}

\* plans.create
CreatePlan(pl, role) ==
  /\ MayCall("plans.create", role, None)
  /\ planState[pl] = None
  /\ planState' = [planState EXCEPT ![pl] = "open"]
  /\ announced' = {}
  /\ UNCHANGED <<graphVars, leaseVars, state, boosted>>

\* The built-in validators over a plan's snapshot; missing references cannot
\* occur, foreign keys keep them out.
PlanDeps(pl) == {e \in deps : e[1] \in PlanTasks(pl) \/ e[2] \in PlanTasks(pl)}
NoCycles(pl) == Acyclic(Task, PlanDeps(pl))
ContainersHaveChildren(pl) ==
  \A t \in PlanTasks(pl) : kind[t] = "container" => Children(t) # {}
\* Faulty variant: only claimed tasks are held against the plan.
NoneClaimed(T) == \A t \in T : state[t] # Leased
PreApproval(T) == \A t \in T : state[t] = CreateState

\* moveInTx on every task of T: guard, then state and boost
MoveAll(T, m) ==
  /\ MoveDef[m].guarded => \A t \in T : Guard(m, t, Db)
  /\ state' = [t \in Task |-> IF t \in T THEN MoveDef[m].to ELSE state[t]]
  /\ boosted' = [t \in Task |-> IF t \in T THEN BoostAfter(m, boosted[t]) ELSE boosted[t]]
  /\ UNCHANGED <<graphVars, leaseVars>>

\* plans.approve: all of the plan's proposed tasks open in one transaction
ApprovePlan(pl, role) ==
  /\ role \in MoveDef[OnApprove].by
  /\ planState[pl] = "open"
  /\ NoCycles(pl) /\ ContainersHaveChildren(pl) /\ PreApproval(PlanTasks(pl))
  /\ MoveAll(PlanTasks(pl), OnApprove)
  /\ planState' = [planState EXCEPT ![pl] = "approved"]
  /\ announced' = {}

\* plans.discard: refused while a live task left behind waits on, or sits under,
\* one being cancelled.  Where containers and dependencies of the plan wait on each
\* other in a circle, cancelOrder may cancel a container before its child and so
\* refuse as well, depending on the ids; here it may succeed.
DiscardPlan(pl, role) ==
  LET going == {t \in PlanTasks(pl) : state[t] = CreateState} IN
  /\ role \in MoveDef[OnDiscard].by
  /\ planState[pl] = "open"
  /\ \A t \in going : (LiveDependents(t) \cup LiveChildren(t)) \subseteq going
  /\ MoveAll(going, OnDiscard)
  /\ planState' = [planState EXCEPT ![pl] = "discarded"]
  /\ Announce({parent[t] : t \in going} \ going)

\* tasks.approve: a task of no plan
ApproveTask(t, role) ==
  /\ role \in MoveDef[OnApprove].by
  /\ plan[t] = None
  /\ state[t] \in MoveDef[OnApprove].from
  /\ PreApproval({t})
  /\ MoveAll({t}, OnApprove)
  /\ announced' = {}
  /\ UNCHANGED planState

---------------------------------------------------------------------------
\* Time.

\* A lease's expiry time passes without a heartbeat.
LeaseLapses(t) ==
  /\ lease[t] # None /\ ~lapsed[t]
  /\ lapsed' = [lapsed EXCEPT ![t] = TRUE]
  /\ announced' = {}
  /\ UNCHANGED <<graphVars, state, boosted, lease, attempts, planState>>

\* A task's hold_until passes.
HoldEnds(t) ==
  /\ held[t]
  /\ held' = [held EXCEPT ![t] = FALSE]
  /\ announced' = {}
  /\ UNCHANGED <<created, tasks, state, kind, parent, plan, priority, boosted, deps,
                 planState, leaseVars>>

---------------------------------------------------------------------------

TasksNext ==
  \/ \E role \in Role, k \in Kind, pr \in Priority, h \in Hold,
        p \in tasks \cup {None}, pl \in Plan \cup {None} : Create(role, k, pr, h, p, pl)
  \/ \E t \in tasks, role \in Role :
       \/ \E k \in Kind, pr \in Priority, h \in Hold, p \in tasks \cup {None} :
            Update(t, role, k, pr, h, p)
       \/ Delete(t, role)
       \/ \E u \in tasks : AddDep(t, u, role) \/ RemoveDep(t, u, role)

MovesNext ==
  \E t \in tasks, m \in Move, role \in MoveRole, drop \in BOOLEAN,
     fence \in DOMAIN attempts \cup {None} : MakeMove(t, m, role, drop, fence)

ClaimsNext ==
  \/ \E locked \in SUBSET tasks :
       ExpireLeases(locked) \/ \E role \in Role : Claim(role, locked)
  \/ \E a \in DOMAIN attempts, role \in Role : Heartbeat(a, role)

PlansNext ==
  \/ \E pl \in Plan, role \in Role :
       CreatePlan(pl, role) \/ ApprovePlan(pl, role) \/ DiscardPlan(pl, role)
  \/ \E t \in tasks, role \in Role : ApproveTask(t, role)

TimeNext == \E t \in tasks : LeaseLapses(t) \/ HoldEnds(t)

Next == TasksNext \/ MovesNext \/ ClaimsNext \/ PlansNext \/ TimeNext

Spec == Init /\ [][Next]_vars

---------------------------------------------------------------------------
\* Properties.

\* A lease exists exactly in the leased state, it names the one attempt of its
\* task that has not ended, and every attempt that has not ended holds its task:
\* claim opens the pair, and every way out of the leased state (a move, fenced or
\* not, the sweep, an edit or a plan's approval around it) must close both ends.
LeaseExact ==
  /\ \A t \in Task : state[t] = Leased <=> lease[t] # None
  /\ \A t \in Task : lease[t] # None =>
       /\ lease[t] \in DOMAIN attempts
       /\ attempts[lease[t]] = [task |-> t, outcome |-> Running]
  /\ \A a \in DOMAIN attempts :
       attempts[a].outcome = Running => lease[attempts[a].task] = a

\* A closed container has no live task under it: creating, reparenting, moving,
\* approving and discarding children all respect it (assertParentOpen, liveChildren).
ClosedOverClosed ==
  \A t \in tasks : parent[t] # None => parent[t] \in tasks /\ (Live(t) => Live(parent[t]))

\* Nothing live waits on work that ended without satisfying a dependency
\* (DependentsLive, dropDeps, the target check of deps.add, plans.discard).
NothingStranded ==
  \A e \in deps : Live(e[1]) => Live(e[2]) \/ state[e[2]] \in Satisfying

\* No dependency cycle, and the containers form a forest: the reachability
\* checks of deps.add and of a reparent suffice.
GraphAcyclic == Acyclic(Task, deps) /\ Acyclic(Task, ParentEdges)

\* No dependency joins a task to something that contains it, whether the edge or
\* the reparent came last.
NoNestedDeps == \A e \in deps : e[1] \notin Up(e[2]) /\ e[2] \notin Up(e[1])

\* No task expires RepeatAfter times in a row: the sweep blocks it instead, and the
\* count starts over after an attempt that ended another way.
ExpiriesBounded ==
  OnRepeatedExpiry # OnLeaseExpiry =>
    \A t \in tasks : Cardinality(PriorExpiries(t)) < RepeatAfter

\* Once a plan is approved or discarded, none of its tasks is still proposed, and
\* none joins it later.
PlansWhole ==
  \A t \in tasks : plan[t] # None =>
    /\ planState[plan[t]] # None
    /\ state[t] = CreateState => planState[plan[t]] = "open"

\* A finished task stays, in the state it finished in, whatever is called on it.
TerminalIsFinal ==
  [][\A t \in tasks : ~Live(t) => t \in tasks' /\ state'[t] = state[t]]_vars

\* History is kept: an attempt that ended keeps its outcome, and no attempt is lost
\* or given to another task.
AttemptsAppendOnly ==
  [][\A a \in DOMAIN attempts :
       /\ a \in DOMAIN attempts'
       /\ attempts'[a].task = attempts[a].task
       /\ attempts[a].outcome # Running => attempts'[a] = attempts[a]]_vars

\* children.settled is written in exactly the transaction that settles a container:
\* never for one that was settled already or is not, and always for one that is
\* still live, whichever of a move, a reparent, a delete or a discard settled it.
SettlingAnnounced ==
  [][\A c \in tasks' :
       /\ (~Settled(c) /\ Settled(c)' /\ Live(c)') => c \in announced'
       /\ c \in announced' => ~Settled(c) /\ Settled(c)']_vars

=============================================================================
