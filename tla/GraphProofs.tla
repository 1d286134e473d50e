---------------------------- MODULE GraphProofs ----------------------------
(***************************************************************************)
(* Proofs about the engine's graph, for every lifecycle that may register,  *)
(* every guard and every bound: the shape of containers, dependencies and   *)
(* plans, whatever sequence of calls built them; and what its steps may do  *)
(* over time to finished tasks, the attempts table, the count of expiries   *)
(* that blocks a task, and the event children.settled.                      *)
(***************************************************************************)
EXTENDS TaskGraphProofs, DataTheorems

USE DEF FlagsConsistent, DepsSatisfiable, NamesKnown, NothingLeavesTerminal,
        OnlyClaimLeases, ApproveHookFits, ClaimHookFits, DiscardHookFits, ExpiryHooksFit

---------------------------------------------------------------------------
\* What the proofs read off TypeOK, and off the rules of a lifecycle.

LEMMA Typed ==
  ASSUME TypeOK
  PROVE  /\ created \in Nat /\ tasks \subseteq 1 .. created /\ tasks \subseteq Task
         /\ Task \subseteq Nat /\ None \notin Task
         /\ state \in [Task -> State] /\ parent \in [Task -> Task \cup {None}]
         /\ plan \in [Task -> Plan \cup {None}] /\ kind \in [Task -> {"work", "container"}]
         /\ deps \subseteq tasks \X tasks /\ deps \subseteq Task \X Task
         /\ planState \in [Plan -> {None, "open", "approved", "discarded"}]
<1>1. MaxTasks \in Nat /\ None \notin Nat
  BY BoundsAssumption
<1>2. created \in Nat /\ tasks \subseteq 1 .. created /\ tasks \subseteq Task
      /\ Task \subseteq Nat /\ None \notin Task
  BY <1>1 DEF TypeOK, Task
<1>3. deps \subseteq tasks \X tasks /\ deps \subseteq Task \X Task
  BY <1>2 DEF TypeOK
<1> QED  BY <1>2, <1>3 DEF TypeOK

\* The states that create, claim, the sweep, approval and discard read and write.
LEMMA LiveStates ==
  /\ CreateState \notin Terminal /\ Claimable \notin Terminal /\ Leased \notin Terminal
  /\ \A r \in Role : CreateByRole[r] \notin Terminal
  /\ MoveDef[OnApprove].to = Claimable
  /\ MoveDef[OnDiscard].to \in Terminal
<1>1. CreateState \notin Terminal
  BY ApproveHook, TerminalFinal
<1> QED  BY <1>1, FlagRules, KnownNames, ApproveHook, DiscardHook

---------------------------------------------------------------------------
\* The steps that leave the graph alone.

\* No task comes, goes, is contained elsewhere, ends or changes once ended; edges stay.
Quiet ==
  /\ UNCHANGED <<created, tasks, kind, parent, plan, deps>>
  /\ \A t \in Task : /\ Live(t)' <=> Live(t)
                     /\ ~Live(t) => state'[t] = state[t]

LEMMA SweptLive ==
  ASSUME TypeOK, NEW S \in SUBSET Lapsed
  PROVE  \A t \in Task : /\ SweptState(S)[t] \in Terminal <=> state[t] \in Terminal
                         /\ state[t] \in Terminal => SweptState(S)[t] = state[t]
<1>1. \A t \in S : state[t] = Leased
  BY DEF Lapsed
<1>2. \A t : MoveDef[ExpiryMove(t)].to \notin Terminal
  BY ExpiryMoveTarget
<1> QED  BY <1>1, <1>2, LiveStates DEF SweptState

LEMMA ClaimsQuiet ==
  ASSUME TypeOK, NEW locked \in SUBSET tasks,
         ExpireLeases(locked) \/ \E role \in Role : Claim(role, locked)
  PROVE  Quiet
<1> DEFINE S == Lapsed \ locked
<1>1. S \in SUBSET Lapsed
  OBVIOUS
<1> HIDE DEF S
<1>2. \A t \in Task : /\ SweptState(S)[t] \in Terminal <=> state[t] \in Terminal
                      /\ state[t] \in Terminal => SweptState(S)[t] = state[t]
  BY <1>1, SweptLive
<1>3. CASE ExpireLeases(locked)
  <2>1. state' = SweptState(S) /\ UNCHANGED <<created, tasks, kind, parent, plan, deps>>
    BY <1>3 DEF ExpireLeases, S, graphVars
  <2> QED  BY <1>2, <2>1 DEF Quiet, Live
<1>4. ASSUME NEW role \in Role, Claim(role, locked) PROVE Quiet
  <2>1. UNCHANGED <<created, tasks, kind, parent, plan, deps>>
    BY <1>4 DEF Claim, graphVars
  <2>2. PICK t \in tasks : ReadyIn(SweptState(S), t) /\ state' = [SweptState(S) EXCEPT ![t] = Leased]
    BY <1>4 DEF Claim, S
  <2>3. SweptState(S)[t] = Claimable
    BY <2>2 DEF ReadyIn
  <2>4. \A x \in Task : state'[x] = IF x = t THEN Leased ELSE SweptState(S)[x]
    BY <2>2 DEF SweptState
  <2> QED  BY <1>2, <2>1, <2>3, <2>4, LiveStates DEF Quiet, Live
<1> QED  BY <1>3, <1>4

LEMMA ApprovalsQuiet ==
  ASSUME TypeOK, NEW T \in SUBSET tasks, PreApproval(T), MoveAll(T, OnApprove)
  PROVE  Quiet
<1>1. UNCHANGED <<created, tasks, kind, parent, plan, deps>>
  BY DEF MoveAll, graphVars
<1>2. \A x \in Task : state'[x] = IF x \in T THEN Claimable ELSE state[x]
  BY LiveStates DEF MoveAll
<1> QED  BY <1>1, <1>2, LiveStates DEF Quiet, Live, PreApproval

\* Every step is an edit of the graph, a move, a discard, or quiet.
LEMMA StepKinds ==
  ASSUME TypeOK, [Next]_vars
  PROVE  \/ Quiet
         \/ \E role \in Role, k \in Kind, pr \in Priority, h \in Hold,
               p \in tasks \cup {None}, pl \in Plan \cup {None} : Create(role, k, pr, h, p, pl)
         \/ \E t \in tasks, role \in Role, k \in Kind, pr \in Priority, h \in Hold,
               p \in tasks \cup {None} : Update(t, role, k, pr, h, p)
         \/ \E t \in tasks, role \in Role : Delete(t, role)
         \/ \E t \in tasks, u \in tasks, role \in Role :
              AddDep(t, u, role) \/ RemoveDep(t, u, role)
         \/ \E t \in tasks, m \in Move, role \in MoveRole, drop \in BOOLEAN,
               fence \in DOMAIN attempts \cup {None} : MakeMove(t, m, role, drop, fence)
         \/ \E pl \in Plan, role \in Role : DiscardPlan(pl, role)
<1>1. ASSUME NEW a, NEW role, Heartbeat(a, role) PROVE Quiet
  BY <1>1 DEF Heartbeat, graphVars, Quiet, Live
<1>2. ASSUME NEW pl, NEW role, CreatePlan(pl, role) PROVE Quiet
  BY <1>2 DEF CreatePlan, graphVars, Quiet, Live
<1>3. ASSUME NEW pl, NEW role, ApprovePlan(pl, role) PROVE Quiet
  BY <1>3, ApprovalsQuiet DEF ApprovePlan, PlanTasks
<1>4. ASSUME NEW t \in tasks, NEW role, ApproveTask(t, role) PROVE Quiet
  BY <1>4, ApprovalsQuiet DEF ApproveTask
<1>5. ASSUME NEW t, LeaseLapses(t) \/ HoldEnds(t) PROVE Quiet
  BY <1>5 DEF LeaseLapses, HoldEnds, graphVars, Quiet, Live
<1>6. CASE UNCHANGED vars
  BY <1>6 DEF vars, Quiet, Live
<1> QED
  BY <1>1, <1>2, <1>3, <1>4, <1>5, <1>6, ClaimsQuiet
  DEF Next, TasksNext, MovesNext, ClaimsNext, PlansNext, TimeNext

---------------------------------------------------------------------------
\* What a new id, a move and a discard do to the tables.

\* The id tasks.create gives out is not in any table yet.
LEMMA CreateFresh ==
  ASSUME TypeOK, NEW role \in Role, NEW k, NEW pr, NEW h, NEW p, NEW pl,
         Create(role, k, pr, h, p, pl)
  PROVE  /\ created + 1 \in Task \ tasks
         /\ created' = created + 1 /\ tasks' = tasks \cup {created + 1}
         /\ state'[created + 1] \in {CreateState, Claimable}
         /\ pl # None => state'[created + 1] = CreateState
         /\ parent'[created + 1] = p /\ plan'[created + 1] = pl /\ kind'[created + 1] = k
         /\ \A x \in Task \ {created + 1} :
              /\ state'[x] = state[x] /\ parent'[x] = parent[x]
              /\ plan'[x] = plan[x] /\ kind'[x] = kind[x]
         /\ UNCHANGED <<deps, planState>>
<1>1. created + 1 \in Task \ tasks
  <2>1. created \in Nat /\ created < MaxTasks /\ MaxTasks \in Nat /\ tasks \subseteq 1 .. created
    BY Typed, BoundsAssumption DEF Create
  <2> QED  BY <2>1 DEF Task
<1>2. /\ created' = created + 1 /\ tasks' = tasks \cup {created + 1}
      /\ state' = [state EXCEPT ![created + 1] = IF pl = None THEN CreateByRole[role]
                                                 ELSE CreateState]
      /\ kind' = [kind EXCEPT ![created + 1] = k]
      /\ parent' = [parent EXCEPT ![created + 1] = p]
      /\ plan' = [plan EXCEPT ![created + 1] = pl]
      /\ UNCHANGED <<deps, planState>>
  BY DEF Create
<1>3. CreateByRole[role] \in {CreateState, Claimable}
  BY KnownNames
<1> QED  BY <1>1, <1>2, <1>3, Typed

\* A move is of a live task.
LEMMA MoveEffect ==
  ASSUME TypeOK, NEW t \in tasks, NEW m \in Move, NEW role, NEW drop, NEW fence,
         MakeMove(t, m, role, drop, fence)
  PROVE  /\ Live(t)
         /\ \A x \in Task : state'[x] = IF x = t THEN MoveDef[m].to ELSE state[x]
         /\ UNCHANGED <<created, tasks, kind, parent, plan, planState>>
         /\ deps' \subseteq deps
         /\ Strands(m) => \A w \in LiveDependents(t) : <<w, t>> \notin deps'
         /\ ToTerminal(m) => LiveChildren(t) = {}
<1>1. state' = [state EXCEPT ![t] = MoveDef[m].to] /\ state[t] \in MoveDef[m].from
  BY DEF MakeMove
<1>2. Live(t)
  BY <1>1, TerminalFinal DEF Live
<1>3. /\ UNCHANGED <<created, tasks, kind, parent, plan, planState>>
      /\ ToTerminal(m) => LiveChildren(t) = {}
      /\ deps' = IF Strands(m) THEN deps \ {<<w, t>> : w \in LiveDependents(t)} ELSE deps
  BY DEF MakeMove
<1> QED  BY <1>1, <1>2, <1>3, Typed

\* What plans.discard cancels: live tasks, with everything live below or behind them.
Going(pl) == {t \in PlanTasks(pl) : state[t] = CreateState}

LEMMA DiscardEffect ==
  ASSUME TypeOK, NEW pl, NEW role, DiscardPlan(pl, role)
  PROVE  /\ \A x \in Task : state'[x] = IF x \in Going(pl) THEN MoveDef[OnDiscard].to ELSE state[x]
         /\ \A x \in Going(pl) : x \in tasks /\ Live(x)
         /\ \A x \in Going(pl) : (LiveDependents(x) \cup LiveChildren(x)) \subseteq Going(pl)
         /\ UNCHANGED <<created, tasks, kind, parent, plan, deps>>
         /\ planState' = [planState EXCEPT ![pl] = "discarded"]
  BY LiveStates DEF DiscardPlan, MoveAll, graphVars, Going, PlanTasks, Live

---------------------------------------------------------------------------
\* Closed containers.

LEMMA ClosedQuiet == ASSUME TypeOK, ClosedOverClosed, Quiet PROVE ClosedOverClosed'
  BY Typed DEF ClosedOverClosed, Quiet

LEMMA ClosedStep == TypeOK /\ ClosedOverClosed /\ [Next]_vars => ClosedOverClosed'
<1> SUFFICES ASSUME TypeOK, ClosedOverClosed, [Next]_vars PROVE ClosedOverClosed'
  OBVIOUS
<1>t. tasks \subseteq Task /\ None \notin Task /\ parent \in [Task -> Task \cup {None}]
  BY Typed
<1>1. CASE Quiet
  BY <1>1, ClosedQuiet
<1>2. ASSUME NEW role \in Role, NEW k \in Kind, NEW pr \in Priority, NEW h \in Hold,
             NEW p \in tasks \cup {None}, NEW pl \in Plan \cup {None},
             Create(role, k, pr, h, p, pl)
      PROVE  ClosedOverClosed'
  <2>1. p # None => p \in tasks /\ Live(p)
    BY <1>2 DEF Create
  <2>2. \A x \in tasks : x # created + 1 /\ x \in tasks' /\ parent'[x] = parent[x]
                         /\ state'[x] = state[x]
    BY <1>t, <1>2, CreateFresh
  <2>3. tasks' = tasks \cup {created + 1} /\ parent'[created + 1] = p
    BY <1>2, CreateFresh
  <2> QED  BY <2>1, <2>2, <2>3 DEF ClosedOverClosed, Live
<1>3. ASSUME NEW t \in tasks, NEW role \in Role, NEW k \in Kind, NEW pr \in Priority,
             NEW h \in Hold, NEW p \in tasks \cup {None}, Update(t, role, k, pr, h, p)
      PROVE  ClosedOverClosed'
  <2>1. parent' = [parent EXCEPT ![t] = p] /\ UNCHANGED <<tasks, state>>
    BY <1>3 DEF Update
  <2>2. p # parent[t] /\ p # None => (Live(t) => Live(p))
    BY <1>3 DEF Update, MayReparent
  <2> QED  BY <1>t, <2>1, <2>2 DEF ClosedOverClosed, Live
<1>4. ASSUME NEW t \in tasks, NEW role \in Role, Delete(t, role)
      PROVE  ClosedOverClosed'
  BY <1>4 DEF Delete, Children, ClosedOverClosed, Live
<1>5. ASSUME NEW t \in tasks, NEW u \in tasks, NEW role \in Role,
             AddDep(t, u, role) \/ RemoveDep(t, u, role)
      PROVE  ClosedOverClosed'
  BY <1>5 DEF AddDep, RemoveDep, ClosedOverClosed, Live
<1>6. ASSUME NEW t \in tasks, NEW m \in Move, NEW role \in MoveRole, NEW drop \in BOOLEAN,
             NEW fence \in DOMAIN attempts \cup {None}, MakeMove(t, m, role, drop, fence)
      PROVE  ClosedOverClosed'
  <2>1. /\ Live(t)
        /\ \A x \in Task : state'[x] = IF x = t THEN MoveDef[m].to ELSE state[x]
        /\ UNCHANGED <<tasks, parent>>
        /\ ToTerminal(m) => LiveChildren(t) = {}
    BY <1>6, MoveEffect
  <2> QED  BY <1>t, <2>1 DEF ClosedOverClosed, Live, LiveChildren, Children, ToTerminal
<1>7. ASSUME NEW pl \in Plan, NEW role \in Role, DiscardPlan(pl, role)
      PROVE  ClosedOverClosed'
  <2>1. /\ \A x \in Task : state'[x] = IF x \in Going(pl) THEN MoveDef[OnDiscard].to ELSE state[x]
        /\ \A x \in Going(pl) : LiveChildren(x) \subseteq Going(pl)
        /\ UNCHANGED <<tasks, parent>>
    BY <1>7, DiscardEffect
  <2> QED  BY <1>t, <2>1, LiveStates DEF ClosedOverClosed, Live, LiveChildren, Children
<1> QED  BY <1>1, <1>2, <1>3, <1>4, <1>5, <1>6, <1>7, StepKinds

\* A container is closed only over closed tasks: whatever creates, reparents, moves,
\* approves and discards there were, a live task's container exists and is live.
THEOREM ContainersCloseLast == Spec => []ClosedOverClosed
<1>1. Init => TypeOK /\ ClosedOverClosed
  BY TypeInit DEF Init, ClosedOverClosed
<1>2. TypeOK /\ ClosedOverClosed /\ [Next]_vars => TypeOK' /\ ClosedOverClosed'
  BY TypeStep, ClosedStep
<1> QED  BY <1>1, <1>2, PTL DEF Spec

---------------------------------------------------------------------------
\* Dependencies on ended work.

LEMMA StrandedStep == TypeOK /\ NothingStranded /\ [Next]_vars => NothingStranded'
<1> SUFFICES ASSUME TypeOK, NothingStranded, [Next]_vars PROVE NothingStranded'
  OBVIOUS
<1>t. tasks \subseteq Task /\ \A e \in deps : e = <<e[1], e[2]>> /\ e[1] \in tasks /\ e[2] \in tasks
  BY Typed
<1>1. CASE Quiet
  BY <1>1, <1>t DEF NothingStranded, Quiet, Live
<1>2. ASSUME NEW role \in Role, NEW k \in Kind, NEW pr \in Priority, NEW h \in Hold,
             NEW p \in tasks \cup {None}, NEW pl \in Plan \cup {None},
             Create(role, k, pr, h, p, pl)
      PROVE  NothingStranded'
  <2>1. UNCHANGED deps /\ \A x \in tasks : state'[x] = state[x]
    BY <1>t, <1>2, CreateFresh
  <2> QED  BY <1>t, <2>1 DEF NothingStranded, Live
<1>3. ASSUME NEW t \in tasks, NEW role \in Role,
             \/ \E k \in Kind, pr \in Priority, h \in Hold, p \in tasks \cup {None} :
                  Update(t, role, k, pr, h, p)
             \/ Delete(t, role)
             \/ \E u \in tasks : RemoveDep(t, u, role)
      PROVE  NothingStranded'
  <2>1. UNCHANGED state /\ deps' \subseteq deps
    BY <1>3 DEF Update, Delete, RemoveDep, EdgesWithout
  <2> QED  BY <2>1 DEF NothingStranded, Live
<1>4. ASSUME NEW t \in tasks, NEW u \in tasks, NEW role \in Role, AddDep(t, u, role)
      PROVE  NothingStranded'
  BY <1>4 DEF AddDep, NothingStranded, Live
<1>5. ASSUME NEW t \in tasks, NEW m \in Move, NEW role \in MoveRole, NEW drop \in BOOLEAN,
             NEW fence \in DOMAIN attempts \cup {None}, MakeMove(t, m, role, drop, fence)
      PROVE  NothingStranded'
  <2>1. /\ Live(t)
        /\ \A x \in Task : state'[x] = IF x = t THEN MoveDef[m].to ELSE state[x]
        /\ deps' \subseteq deps
        /\ Strands(m) => \A w \in LiveDependents(t) : <<w, t>> \notin deps'
    BY <1>5, MoveEffect
  <2> SUFFICES ASSUME NEW e \in deps', Live(e[1])'
               PROVE  Live(e[2])' \/ state'[e[2]] \in Satisfying
    BY DEF NothingStranded
  <2>2. e \in deps /\ e = <<e[1], e[2]>> /\ e[1] \in tasks /\ e[2] \in tasks
    BY <1>t, <2>1
  <2>3. Live(e[1])
    BY <1>t, <2>1, <2>2 DEF Live
  <2>4. CASE e[2] # t
    BY <1>t, <2>1, <2>2, <2>3, <2>4 DEF NothingStranded, Live
  <2>5. CASE e[2] = t
    <3>1. e[1] \in LiveDependents(t)
      BY <2>2, <2>3, <2>5 DEF LiveDependents
    <3>2. ~Strands(m)
      BY <2>1, <2>2, <2>5, <3>1
    <3> QED  BY <1>t, <2>1, <2>5, <3>2 DEF Strands, ToTerminal, Live
  <2> QED  BY <2>4, <2>5
<1>6. ASSUME NEW pl \in Plan, NEW role \in Role, DiscardPlan(pl, role)
      PROVE  NothingStranded'
  <2>1. /\ \A x \in Task : state'[x] = IF x \in Going(pl) THEN MoveDef[OnDiscard].to ELSE state[x]
        /\ \A x \in Going(pl) : LiveDependents(x) \subseteq Going(pl)
        /\ \A x \in Going(pl) : Live(x)
        /\ UNCHANGED deps
    BY <1>6, DiscardEffect
  <2> QED  BY <1>t, <2>1, LiveStates DEF NothingStranded, Live, LiveDependents
<1> QED  BY <1>1, <1>2, <1>3, <1>4, <1>5, <1>6, StepKinds

\* Nothing live ever waits on work that ended without satisfying it: the checks of
\* deps.add, of a move out of the way (dropDeps) and of plans.discard suffice together.
THEOREM NoWaitIsHopeless == Spec => []NothingStranded
<1>1. Init => TypeOK /\ NothingStranded
  BY TypeInit DEF Init, NothingStranded
<1>2. TypeOK /\ NothingStranded /\ [Next]_vars => TypeOK' /\ NothingStranded'
  BY TypeStep, StrandedStep
<1> QED  BY <1>1, <1>2, PTL DEF Spec

---------------------------------------------------------------------------
\* Cycles.

\* The container edges lie between nodes, within the tasks.
LEMMA ParentEdgesTyped ==
  ASSUME TypeOK, ClosedOverClosed
  PROVE  /\ ParentEdges \subseteq Task \X Task
         /\ \A e \in ParentEdges : e = <<e[1], e[2]>> /\ e[1] \in tasks /\ e[2] \in tasks
         /\ ClosedUnder(ParentEdges, tasks)
<1>1. \A e \in ParentEdges : e = <<e[1], e[2]>> /\ e[1] \in tasks /\ e[2] \in tasks
  BY DEF ParentEdges, ClosedOverClosed
<1> QED  BY <1>1, Typed DEF ClosedUnder

\* How a step changes the container edges: not at all or to fewer; by the one edge of a
\* new task; or by the one edge of a reparented task that was checked.
LEMMA ParentEdgesStep ==
  ASSUME TypeOK, ClosedOverClosed, [Next]_vars
  PROVE  \/ ParentEdges' \subseteq ParentEdges /\ tasks' \subseteq tasks
         \/ \E t \in Task \ tasks, p \in tasks :
              /\ ParentEdges' = ParentEdges \cup {<<t, p>>} /\ tasks' = tasks \cup {t}
              /\ UNCHANGED deps
         \/ \E t \in Task \ tasks :
              /\ ParentEdges' = ParentEdges /\ tasks' = tasks \cup {t}
              /\ UNCHANGED deps
         \/ \E t \in tasks, p \in tasks :
              /\ ParentEdges' \subseteq ParentEdges \cup {<<t, p>>}
              /\ MayReparent(t, p) /\ UNCHANGED <<tasks, deps>>
<1>t. tasks \subseteq Task /\ None \notin Task /\ parent \in [Task -> Task \cup {None}]
  BY Typed
<1>1. ASSUME UNCHANGED <<tasks, parent>>
      PROVE  ParentEdges' = ParentEdges /\ tasks' = tasks
  BY <1>1 DEF ParentEdges
<1>2. CASE Quiet
  BY <1>1, <1>2 DEF Quiet
<1>3. ASSUME NEW role \in Role, NEW k \in Kind, NEW pr \in Priority, NEW h \in Hold,
             NEW p \in tasks \cup {None}, NEW pl \in Plan \cup {None},
             Create(role, k, pr, h, p, pl)
      PROVE  \E t \in Task \ tasks :
               /\ IF p = None THEN ParentEdges' = ParentEdges
                              ELSE ParentEdges' = ParentEdges \cup {<<t, p>>}
               /\ tasks' = tasks \cup {t} /\ UNCHANGED deps
  <2> DEFINE t == created + 1
  <2>1. /\ t \in Task \ tasks /\ tasks' = tasks \cup {t} /\ UNCHANGED deps
        /\ parent'[t] = p /\ \A x \in tasks : parent'[x] = parent[x]
    BY <1>t, <1>3, CreateFresh
  <2> HIDE DEF t
  <2>2. CASE p = None
    BY <2>1, <2>2 DEF ParentEdges
  <2>3. CASE p # None
    <3>1. {x \in tasks' : parent'[x] # None} = {x \in tasks : parent[x] # None} \cup {t}
      BY <2>1, <2>3
    <3>2. ParentEdges' = {<<c, parent'[c]>> : c \in {x \in tasks : parent[x] # None} \cup {t}}
      BY <3>1 DEF ParentEdges
    <3>3. ParentEdges' = ParentEdges \cup {<<t, p>>}
      BY <2>1, <3>2 DEF ParentEdges
    <3> QED  BY <2>1, <2>3, <3>3
  <2> QED  BY <2>1, <2>2, <2>3
<1>4. ASSUME NEW t \in tasks, NEW role \in Role, NEW k \in Kind, NEW pr \in Priority,
             NEW h \in Hold, NEW p \in tasks \cup {None}, Update(t, role, k, pr, h, p)
      PROVE  \/ ParentEdges' \subseteq ParentEdges /\ tasks' \subseteq tasks
             \/ /\ p \in tasks /\ ParentEdges' \subseteq ParentEdges \cup {<<t, p>>}
                /\ MayReparent(t, p) /\ UNCHANGED <<tasks, deps>>
  <2>1. /\ parent' = [parent EXCEPT ![t] = p] /\ UNCHANGED <<tasks, deps>>
        /\ p # parent[t] /\ p # None => MayReparent(t, p)
    BY <1>4 DEF Update
  <2>2. \A e \in ParentEdges' : e \in ParentEdges \/ (e = <<t, p>> /\ p # None)
    BY <1>t, <2>1 DEF ParentEdges
  <2>3. p = parent[t] /\ p # None => <<t, p>> \in ParentEdges
    BY DEF ParentEdges
  <2> QED  BY <2>1, <2>2, <2>3
<1>5. ASSUME NEW t \in tasks, NEW role \in Role, Delete(t, role)
      PROVE  ParentEdges' \subseteq ParentEdges /\ tasks' \subseteq tasks
  BY <1>5 DEF Delete, ParentEdges
<1>6. ASSUME NEW t \in tasks, NEW u \in tasks, NEW role \in Role,
             AddDep(t, u, role) \/ RemoveDep(t, u, role)
      PROVE  ParentEdges' = ParentEdges /\ tasks' = tasks
  BY <1>1, <1>6 DEF AddDep, RemoveDep
<1>7. ASSUME NEW t \in tasks, NEW m \in Move, NEW role \in MoveRole, NEW drop \in BOOLEAN,
             NEW fence \in DOMAIN attempts \cup {None}, MakeMove(t, m, role, drop, fence)
      PROVE  ParentEdges' = ParentEdges /\ tasks' = tasks
  BY <1>1, <1>7 DEF MakeMove
<1>8. ASSUME NEW pl \in Plan, NEW role \in Role, DiscardPlan(pl, role)
      PROVE  ParentEdges' = ParentEdges /\ tasks' = tasks
  BY <1>1, <1>8, DiscardEffect
<1>9. CASE \E role \in Role, k \in Kind, pr \in Priority, h \in Hold,
               p \in tasks \cup {None}, pl \in Plan \cup {None} : Create(role, k, pr, h, p, pl)
  <2>1. PICK t \in Task \ tasks, p \in tasks \cup {None} :
               /\ IF p = None THEN ParentEdges' = ParentEdges
                              ELSE ParentEdges' = ParentEdges \cup {<<t, p>>}
               /\ tasks' = tasks \cup {t} /\ UNCHANGED deps
    BY <1>3, <1>9
  <2> QED  BY <2>1
<1>10. CASE \E t \in tasks, role \in Role, k \in Kind, pr \in Priority, h \in Hold,
               p \in tasks \cup {None} : Update(t, role, k, pr, h, p)
  BY <1>4, <1>10
<1> QED  BY <1>2, <1>5, <1>6, <1>7, <1>8, <1>9, <1>10, StepKinds

\* How a step changes the dependencies: to fewer, or by one edge that was checked.
LEMMA DepsStep ==
  ASSUME TypeOK, [Next]_vars
  PROVE  \/ deps' \subseteq deps
         \/ \E t \in tasks, u \in tasks :
              /\ deps' = deps \cup {<<t, u>>}
              /\ ~Reaches(Task, deps, u, t) /\ u \notin Up(t) /\ t \notin Up(u)
              /\ UNCHANGED <<tasks, parent>>
<1>1. CASE Quiet
  BY <1>1 DEF Quiet
<1>2. ASSUME NEW role \in Role, NEW k, NEW pr, NEW h, NEW p, NEW pl, Create(role, k, pr, h, p, pl)
      PROVE  deps' = deps
  BY <1>2 DEF Create
<1>3. ASSUME NEW t, NEW role, NEW k, NEW pr, NEW h, NEW p, Update(t, role, k, pr, h, p)
      PROVE  deps' = deps
  BY <1>3 DEF Update
<1>4. ASSUME NEW t, NEW role, Delete(t, role) PROVE deps' \subseteq deps
  BY <1>4 DEF Delete, EdgesWithout
<1>5. ASSUME NEW t, NEW u, NEW role, AddDep(t, u, role)
      PROVE  /\ deps' = deps \cup {<<t, u>>}
             /\ ~Reaches(Task, deps, u, t) /\ u \notin Up(t) /\ t \notin Up(u)
             /\ UNCHANGED <<tasks, parent>>
  BY <1>5 DEF AddDep
<1>6. ASSUME NEW t, NEW u, NEW role, RemoveDep(t, u, role) PROVE deps' \subseteq deps
  BY <1>6 DEF RemoveDep
<1>7. ASSUME NEW t, NEW m, NEW role, NEW drop, NEW fence, MakeMove(t, m, role, drop, fence)
      PROVE  deps' \subseteq deps
  BY <1>7 DEF MakeMove
<1>8. ASSUME NEW pl, NEW role, DiscardPlan(pl, role) PROVE deps' \subseteq deps
  BY <1>8 DEF DiscardPlan, MoveAll, graphVars
<1> QED  BY <1>1, <1>2, <1>3, <1>4, <1>5, <1>6, <1>7, <1>8, StepKinds

LEMMA AcyclicStep == TypeOK /\ ClosedOverClosed /\ GraphAcyclic /\ [Next]_vars => GraphAcyclic'
<1> SUFFICES ASSUME TypeOK, ClosedOverClosed, GraphAcyclic, [Next]_vars PROVE GraphAcyclic'
  OBVIOUS
<1>t. tasks \subseteq Task
  BY Typed
<1>1. Acyclic(Task, deps')
  <2>1. CASE deps' \subseteq deps
    BY <2>1, AcyclicSubset DEF GraphAcyclic
  <2>2. ASSUME NEW t \in tasks, NEW u \in tasks, deps' = deps \cup {<<t, u>>},
               ~Reaches(Task, deps, u, t)
        PROVE  Acyclic(Task, deps')
    BY <1>t, <2>2, AcyclicAddEdge DEF GraphAcyclic
  <2> QED  BY <2>1, <2>2, DepsStep
<1>2. Acyclic(Task, ParentEdges')
  <2>1. CASE ParentEdges' \subseteq ParentEdges
    BY <2>1, AcyclicSubset DEF GraphAcyclic
  <2>2. ASSUME NEW t \in Task \ tasks, NEW p \in tasks, ParentEdges' = ParentEdges \cup {<<t, p>>}
        PROVE  Acyclic(Task, ParentEdges')
    <3>1. ~Reaches(Task, ParentEdges, p, t)
      BY <1>t, ParentEdgesTyped, ReachesWithin
    <3> QED  BY <1>t, <2>2, <3>1, AcyclicAddEdge DEF GraphAcyclic
  <2>3. ASSUME NEW t \in tasks, NEW p \in tasks, MayReparent(t, p),
               ParentEdges' \subseteq ParentEdges \cup {<<t, p>>}
        PROVE  Acyclic(Task, ParentEdges')
    <3>1. ~Reaches(Task, ParentEdges, p, t)
      BY <2>3 DEF MayReparent, Up
    <3>2. Acyclic(Task, ParentEdges \cup {<<t, p>>})
      BY <1>t, <3>1, AcyclicAddEdge DEF GraphAcyclic
    <3> QED  BY <2>3, <3>2, AcyclicSubset
  <2> QED  BY <2>1, <2>2, <2>3, ParentEdgesStep
<1>3. Task' = Task
  BY DEF Task
<1> QED  BY <1>1, <1>2, <1>3 DEF GraphAcyclic

\* The containers always form a forest and the dependencies a graph without cycles:
\* the check deps.add and a reparent make is enough, because ids are never used again
\* and no edge outlives its tasks.
THEOREM NoCycleEver == Spec => []GraphAcyclic
<1> DEFINE Inv == TypeOK /\ ClosedOverClosed /\ GraphAcyclic
<1>1. Init => Inv
  <2>1. Init => ParentEdges = {} /\ deps = {}
    BY DEF Init, ParentEdges
  <2> QED  BY <2>1, TypeInit DEF Init, ClosedOverClosed, GraphAcyclic, Acyclic
<1>2. Inv /\ [Next]_vars => Inv'
  BY TypeStep, ClosedStep, AcyclicStep
<1> QED  BY <1>1, <1>2, PTL DEF Spec

---------------------------------------------------------------------------
\* Dependencies across containment.

\* A new task is above nothing.
LEMMA NewIsAboveNothing ==
  ASSUME TypeOK, ClosedOverClosed, NEW t \in Task \ tasks, NEW p \in tasks,
         NEW x \in tasks, NEW y \in tasks, Reaches(Task, ParentEdges \cup {<<t, p>>}, x, y)
  PROVE  Reaches(Task, ParentEdges, x, y)
<1>1. ParentEdges \subseteq Task \X Task /\ ClosedUnder(ParentEdges, tasks) /\ tasks \subseteq Task
  BY Typed, ParentEdgesTyped
<1>2. ~Reaches(Task, ParentEdges, x, t)
  BY <1>1, ReachesWithin
<1>3. p \in Task /\ x \in Task
  BY <1>1
<1>4. \/ Reaches(Task, ParentEdges, x, y)
      \/ Reaches(Task, ParentEdges, x, t) /\ Reaches(Task, ParentEdges, p, y)
  BY <1>1, <1>3, ReachesAddEdge
<1> QED  BY <1>2, <1>4

LEMMA NestedStep ==
  TypeOK /\ ClosedOverClosed /\ NoNestedDeps /\ [Next]_vars => NoNestedDeps'
<1> SUFFICES ASSUME TypeOK, ClosedOverClosed, NoNestedDeps, [Next]_vars PROVE NoNestedDeps'
  OBVIOUS
<1>t. /\ tasks \subseteq Task /\ ParentEdges \subseteq Task \X Task
      /\ \A e \in deps : e = <<e[1], e[2]>> /\ e[1] \in tasks /\ e[2] \in tasks
  BY Typed, ParentEdgesTyped
<1>p. Task' = Task
  BY DEF Task
<1>1. CASE deps' \subseteq deps /\ ParentEdges' \subseteq ParentEdges /\ tasks' \subseteq tasks
  <2>1. \A x : Up(x)' \subseteq Up(x)
    BY <1>1, <1>p, ReachesFewer DEF Up
  <2> QED  BY <1>1, <2>1 DEF NoNestedDeps
<1>2. ASSUME NEW t \in Task \ tasks, tasks' = tasks \cup {t}, UNCHANGED deps,
             \/ ParentEdges' = ParentEdges
             \/ \E p \in tasks : ParentEdges' = ParentEdges \cup {<<t, p>>}
      PROVE  NoNestedDeps'
  <2>1. \A x, y \in tasks : Reaches(Task, ParentEdges', x, y) => Reaches(Task, ParentEdges, x, y)
    BY <1>2, NewIsAboveNothing
  <2>2. \A x, y \in tasks : x \in Up(y)' => x \in Up(y)
    BY <1>p, <2>1 DEF Up
  <2> QED  BY <1>t, <1>2, <2>2 DEF NoNestedDeps
<1>3. ASSUME NEW t \in tasks, NEW p \in tasks, MayReparent(t, p), UNCHANGED <<tasks, deps>>,
             ParentEdges' \subseteq ParentEdges \cup {<<t, p>>}
      PROVE  NoNestedDeps'
  <2>1. ASSUME NEW x \in tasks, NEW y \in tasks, x \in Up(y)'
        PROVE  x \in Up(y) \/ (y \in Down(t) /\ x \in Up(p))
    <3>1. Reaches(Task, ParentEdges', y, x)
      BY <1>p, <2>1 DEF Up
    <3>2. Reaches(Task, ParentEdges \cup {<<t, p>>}, y, x)
      BY <1>3, <3>1, ReachesFewer
    <3>3. t \in Task /\ p \in Task /\ y \in Task
      BY <1>t
    <3>4. \/ Reaches(Task, ParentEdges, y, x)
          \/ Reaches(Task, ParentEdges, y, t) /\ Reaches(Task, ParentEdges, p, x)
      BY <1>t, <3>2, <3>3, ReachesAddEdge
    <3> QED  BY <3>4 DEF Up, Down
  <2>2. ~\E u \in Up(p), d \in Down(t) : <<u, d>> \in deps \/ <<d, u>> \in deps
    BY <1>3 DEF MayReparent
  <2>3. \A e \in deps : /\ ~(e[2] \in Down(t) /\ e[1] \in Up(p))
                        /\ ~(e[1] \in Down(t) /\ e[2] \in Up(p))
    BY <1>t, <2>2
  <2> QED  BY <1>t, <1>3, <2>1, <2>3 DEF NoNestedDeps
<1>4. ASSUME NEW t \in tasks, NEW u \in tasks, deps' = deps \cup {<<t, u>>},
             u \notin Up(t), t \notin Up(u), UNCHANGED <<tasks, parent>>
      PROVE  NoNestedDeps'
  <2>1. \A x : Up(x)' = Up(x)
    BY <1>4, <1>p DEF Up, ParentEdges
  <2> QED  BY <1>4, <2>1 DEF NoNestedDeps
<1>5. CASE deps' \subseteq deps
  BY <1>1, <1>2, <1>3, <1>5, ParentEdgesStep
<1> QED  BY <1>4, <1>5, DepsStep

\* No task ever waits for one that contains it, or for one it contains, whichever of the
\* dependency and the reparent came first: neither could finish before the other.
THEOREM NoWaitOnAncestor == Spec => []NoNestedDeps
<1> DEFINE Inv == TypeOK /\ ClosedOverClosed /\ NoNestedDeps
<1>1. Init => Inv
  BY TypeInit DEF Init, ClosedOverClosed, NoNestedDeps
<1>2. Inv /\ [Next]_vars => Inv'
  BY TypeStep, ClosedStep, NestedStep
<1> QED  BY <1>1, <1>2, PTL DEF Spec

---------------------------------------------------------------------------
\* Plans.

LEMMA SweptNotProposed ==
  ASSUME NothingReturnsToCreate, TypeOK, NEW S \in SUBSET tasks
  PROVE  \A t \in Task : SweptState(S)[t] = CreateState => state[t] = CreateState
  BY ExpiryMoveTarget DEF SweptState, NothingReturnsToCreate

\* A step that files no task, proposes none again and touches no plan keeps plans whole.
LEMMA PlansFrame ==
  ASSUME TypeOK, PlansWhole, tasks' \subseteq tasks, UNCHANGED <<plan, planState>>,
         \A t \in tasks : state'[t] = CreateState => state[t] = CreateState
  PROVE  PlansWhole'
  BY DEF PlansWhole

LEMMA PlansStep ==
  ASSUME NothingReturnsToCreate
  PROVE  TypeOK /\ PlansWhole /\ [Next]_vars => PlansWhole'
<1> SUFFICES ASSUME TypeOK, PlansWhole, [Next]_vars PROVE PlansWhole'
  OBVIOUS
<1>t. /\ tasks \subseteq Task /\ None \notin Plan /\ plan \in [Task -> Plan \cup {None}]
      /\ planState \in [Plan -> {None, "open", "approved", "discarded"}]
  BY Typed, BoundsAssumption
<1>c. Claimable # CreateState /\ MoveDef[OnDiscard].to # CreateState /\ Leased # CreateState
  BY LiveStates, ApproveHook, DiscardHook DEF NothingReturnsToCreate
<1>1. ASSUME NEW role \in Role, NEW k \in Kind, NEW pr \in Priority, NEW h \in Hold,
             NEW p \in tasks \cup {None}, NEW pl \in Plan \cup {None},
             Create(role, k, pr, h, p, pl)
      PROVE  PlansWhole'
  <2>1. /\ tasks' = tasks \cup {created + 1} /\ plan'[created + 1] = pl /\ UNCHANGED planState
        /\ \A x \in tasks : state'[x] = state[x] /\ plan'[x] = plan[x]
    BY <1>t, <1>1, CreateFresh
  <2>2. pl # None => planState[pl] = "open"
    BY <1>1 DEF Create, PlanOpen
  <2>3. "open" # None
    BY BoundsAssumption
  <2> QED  BY <1>t, <2>1, <2>2, <2>3 DEF PlansWhole
<1>2. ASSUME NEW t \in tasks, NEW role \in Role,
             \/ \E k \in Kind, pr \in Priority, h \in Hold, p \in tasks \cup {None} :
                  Update(t, role, k, pr, h, p)
             \/ Delete(t, role)
             \/ \E u \in tasks : AddDep(t, u, role) \/ RemoveDep(t, u, role)
      PROVE  PlansWhole'
  <2>1. tasks' \subseteq tasks /\ UNCHANGED <<state, plan, planState>>
    BY <1>2 DEF Update, Delete, AddDep, RemoveDep
  <2> QED  BY <2>1, PlansFrame
<1>3. ASSUME NEW t \in tasks, NEW m \in Move, NEW role \in MoveRole, NEW drop \in BOOLEAN,
             NEW fence, MakeMove(t, m, role, drop, fence)
      PROVE  PlansWhole'
  <2>1. /\ UNCHANGED <<tasks, plan, planState>>
        /\ \A x \in Task : state'[x] = IF x = t THEN MoveDef[m].to ELSE state[x]
    BY <1>3, MoveEffect
  <2> QED  BY <1>t, <2>1, PlansFrame DEF NothingReturnsToCreate
<1>4. ASSUME NEW locked \in SUBSET tasks,
             ExpireLeases(locked) \/ \E role \in Role : Claim(role, locked)
      PROVE  PlansWhole'
  <2> DEFINE S == Lapsed \ locked
  <2>1. S \in SUBSET tasks
    BY DEF Lapsed
  <2> HIDE DEF S
  <2>2. \A t \in Task : SweptState(S)[t] = CreateState => state[t] = CreateState
    BY <2>1, SweptNotProposed
  <2>3. UNCHANGED <<tasks, plan, planState>>
    BY <1>4 DEF ExpireLeases, Claim, graphVars
  <2>4. \/ state' = SweptState(S)
        \/ \E t \in tasks : state' = [SweptState(S) EXCEPT ![t] = Leased]
    BY <1>4 DEF ExpireLeases, Claim, S
  <2>5. \A x \in Task : state'[x] = SweptState(S)[x] \/ state'[x] = Leased
    BY <2>4 DEF SweptState
  <2> QED  BY <1>t, <1>c, <2>2, <2>3, <2>5, PlansFrame
<1>5. ASSUME NEW a, NEW role, Heartbeat(a, role) PROVE PlansWhole'
  BY <1>5, PlansFrame DEF Heartbeat, graphVars
<1>6. ASSUME NEW t, LeaseLapses(t) \/ HoldEnds(t) PROVE PlansWhole'
  BY <1>6, PlansFrame DEF LeaseLapses, HoldEnds, graphVars
<1>7. ASSUME NEW pl \in Plan, NEW role, CreatePlan(pl, role) PROVE PlansWhole'
  <2>1. /\ UNCHANGED <<tasks, plan, state>> /\ planState[pl] = None
        /\ planState' = [planState EXCEPT ![pl] = "open"]
    BY <1>7 DEF CreatePlan, graphVars
  <2>2. \A t \in tasks : plan[t] # None => plan[t] \in Plan /\ plan[t] # pl
    BY <1>t, <2>1 DEF PlansWhole
  <2>3. \A t \in tasks : plan[t] # None => planState'[plan[t]] = planState[plan[t]]
    BY <1>t, <2>1, <2>2
  <2> QED  BY <2>1, <2>3 DEF PlansWhole
<1>8. ASSUME NEW pl \in Plan, NEW T \in SUBSET tasks, UNCHANGED <<tasks, plan>>,
             NEW ps \in {"approved", "discarded"}, NEW to \in State \ {CreateState},
             planState' = [planState EXCEPT ![pl] = ps],
             \A t \in tasks : plan[t] = pl /\ state[t] = CreateState => t \in T,
             \A t \in Task : state'[t] = IF t \in T THEN to ELSE state[t]
      PROVE  PlansWhole'
  <2> SUFFICES ASSUME NEW t \in tasks, plan[t] # None
               PROVE  /\ planState'[plan[t]] # None
                      /\ state'[t] = CreateState => planState'[plan[t]] = "open"
    BY <1>8 DEF PlansWhole
  <2>1. /\ plan[t] \in Plan /\ t \in Task /\ planState[plan[t]] # None
        /\ state[t] = CreateState => planState[plan[t]] = "open"
    BY <1>t DEF PlansWhole
  <2>2. state'[t] = CreateState => state[t] = CreateState /\ plan[t] # pl
    BY <1>8, <2>1
  <2>3. planState'[plan[t]] = IF plan[t] = pl THEN ps ELSE planState[plan[t]]
    BY <1>t, <1>8, <2>1
  <2> QED  BY <2>1, <2>2, <2>3, BoundsAssumption
<1>9. ASSUME NEW pl \in Plan, NEW role, ApprovePlan(pl, role) PROVE PlansWhole'
  <2> DEFINE T == PlanTasks(pl)
  <2>1. /\ UNCHANGED <<tasks, plan>> /\ planState' = [planState EXCEPT ![pl] = "approved"]
        /\ \A t \in Task : state'[t] = IF t \in T THEN Claimable ELSE state[t]
    BY <1>9, LiveStates DEF ApprovePlan, MoveAll, graphVars
  <2>2. T \in SUBSET tasks /\ \A t \in tasks : plan[t] = pl => t \in T
    BY DEF PlanTasks
  <2>3. Claimable \in State \ {CreateState}
    BY <1>c, FlagRules
  <2> HIDE DEF T
  <2> QED  BY <1>8, <2>1, <2>2, <2>3
<1>10. ASSUME NEW pl \in Plan, NEW role, DiscardPlan(pl, role) PROVE PlansWhole'
  <2>1. /\ UNCHANGED <<tasks, plan>> /\ planState' = [planState EXCEPT ![pl] = "discarded"]
        /\ \A t \in Task : state'[t] = IF t \in Going(pl) THEN MoveDef[OnDiscard].to ELSE state[t]
    BY <1>10, DiscardEffect
  <2>2. /\ Going(pl) \in SUBSET tasks
        /\ \A t \in tasks : plan[t] = pl /\ state[t] = CreateState => t \in Going(pl)
    BY DEF Going, PlanTasks
  <2>3. MoveDef[OnDiscard].to \in State \ {CreateState}
    BY <1>c, DiscardHook, FlagRules
  <2> QED  BY <1>8, <2>1, <2>2, <2>3
<1>11. ASSUME NEW t \in tasks, NEW role, ApproveTask(t, role) PROVE PlansWhole'
  <2>1. /\ UNCHANGED <<tasks, plan, planState>>
        /\ \A x \in Task : state'[x] = IF x \in {t} THEN Claimable ELSE state[x]
    BY <1>11, LiveStates DEF ApproveTask, MoveAll, graphVars
  <2> QED  BY <1>t, <1>c, <2>1, PlansFrame
<1>12. CASE UNCHANGED vars
  BY <1>12, PlansFrame DEF vars
<1> QED
  BY <1>1, <1>2, <1>3, <1>4, <1>5, <1>6, <1>7, <1>9, <1>10, <1>11, <1>12
  DEF Next, TasksNext, MovesNext, ClaimsNext, PlansNext, TimeNext

\* A plan that was approved or discarded keeps no proposed task, and none joins it later:
\* for every lifecycle in which no move leads back into the create state.
THEOREM PlansSettleWhole == ASSUME NothingReturnsToCreate PROVE Spec => []PlansWhole
<1>1. Init => TypeOK /\ PlansWhole
  BY TypeInit DEF Init, PlansWhole
<1>2. TypeOK /\ PlansWhole /\ [Next]_vars => TypeOK' /\ PlansWhole'
  BY TypeStep, PlansStep
<1> QED  BY <1>1, <1>2, PTL DEF Spec

---------------------------------------------------------------------------
\* Finished tasks.

\* A finished task stays, in the state it finished in, whatever is called on it.
THEOREM FinishedForGood == Spec => TerminalIsFinal
<1>1. TypeOK /\ [Next]_vars =>
        [\A t \in tasks : ~Live(t) => t \in tasks' /\ state'[t] = state[t]]_vars
  <2> SUFFICES ASSUME TypeOK, [Next]_vars, NEW t \in tasks, ~Live(t)
               PROVE  t \in tasks' /\ state'[t] = state[t]
    OBVIOUS
  <2>t. tasks \subseteq Task /\ state[t] \in Terminal
    BY Typed DEF Live
  <2>1. CASE Quiet
    BY <2>t, <2>1 DEF Quiet
  <2>2. ASSUME NEW role \in Role, NEW k \in Kind, NEW pr \in Priority, NEW h \in Hold,
               NEW p \in tasks \cup {None}, NEW pl \in Plan \cup {None},
               Create(role, k, pr, h, p, pl)
        PROVE  t \in tasks' /\ state'[t] = state[t]
    BY <2>t, <2>2, CreateFresh
  <2>3. ASSUME NEW x, NEW role, NEW k, NEW pr, NEW h, NEW p, Update(x, role, k, pr, h, p)
        PROVE  t \in tasks' /\ state'[t] = state[t]
    BY <2>3 DEF Update
  <2>4. ASSUME NEW x \in tasks, NEW role, Delete(x, role)
        PROVE  t \in tasks' /\ state'[t] = state[t]
    BY <2>t, <2>4, LiveStates DEF Delete
  <2>5. ASSUME NEW x, NEW u, NEW role, AddDep(x, u, role) \/ RemoveDep(x, u, role)
        PROVE  t \in tasks' /\ state'[t] = state[t]
    BY <2>5 DEF AddDep, RemoveDep
  <2>6. ASSUME NEW x \in tasks, NEW m \in Move, NEW role, NEW drop, NEW fence,
               MakeMove(x, m, role, drop, fence)
        PROVE  t \in tasks' /\ state'[t] = state[t]
    BY <2>t, <2>6, MoveEffect
  <2>7. ASSUME NEW pl, NEW role, DiscardPlan(pl, role)
        PROVE  t \in tasks' /\ state'[t] = state[t]
    BY <2>t, <2>7, DiscardEffect
  <2> QED  BY <2>1, <2>2, <2>3, <2>4, <2>5, <2>6, <2>7, StepKinds
<1> QED  BY <1>1, TypeCorrect, PTL DEF Spec, TerminalIsFinal

---------------------------------------------------------------------------
\* Attempts.

\* What a step does to the attempts table: nothing; it ends a moved task's attempt, by a
\* move the caller's role may make; it sweeps; or it sweeps and begins an attempt.
LEMMA AttemptsStep ==
  ASSUME TypeOK, [Next]_vars
  PROVE  \/ UNCHANGED attempts
         \/ \E t \in tasks, m \in Move : /\ attempts' = EndAttempt(lease[t], m)
                                         /\ MoveDef[m].by \cap MoveRole # {}
         \/ \E S \in SUBSET Lapsed :
              \/ attempts' = SweptAttempts(S)
              \/ \E t \in tasks :
                   attempts' = Append(SweptAttempts(S), [task |-> t, outcome |-> Running])
<1>1. ASSUME NEW t \in tasks, NEW m \in Move, NEW role \in MoveRole, NEW drop \in BOOLEAN,
             NEW fence, MakeMove(t, m, role, drop, fence)
      PROVE  UNCHANGED attempts \/ (/\ attempts' = EndAttempt(lease[t], m)
                                    /\ MoveDef[m].by \cap MoveRole # {})
  BY <1>1 DEF MakeMove
<1>2. ASSUME NEW locked \in SUBSET tasks, ExpireLeases(locked)
      PROVE  attempts' = SweptAttempts(Lapsed \ locked)
  BY <1>2 DEF ExpireLeases
<1>3. ASSUME NEW locked \in SUBSET tasks, NEW role \in Role, Claim(role, locked)
      PROVE  \E t \in tasks : attempts' = Append(SweptAttempts(Lapsed \ locked),
                                                 [task |-> t, outcome |-> Running])
  BY <1>3 DEF Claim
<1>4. \A locked : Lapsed \ locked \in SUBSET Lapsed
  OBVIOUS
<1>5. CASE TasksNext
  <2>1. ASSUME NEW role, NEW k, NEW pr, NEW h, NEW p, NEW pl, Create(role, k, pr, h, p, pl)
        PROVE  UNCHANGED attempts
    BY <2>1 DEF Create, leaseVars
  <2>2. ASSUME NEW t, NEW role, NEW k, NEW pr, NEW h, NEW p, Update(t, role, k, pr, h, p)
        PROVE  UNCHANGED attempts
    BY <2>2 DEF Update, leaseVars
  <2>3. ASSUME NEW t, NEW u, NEW role,
               Delete(t, role) \/ AddDep(t, u, role) \/ RemoveDep(t, u, role)
        PROVE  UNCHANGED attempts
    BY <2>3 DEF Delete, AddDep, RemoveDep, leaseVars
  <2> QED  BY <1>5, <2>1, <2>2, <2>3 DEF TasksNext
<1>6. CASE PlansNext
  BY <1>6 DEF PlansNext, CreatePlan, ApprovePlan, DiscardPlan, ApproveTask, MoveAll, leaseVars
<1>7. CASE TimeNext
  BY <1>7 DEF TimeNext, LeaseLapses, HoldEnds, leaseVars
<1>8. ASSUME NEW a, NEW role, Heartbeat(a, role) PROVE UNCHANGED attempts
  BY <1>8 DEF Heartbeat
<1>9. CASE MovesNext
  BY <1>1, <1>9 DEF MovesNext
<1>10. CASE ClaimsNext
  BY <1>2, <1>3, <1>4, <1>8, <1>10 DEF ClaimsNext
<1>11. CASE UNCHANGED vars
  BY <1>11 DEF vars
<1> QED  BY <1>5, <1>6, <1>7, <1>9, <1>10, <1>11 DEF Next

\* Appending to the swept table keeps the rows it has.
LEMMA SweptAppend ==
  ASSUME TypeOK, NEW S \in SUBSET tasks, NEW t \in tasks, NEW as,
         as = Append(SweptAttempts(S), [task |-> t, outcome |-> Running])
  PROVE  /\ DOMAIN as = DOMAIN attempts \cup {Len(attempts) + 1}
         /\ \A a \in DOMAIN attempts : as[a] = SweptAttempts(S)[a]
         /\ as[Len(attempts) + 1] = [task |-> t, outcome |-> Running]
<1>1. /\ SweptAttempts(S) \in Seq(AttemptRecord) /\ Len(SweptAttempts(S)) = Len(attempts)
      /\ DOMAIN attempts = 1 .. Len(attempts) /\ Len(attempts) \in Nat
  BY SweptTypes, AttemptsTyped
<1> QED  BY <1>1

\* No attempt is lost or given to another task, and one that has ended keeps its outcome.
Kept == \A a \in DOMAIN attempts :
          /\ a \in DOMAIN attempts'
          /\ attempts'[a].task = attempts[a].task
          /\ attempts[a].outcome # Running => attempts'[a] = attempts[a]

LEMMA AttemptsKept == ASSUME TypeOK, [Next]_vars PROVE Kept
<1>1. CASE UNCHANGED attempts
  BY <1>1 DEF Kept
<1>2. ASSUME NEW t \in tasks, NEW m \in Move, attempts' = EndAttempt(lease[t], m) PROVE Kept
  BY <1>2 DEF Kept, EndAttempt, Ended
<1>3. ASSUME NEW S \in SUBSET Lapsed
      PROVE  /\ DOMAIN SweptAttempts(S) = DOMAIN attempts
             /\ \A a \in DOMAIN attempts :
                  /\ SweptAttempts(S)[a].task = attempts[a].task
                  /\ attempts[a].outcome # Running => SweptAttempts(S)[a] = attempts[a]
  BY DEF SweptAttempts, Ended
<1>4. ASSUME NEW S \in SUBSET Lapsed, attempts' = SweptAttempts(S) PROVE Kept
  BY <1>3, <1>4 DEF Kept
<1>5. ASSUME NEW S \in SUBSET Lapsed, NEW t \in tasks,
             attempts' = Append(SweptAttempts(S), [task |-> t, outcome |-> Running])
      PROVE  Kept
  <2>1. S \in SUBSET tasks
    BY DEF Lapsed
  <2>2. /\ DOMAIN attempts \subseteq DOMAIN attempts'
        /\ \A a \in DOMAIN attempts : attempts'[a] = SweptAttempts(S)[a]
    BY <1>5, <2>1, SweptAppend
  <2> QED  BY <1>3, <2>2 DEF Kept
<1> QED  BY <1>1, <1>2, <1>4, <1>5, AttemptsStep

\* The history of attempts only grows: claims append, moves and sweeps end an attempt
\* that has not ended, and nothing rewrites one that has.
THEOREM HistoryIsKept == Spec => AttemptsAppendOnly
<1>1. TypeOK /\ [Next]_vars =>
        [\A a \in DOMAIN attempts :
           /\ a \in DOMAIN attempts'
           /\ attempts'[a].task = attempts[a].task
           /\ attempts[a].outcome # Running => attempts'[a] = attempts[a]]_vars
  BY AttemptsKept DEF Kept
<1> QED  BY <1>1, TypeCorrect, PTL DEF Spec, AttemptsAppendOnly

---------------------------------------------------------------------------
\* Expiries in a row.

\* Of every id, used or not: the count never reaches the number that blocks.
ExpiriesInv ==
  OnRepeatedExpiry # OnLeaseExpiry =>
    \A t \in Task : Cardinality(PriorExpiries(t)) < RepeatAfter

LEMMA PriorFinite ==
  ASSUME TypeOK, NEW t
  PROVE  IsFiniteSet(PriorExpiries(t)) /\ Cardinality(PriorExpiries(t)) \in Nat
<1>1. DOMAIN attempts = 1 .. Len(attempts) /\ Len(attempts) \in Nat
  BY AttemptsTyped
<1>2. IsFiniteSet(1 .. Len(attempts))
  BY <1>1, FS_Interval
<1>3. PriorExpiries(t) \in SUBSET (1 .. Len(attempts))
  BY <1>1 DEF PriorExpiries
<1>4. IsFiniteSet(PriorExpiries(t))
  BY <1>2, <1>3, FS_Subset
<1> QED  BY <1>4, FS_CardinalityType

\* Whatever a step does to the attempts, an expiry that counts after it counted before,
\* or its attempt was ended by this step as an expiry.
LEMMA PriorGrowth ==
  ASSUME TypeOK, [Next]_vars, NEW t, NEW a \in PriorExpiries(t)',
         a \in DOMAIN attempts, attempts'[a] = attempts[a]
  PROVE  a \in PriorExpiries(t)
<1>1. Kept
  BY AttemptsKept
<1>2. attempts[a].task = t /\ attempts[a].outcome = OnLeaseExpiry
  BY DEF PriorExpiries
<1>3. ASSUME NEW b \in DOMAIN attempts, attempts[b].task = t,
             attempts[b].outcome \notin {OnLeaseExpiry, Running}
      PROVE  b < a
  <2>1. b \in DOMAIN attempts' /\ attempts'[b] = attempts[b]
    BY <1>1, <1>3 DEF Kept
  <2> QED  BY <1>3, <2>1 DEF PriorExpiries
<1> QED  BY <1>2, <1>3 DEF PriorExpiries

LEMMA ExpiriesStep ==
  ASSUME OnlySweepExpires
  PROVE  TypeOK /\ ExpiriesInv /\ [Next]_vars => ExpiriesInv'
<1> SUFFICES ASSUME TypeOK, ExpiriesInv, [Next]_vars, OnRepeatedExpiry # OnLeaseExpiry,
                    NEW t \in Task
             PROVE  Cardinality(PriorExpiries(t)') < RepeatAfter
  BY DEF ExpiriesInv, Task
<1>n. RepeatAfter \in Nat /\ Cardinality(PriorExpiries(t)) < RepeatAfter
      /\ Cardinality(PriorExpiries(t)) \in Nat /\ IsFiniteSet(PriorExpiries(t))
  BY ExpiryHooks, PriorFinite DEF ExpiriesInv
<1>r. Running # OnLeaseExpiry
  BY ExpiryHooks, BoundsAssumption DEF Running
<1>d. \A a \in PriorExpiries(t)' : /\ a \in DOMAIN attempts' /\ attempts'[a].task = t
                                   /\ attempts'[a].outcome = OnLeaseExpiry
  BY DEF PriorExpiries
<1>1. ASSUME PriorExpiries(t)' \subseteq PriorExpiries(t)
      PROVE  Cardinality(PriorExpiries(t)') < RepeatAfter
  <2>1. /\ Cardinality(PriorExpiries(t)') \in Nat
        /\ Cardinality(PriorExpiries(t)') <= Cardinality(PriorExpiries(t))
    BY <1>1, <1>n, FS_Subset, FS_CardinalityType
  <2> QED  BY <1>n, <2>1
<1>2. CASE UNCHANGED attempts
  BY <1>1, <1>2, <1>d, PriorGrowth
<1>3. ASSUME NEW x \in tasks, NEW m \in Move, attempts' = EndAttempt(lease[x], m),
             MoveDef[m].by \cap MoveRole # {}
      PROVE  Cardinality(PriorExpiries(t)') < RepeatAfter
  <2>1. m # OnLeaseExpiry
    BY <1>3 DEF OnlySweepExpires
  <2>2. ASSUME NEW a \in PriorExpiries(t)'
        PROVE  a \in DOMAIN attempts /\ attempts'[a] = attempts[a]
    BY <1>3, <1>d, <2>1, <2>2 DEF EndAttempt, Ended
  <2> QED  BY <1>1, <2>2, PriorGrowth
<1>4. ASSUME NEW S \in SUBSET Lapsed,
             \A a \in PriorExpiries(t)' :
               a \in DOMAIN attempts /\ attempts'[a] = SweptAttempts(S)[a]
      PROVE  Cardinality(PriorExpiries(t)') < RepeatAfter
  <2>1. ASSUME NEW a \in PriorExpiries(t)', attempts'[a] # attempts[a]
        PROVE  a = lease[t] /\ ExpiryMove(t) = OnLeaseExpiry
    <3>1. a \in DOMAIN attempts /\ attempts'[a] = SweptAttempts(S)[a]
      BY <1>4
    <3>2. /\ lease[attempts[a].task] = a
          /\ SweptAttempts(S)[a] = Ended(attempts[a], ExpiryMove(attempts[a].task))
      BY <2>1, <3>1 DEF SweptAttempts
    <3>3. attempts[a].task = t /\ ExpiryMove(attempts[a].task) = OnLeaseExpiry
      BY <1>d, <3>1, <3>2 DEF Ended
    <3> QED  BY <3>2, <3>3
  <2>2. CASE ExpiryMove(t) # OnLeaseExpiry
    BY <1>1, <1>4, <2>1, <2>2, PriorGrowth
  <2>3. CASE ExpiryMove(t) = OnLeaseExpiry
    <3>1. Cardinality(PriorExpiries(t)) + 1 < RepeatAfter
      BY <1>n, <2>3 DEF ExpiryMove
    <3>2. PriorExpiries(t)' \subseteq PriorExpiries(t) \cup {lease[t]}
      BY <1>4, <2>1, PriorGrowth
    <3>3. /\ IsFiniteSet(PriorExpiries(t) \cup {lease[t]})
          /\ Cardinality(PriorExpiries(t) \cup {lease[t]}) <= Cardinality(PriorExpiries(t)) + 1
          /\ Cardinality(PriorExpiries(t) \cup {lease[t]}) \in Nat
      BY <1>n, FS_AddElement, FS_CardinalityType
    <3>4. /\ Cardinality(PriorExpiries(t)') \in Nat
          /\ Cardinality(PriorExpiries(t)') <= Cardinality(PriorExpiries(t) \cup {lease[t]})
      BY <3>2, <3>3, FS_Subset, FS_CardinalityType
    <3> QED  BY <1>n, <3>1, <3>3, <3>4
  <2> QED  BY <2>2, <2>3
<1>5. ASSUME NEW S \in SUBSET Lapsed, attempts' = SweptAttempts(S)
      PROVE  Cardinality(PriorExpiries(t)') < RepeatAfter
  <2>1. DOMAIN SweptAttempts(S) = DOMAIN attempts
    BY DEF SweptAttempts
  <2> QED  BY <1>4, <1>5, <1>d, <2>1
<1>6. ASSUME NEW S \in SUBSET Lapsed, NEW x \in tasks,
             attempts' = Append(SweptAttempts(S), [task |-> x, outcome |-> Running])
      PROVE  Cardinality(PriorExpiries(t)') < RepeatAfter
  <2>1. S \in SUBSET tasks
    BY DEF Lapsed
  <2>2. /\ DOMAIN attempts' = DOMAIN attempts \cup {Len(attempts) + 1}
        /\ \A a \in DOMAIN attempts : attempts'[a] = SweptAttempts(S)[a]
        /\ attempts'[Len(attempts) + 1] = [task |-> x, outcome |-> Running]
    BY <1>6, <2>1, SweptAppend
  <2>3. \A a \in PriorExpiries(t)' : a # Len(attempts) + 1
    BY <1>r, <1>d, <2>2
  <2> QED  BY <1>4, <1>d, <2>2, <2>3
<1> QED  BY <1>2, <1>3, <1>5, <1>6, AttemptsStep

\* No task expires RepeatAfter times in a row, wherever only the sweep makes the expiry
\* move: the attempt that would be that one ends by the repeat hook, which blocks the task.
THEOREM ExpiriesBlockInTime == ASSUME OnlySweepExpires PROVE Spec => []ExpiriesBounded
<1>1. Init => TypeOK /\ ExpiriesInv
  <2> SUFFICES ASSUME Init PROVE ExpiriesInv
    BY TypeInit
  <2>1. DOMAIN attempts = {}
    BY DEF Init
  <2>2. \A t \in Task : PriorExpiries(t) = {}
    BY <2>1 DEF PriorExpiries
  <2> QED  BY <2>2, FS_EmptySet, ExpiryHooks DEF ExpiriesInv
<1>2. TypeOK /\ ExpiriesInv /\ [Next]_vars => TypeOK' /\ ExpiriesInv'
  BY TypeStep, ExpiriesStep
<1>3. TypeOK /\ ExpiriesInv => ExpiriesBounded
  BY Typed DEF ExpiriesInv, ExpiriesBounded
<1> QED  BY <1>1, <1>2, <1>3, PTL DEF Spec

---------------------------------------------------------------------------
\* The announcement of a settled container.

\* What SettlingAnnounced asks of a step, of one container.
Announces(c) == /\ (~Settled(c) /\ Settled(c)' /\ Live(c)') => c \in announced'
                /\ c \in announced' => ~Settled(c) /\ Settled(c)'

\* Whether c is settled does not change where its row, its children and their
\* liveness stay.
LEMMA SettledFrame ==
  ASSUME NEW c, c \in tasks <=> c \in tasks', kind'[c] = kind[c],
         \A x : (x \in tasks' /\ parent'[x] = c) <=> (x \in tasks /\ parent[x] = c),
         \A x \in tasks : parent[x] = c => (Live(x)' <=> Live(x))
  PROVE  Settled(c)' <=> Settled(c)
<1>1. Children(c)' = Children(c)
  BY DEF Children
<1>2. LiveChildren(c)' = LiveChildren(c)
  BY <1>1 DEF LiveChildren, Children
<1> QED  BY <1>1, <1>2 DEF Settled

\* The steps that end or take away no child settle nothing.
LEMMA CreateSettlesNothing ==
  ASSUME TypeOK, ClosedOverClosed, NEW role \in Role, NEW k, NEW pr, NEW h,
         NEW p \in tasks \cup {None}, NEW pl, Create(role, k, pr, h, p, pl), NEW c \in tasks'
  PROVE  Settled(c)' => Settled(c)
<1> DEFINE t == created + 1
<1>1. /\ t \in Task \ tasks /\ tasks' = tasks \cup {t} /\ parent'[t] = p
      /\ state'[t] \in {CreateState, Claimable}
      /\ \A x \in Task \ {t} : state'[x] = state[x] /\ parent'[x] = parent[x] /\ kind'[x] = kind[x]
  BY CreateFresh
<1>t. tasks \subseteq Task /\ None \notin Task
  BY Typed
<1> HIDE DEF t
<1>2. CASE c = t
  <2>1. \A x \in tasks' : parent'[x] # t
    BY <1>1, <1>t DEF ClosedOverClosed
  <2> QED  BY <1>2, <2>1 DEF Settled, Children
<1>3. CASE c = p /\ c # t
  <2>1. t \in LiveChildren(c)'
    BY <1>1, <1>3, LiveStates DEF LiveChildren, Children, Live
  <2> QED  BY <2>1 DEF Settled
<1>4. CASE c # p /\ c # t
  <2>1. c \in tasks /\ c \in Task
    BY <1>1, <1>4, <1>t
  <2>2. \A x : (x \in tasks' /\ parent'[x] = c) <=> (x \in tasks /\ parent[x] = c)
    BY <1>1, <1>4, <1>t
  <2>3. \A x \in tasks : Live(x)' <=> Live(x)
    BY <1>1, <1>t DEF Live
  <2> QED  BY <1>1, <1>4, <2>1, <2>2, <2>3, SettledFrame
<1> QED  BY <1>2, <1>3, <1>4

LEMMA QuietSettlesNothing ==
  ASSUME TypeOK, NEW c \in tasks,
         Quiet \/ \E t \in tasks, u \in tasks, role \in Role :
                    AddDep(t, u, role) \/ RemoveDep(t, u, role)
  PROVE  Settled(c)' <=> Settled(c)
<1>1. UNCHANGED <<tasks, parent, kind>> /\ \A x \in tasks : Live(x)' <=> Live(x)
  <2>1. CASE Quiet
    BY <2>1, Typed DEF Quiet
  <2>2. ASSUME NEW t, NEW u, NEW role, AddDep(t, u, role) \/ RemoveDep(t, u, role)
        PROVE  UNCHANGED <<tasks, parent, kind, state>>
    BY <2>2 DEF AddDep, RemoveDep
  <2> QED  BY <2>1, <2>2 DEF Live
<1> QED  BY <1>1, SettledFrame

\* The four calls that may settle a container announce exactly the ones they settle.
LEMMA UpdateAnnounces ==
  ASSUME TypeOK, ClosedOverClosed, NEW t \in tasks, NEW role, NEW k, NEW pr, NEW h,
         NEW p \in tasks \cup {None}, Update(t, role, k, pr, h, p), NEW c \in tasks'
  PROVE  Announces(c)
<1>t. /\ tasks \subseteq Task /\ None \notin Task
      /\ parent \in [Task -> Task \cup {None}] /\ kind \in [Task -> {"work", "container"}]
  BY Typed
<1>1. /\ kind' = [kind EXCEPT ![t] = k] /\ parent' = [parent EXCEPT ![t] = p]
      /\ UNCHANGED <<tasks, state>>
      /\ k # kind[t] => Children(t) = {}
      /\ p # parent[t] /\ p # None => p # t
      /\ announced' = {x \in {y \in {parent[t], p} : p # parent[t] /\ ~Settled(y)} \ {None} : Settled(x)'}
  BY DEF Update, MayReparent, Announce
<1>2. c \in announced' => ~Settled(c) /\ Settled(c)'
  BY <1>1
<1>3. ASSUME ~Settled(c), Settled(c)' PROVE c \in announced'
  <2>1. ASSUME p # parent[t], c \in {parent[t], p} PROVE c \in announced'
    BY <1>t, <1>1, <1>3, <2>1
  <2>2. ASSUME p = parent[t] \/ c \notin {parent[t], p} PROVE FALSE
    <3>1. \A x : (x \in tasks' /\ parent'[x] = c) <=> (x \in tasks /\ parent[x] = c)
      BY <1>t, <1>1, <2>2
    <3>2. Children(c)' = Children(c)
      BY <3>1 DEF Children
    <3>3. Children(c) # {}
      BY <1>3, <3>2 DEF Settled
    <3>4. kind'[c] = kind[c]
      BY <1>t, <1>1, <3>3
    <3>5. Settled(c)' <=> Settled(c)
      BY <1>1, <3>1, <3>4, SettledFrame DEF Live
    <3> QED  BY <1>3, <3>5
  <2> QED  BY <2>1, <2>2
<1> QED  BY <1>2, <1>3 DEF Announces

LEMMA DeleteAnnounces ==
  ASSUME TypeOK, NEW t \in tasks, NEW role, Delete(t, role), NEW c \in tasks'
  PROVE  Announces(c)
<1>t. None \notin Task /\ tasks \subseteq Task
  BY Typed
<1>1. /\ tasks' = tasks \ {t} /\ UNCHANGED <<parent, kind, state>> /\ Live(t)
      /\ announced' = {x \in {parent[t]} \ {None} : Settled(x)'}
  BY LiveStates DEF Delete, Announce, Live
<1>2. CASE c = parent[t]
  <2>1. t \in LiveChildren(c)
    BY <1>1, <1>2 DEF LiveChildren, Children
  <2>2. ~Settled(c)
    BY <2>1 DEF Settled
  <2> QED  BY <1>t, <1>1, <1>2, <2>2 DEF Announces
<1>3. CASE c # parent[t]
  <2>1. Settled(c)' <=> Settled(c)
    BY <1>1, <1>3, SettledFrame DEF Live
  <2> QED  BY <1>1, <1>3, <2>1 DEF Announces
<1> QED  BY <1>2, <1>3

\* Ending the live tasks T and no others, announcing for the containers of T.
LEMMA EndingAnnounces ==
  ASSUME TypeOK, NEW T \in SUBSET tasks, NEW C, UNCHANGED <<tasks, parent, kind>>,
         \A x \in T : Live(x),
         \A x \in tasks : Live(x)' <=> (Live(x) /\ x \notin T),
         C \subseteq {parent[x] : x \in T}, {parent[x] : x \in T} \subseteq C \cup T,
         announced' = {x \in C \ {None} : Settled(x)'}, NEW c \in tasks'
  PROVE  Announces(c)
<1>t. None \notin Task /\ tasks \subseteq Task
  BY Typed
<1>1. CASE \E x \in T : parent[x] = c
  <2>1. PICK x \in T : parent[x] = c
    BY <1>1
  <2>2. x \in LiveChildren(c)
    BY <2>1 DEF LiveChildren, Children
  <2>3. ~Settled(c)
    BY <2>2 DEF Settled
  <2>4. Live(c)' => c \in C
    BY <2>1
  <2> QED  BY <1>t, <2>3, <2>4 DEF Announces
<1>2. CASE ~\E x \in T : parent[x] = c
  <2>1. \A x \in tasks : parent[x] = c => (Live(x)' <=> Live(x))
    BY <1>2
  <2>2. Settled(c)' <=> Settled(c)
    BY <2>1, SettledFrame
  <2>3. c \notin C
    BY <1>2
  <2> QED  BY <2>2, <2>3 DEF Announces
<1> QED  BY <1>1, <1>2

LEMMA MoveAnnounces ==
  ASSUME TypeOK, NEW t \in tasks, NEW m \in Move, NEW role, NEW drop, NEW fence,
         MakeMove(t, m, role, drop, fence), NEW c \in tasks'
  PROVE  Announces(c)
<1>1. /\ Live(t) /\ UNCHANGED <<tasks, parent, kind>>
      /\ \A x \in Task : state'[x] = IF x = t THEN MoveDef[m].to ELSE state[x]
  BY MoveEffect
<1>2. announced' = {x \in (IF ToTerminal(m) THEN {parent[t]} ELSE {}) \ {None} : Settled(x)'}
  BY DEF MakeMove, Announce
<1>t. tasks \subseteq Task
  BY Typed
<1>3. CASE ToTerminal(m)
  <2>1. \A x \in tasks : Live(x)' <=> (Live(x) /\ x \notin {t})
    BY <1>1, <1>3, <1>t DEF Live, ToTerminal
  <2>2. {parent[x] : x \in {t}} = {parent[t]}
    OBVIOUS
  <2>3. announced' = {x \in {parent[t]} \ {None} : Settled(x)'}
    BY <1>2, <1>3
  <2> QED  BY <1>1, <2>1, <2>2, <2>3, EndingAnnounces
<1>4. CASE ~ToTerminal(m)
  <2>1. \A x \in tasks : Live(x)' <=> Live(x)
    BY <1>1, <1>4, <1>t DEF Live, ToTerminal
  <2>2. Settled(c)' <=> Settled(c)
    BY <1>1, <2>1, SettledFrame
  <2> QED  BY <1>2, <1>4, <2>2 DEF Announces
<1> QED  BY <1>3, <1>4

LEMMA DiscardAnnounces ==
  ASSUME TypeOK, NEW pl, NEW role, DiscardPlan(pl, role), NEW c \in tasks'
  PROVE  Announces(c)
<1> DEFINE T == Going(pl)
           C == {parent[t] : t \in T} \ T
<1>1. /\ \A x \in Task : state'[x] = IF x \in T THEN MoveDef[OnDiscard].to ELSE state[x]
      /\ T \in SUBSET tasks /\ \A x \in T : Live(x)
      /\ UNCHANGED <<tasks, kind, parent>>
  BY DiscardEffect
<1>2. announced' = {x \in C \ {None} : Settled(x)'}
  BY DEF DiscardPlan, Announce, Going
<1>3. \A x \in tasks : Live(x)' <=> (Live(x) /\ x \notin T)
  BY <1>1, LiveStates, Typed DEF Live
<1>4. C \subseteq {parent[x] : x \in T} /\ {parent[x] : x \in T} \subseteq C \cup T
  OBVIOUS
<1> HIDE DEF T, C
<1> QED  BY <1>1, <1>2, <1>3, <1>4, EndingAnnounces

\* Every other call announces nothing.
LEMMA SilentSteps ==
  ASSUME Next
  PROVE  \/ announced' = {}
         \/ \E t \in tasks, role \in Role, k \in Kind, pr \in Priority, h \in Hold,
               p \in tasks \cup {None} : Update(t, role, k, pr, h, p)
         \/ \E t \in tasks, role \in Role : Delete(t, role)
         \/ \E t \in tasks, m \in Move, role \in MoveRole, drop \in BOOLEAN,
               fence \in DOMAIN attempts \cup {None} : MakeMove(t, m, role, drop, fence)
         \/ \E pl \in Plan, role \in Role : DiscardPlan(pl, role)
<1>1. ASSUME NEW role, NEW k, NEW pr, NEW h, NEW p, NEW pl, Create(role, k, pr, h, p, pl)
      PROVE  announced' = {}
  BY <1>1 DEF Create
<1>2. ASSUME NEW t, NEW u, NEW role, AddDep(t, u, role) \/ RemoveDep(t, u, role)
      PROVE  announced' = {}
  BY <1>2 DEF AddDep, RemoveDep
<1>3. ASSUME NEW locked, ExpireLeases(locked) \/ \E role \in Role : Claim(role, locked)
      PROVE  announced' = {}
  BY <1>3 DEF ExpireLeases, Claim
<1>4. ASSUME NEW a, NEW role, Heartbeat(a, role) PROVE announced' = {}
  BY <1>4 DEF Heartbeat
<1>5. ASSUME NEW pl, NEW role, CreatePlan(pl, role) \/ ApprovePlan(pl, role)
      PROVE  announced' = {}
  BY <1>5 DEF CreatePlan, ApprovePlan
<1>6. ASSUME NEW t, NEW role, ApproveTask(t, role) PROVE announced' = {}
  BY <1>6 DEF ApproveTask
<1>7. ASSUME NEW t, LeaseLapses(t) \/ HoldEnds(t) PROVE announced' = {}
  BY <1>7 DEF LeaseLapses, HoldEnds
<1> QED  BY <1>1, <1>2, <1>3, <1>4, <1>5, <1>6, <1>7
         DEF Next, TasksNext, MovesNext, ClaimsNext, PlansNext, TimeNext

\* children.settled is written in the transaction that settles a container and in no
\* other: whichever of a move, a reparent, a delete and a discard takes the last live
\* child away, and never for a container that had settled before.
THEOREM SettlingIsAnnounced == Spec => SettlingAnnounced
<1> DEFINE Inv == TypeOK /\ ClosedOverClosed
<1>1. Inv /\ [Next]_vars => [\A c \in tasks' : Announces(c)]_vars
  <2> SUFFICES ASSUME TypeOK, ClosedOverClosed, Next, NEW c \in tasks' PROVE Announces(c)
    OBVIOUS
  <2>1. ASSUME announced' = {}, Settled(c)' => Settled(c) PROVE Announces(c)
    BY <2>1 DEF Announces
  <2>2. CASE announced' = {} /\ \E role \in Role, k \in Kind, pr \in Priority, h \in Hold,
               p \in tasks \cup {None}, pl \in Plan \cup {None} : Create(role, k, pr, h, p, pl)
    BY <2>1, <2>2, CreateSettlesNothing
  <2>3. CASE /\ announced' = {}
             /\ Quiet \/ \E t \in tasks, u \in tasks, role \in Role :
                           AddDep(t, u, role) \/ RemoveDep(t, u, role)
    <3>1. c \in tasks
      BY <2>3 DEF Quiet, AddDep, RemoveDep
    <3> QED  BY <2>1, <2>3, <3>1, QuietSettlesNothing
  <2>4. CASE \E t \in tasks, role \in Role, k \in Kind, pr \in Priority, h \in Hold,
               p \in tasks \cup {None} : Update(t, role, k, pr, h, p)
    BY <2>4, UpdateAnnounces
  <2>5. CASE \E t \in tasks, role \in Role : Delete(t, role)
    BY <2>5, DeleteAnnounces
  <2>6. CASE \E t \in tasks, m \in Move, role \in MoveRole, drop \in BOOLEAN,
               fence \in DOMAIN attempts \cup {None} : MakeMove(t, m, role, drop, fence)
    BY <2>6, MoveAnnounces
  <2>7. CASE \E pl \in Plan, role \in Role : DiscardPlan(pl, role)
    BY <2>7, DiscardAnnounces
  <2> QED  BY <2>2, <2>3, <2>4, <2>5, <2>6, <2>7, StepKinds, SilentSteps
<1>2. [\A c \in tasks' : Announces(c)]_vars =>
        [\A c \in tasks' :
           /\ (~Settled(c) /\ Settled(c)' /\ Live(c)') => c \in announced'
           /\ c \in announced' => ~Settled(c) /\ Settled(c)']_vars
  BY DEF Announces
<1>3. Spec => []Inv
  BY TypeCorrect, ContainersCloseLast, PTL
<1>4. Spec => [][\A c \in tasks' :
                   /\ (~Settled(c) /\ Settled(c)' /\ Live(c)') => c \in announced'
                   /\ c \in announced' => ~Settled(c) /\ Settled(c)']_vars
  <2> HIDE DEF Inv
  <2> QED  BY <1>1, <1>2, <1>3, PTL DEF Spec
<1> QED  BY <1>4 DEF SettlingAnnounced

=============================================================================
