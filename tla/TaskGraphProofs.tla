-------------------------- MODULE TaskGraphProofs --------------------------
(***************************************************************************)
(* Proofs about the engine, for every lifecycle that may register, every    *)
(* guard and every bound.                                                   *)
(***************************************************************************)
EXTENDS TaskGraph, SequenceTheorems, TLAPS

\* The registration rules are cited by the names of the assumptions.
USE DEF FlagsConsistent, DepsSatisfiable, NamesKnown, NothingLeavesTerminal,
        OnlyClaimLeases, ApproveHookFits, ClaimHookFits, DiscardHookFits, ExpiryHooksFit

---------------------------------------------------------------------------
\* Helpers of the sweep.

\* Whatever the count of earlier expiries, the sweep applies one of the two hooks.
LEMMA ExpiryMoveKind ==
  ASSUME NEW t
  PROVE  ExpiryMove(t) \in {OnLeaseExpiry, OnRepeatedExpiry}
  BY DEF ExpiryMove

\* Both lead to a declared state that is neither terminal nor leased, unless the
\* lifecycle's claim move doubles as an expiry hook.
LEMMA ExpiryMoveTarget ==
  ASSUME NEW t
  PROVE  /\ ExpiryMove(t) \in Move
         /\ MoveDef[ExpiryMove(t)].to \in State \ Terminal
         /\ MoveDef[ExpiryMove(t)] \in MoveRecord
  BY ExpiryMoveKind, ExpiryHooks, KnownNames DEF MoveRecord

LEMMA SweptTypes ==
  ASSUME TypeOK, NEW S \in SUBSET tasks
  PROVE  /\ SweptState(S) \in [Task -> State]
         /\ SweptBoost(S) \in [Task -> BOOLEAN]
         /\ SweptLease(S) \in [Task -> Attempt \cup {None}]
         /\ SweptLapsed(S) \in [Task -> BOOLEAN]
         /\ SweptAttempts(S) \in Seq(AttemptRecord)
         /\ Len(SweptAttempts(S)) = Len(attempts)
<1>1. SweptState(S) \in [Task -> State]
  BY ExpiryMoveTarget DEF TypeOK, SweptState
<1>2. SweptBoost(S) \in [Task -> BOOLEAN]
  BY ExpiryMoveTarget DEF TypeOK, SweptBoost, BoostAfter, MoveRecord
<1>3. SweptLease(S) \in [Task -> Attempt \cup {None}] /\ SweptLapsed(S) \in [Task -> BOOLEAN]
  BY DEF TypeOK, SweptLease, SweptLapsed
<1>4. /\ DOMAIN attempts = 1 .. Len(attempts) /\ Len(attempts) \in Nat
      /\ \A a \in DOMAIN attempts : attempts[a] \in AttemptRecord
  BY DEF TypeOK
<1>5. \A a \in 1 .. Len(attempts) : SweptAttempts(S)[a] \in AttemptRecord
  BY <1>4, ExpiryMoveTarget DEF SweptAttempts, AttemptRecord, Ended
<1>6. SweptAttempts(S) \in [1 .. Len(attempts) -> AttemptRecord]
  BY <1>4, <1>5 DEF SweptAttempts
<1>7. SweptAttempts(S) \in Seq(AttemptRecord) /\ Len(SweptAttempts(S)) = Len(attempts)
  BY <1>4, <1>6
<1> QED  BY <1>1, <1>2, <1>3, <1>7

LEMMA EndAttemptType ==
  ASSUME TypeOK, NEW a, NEW o \in Move
  PROVE  /\ EndAttempt(a, o) \in Seq(AttemptRecord)
         /\ Len(EndAttempt(a, o)) = Len(attempts)
<1>1. /\ DOMAIN attempts = 1 .. Len(attempts) /\ Len(attempts) \in Nat
      /\ \A b \in DOMAIN attempts : attempts[b] \in AttemptRecord
  BY DEF TypeOK
<1>2. \A b \in 1 .. Len(attempts) : EndAttempt(a, o)[b] \in AttemptRecord
  BY <1>1 DEF EndAttempt, AttemptRecord, Ended
<1>3. EndAttempt(a, o) \in [1 .. Len(attempts) -> AttemptRecord]
  BY <1>1, <1>2 DEF EndAttempt
<1> QED  BY <1>1, <1>3

\* The target of a move that move() may make.
LEMMA MoveTarget ==
  ASSUME NEW m \in Move
  PROVE  /\ MoveDef[m] \in MoveRecord
         /\ MoveDef[m].to \in State
         /\ \A b \in BOOLEAN : BoostAfter(m, b) \in BOOLEAN
  BY KnownNames DEF MoveRecord, BoostAfter

---------------------------------------------------------------------------
\* Type correctness.

LEMMA TypeInit == Init => TypeOK
<1> SUFFICES ASSUME Init PROVE TypeOK
  OBVIOUS
<1>1. attempts \in Seq(AttemptRecord) /\ Len(attempts) \leq MaxAttempts
  BY BoundsAssumption DEF Init
<1>2. created \in 0 .. MaxTasks /\ tasks \subseteq 1 .. created /\ announced \subseteq tasks
      /\ deps \subseteq tasks \X tasks
  BY BoundsAssumption DEF Init
<1>3. /\ state \in [Task -> State] /\ parent \in [Task -> Task \cup {None}]
      /\ kind \in [Task -> {"work", "container"}]
      /\ plan \in [Task -> Plan \cup {None}] /\ priority \in [Task -> Priority]
  BY KnownNames DEF Init
<1>4. /\ boosted \in [Task -> BOOLEAN] /\ held \in [Task -> BOOLEAN]
      /\ lease \in [Task -> Attempt \cup {None}] /\ lapsed \in [Task -> BOOLEAN]
      /\ planState \in [Plan -> {None, "open", "approved", "discarded"}]
  BY DEF Init
<1> QED  BY <1>1, <1>2, <1>3, <1>4 DEF TypeOK

LEMMA TypeStep == TypeOK /\ [Next]_vars => TypeOK'
<1> SUFFICES ASSUME TypeOK, [Next]_vars PROVE TypeOK'
  OBVIOUS
<1>s. ASSUME NEW S \in SUBSET tasks
      PROVE  /\ SweptState(S) \in [Task -> State]
             /\ SweptBoost(S) \in [Task -> BOOLEAN]
             /\ SweptLease(S) \in [Task -> Attempt \cup {None}]
             /\ SweptLapsed(S) \in [Task -> BOOLEAN]
             /\ SweptAttempts(S) \in Seq(AttemptRecord)
             /\ Len(SweptAttempts(S)) = Len(attempts)
  BY SweptTypes
<1>b. MaxTasks \in Nat /\ MaxAttempts \in Nat /\ Kind \subseteq {"work", "container"}
      /\ Hold \subseteq BOOLEAN
  BY BoundsAssumption
<1> USE DEF TypeOK
<1>t. tasks \subseteq Task
  BY <1>b DEF Task
<1>1. ASSUME NEW role \in Role, NEW k \in Kind, NEW pr \in Priority, NEW h \in Hold,
             NEW p \in tasks \cup {None}, NEW pl \in Plan \cup {None},
             Create(role, k, pr, h, p, pl)
      PROVE  TypeOK'
  <2>0. created' = created + 1 /\ created < MaxTasks /\ tasks' = tasks \cup {created + 1}
    BY <1>1 DEF Create
  <2>1. created + 1 \in Task /\ created' \in 0 .. MaxTasks /\ tasks' \subseteq 1 .. created'
    <3>1. created \in Nat /\ created + 1 \in 1 .. MaxTasks
      BY <2>0, <1>b
    <3>2. \A x \in tasks' : x \in 1 .. created + 1
      BY <2>0, <3>1
    <3>3. created + 1 \in 0 .. MaxTasks
      BY <3>1, <1>b
    <3> HIDE DEF TypeOK
    <3> QED  BY <2>0, <3>1, <3>2, <3>3 DEF Task
  <2>2. state' \in [Task -> State]
    BY <1>1, <2>1, KnownNames, FlagRules DEF Create
  <2>3. /\ kind' \in [Task -> {"work", "container"}] /\ parent' \in [Task -> Task \cup {None}]
        /\ plan' \in [Task -> Plan \cup {None}] /\ priority' \in [Task -> Priority]
        /\ held' \in [Task -> BOOLEAN]
    BY <1>1, <2>1, <1>t, <1>b DEF Create
  <2> QED  BY <1>1, <2>1, <2>2, <2>3 DEF Create, leaseVars
<1>2. ASSUME NEW t \in tasks, NEW role \in Role, NEW k \in Kind, NEW pr \in Priority,
             NEW h \in Hold, NEW p \in tasks \cup {None}, Update(t, role, k, pr, h, p)
      PROVE  TypeOK'
  <2>1. /\ kind' \in [Task -> {"work", "container"}] /\ parent' \in [Task -> Task \cup {None}]
        /\ priority' \in [Task -> Priority] /\ held' \in [Task -> BOOLEAN]
    BY <1>2, <1>t, <1>b DEF Update
  <2>2. announced' \subseteq tasks'
    BY <1>2 DEF Update, Announce, Settled
  <2> QED  BY <1>2, <2>1, <2>2 DEF Update, leaseVars
<1>3. ASSUME NEW t \in tasks, NEW role \in Role, Delete(t, role)
      PROVE  TypeOK'
  <2>1. announced' \subseteq tasks'
    BY <1>3 DEF Delete, Announce, Settled
  <2>2. deps' \subseteq tasks' \X tasks'
    BY <1>3 DEF Delete, EdgesWithout
  <2> QED  BY <1>3, <2>1, <2>2 DEF Delete, leaseVars
<1>4. ASSUME NEW t \in tasks, NEW u \in tasks, NEW role \in Role, AddDep(t, u, role)
      PROVE  TypeOK'
  BY <1>4 DEF AddDep, leaseVars
<1>5. ASSUME NEW t \in tasks, NEW u \in tasks, NEW role \in Role, RemoveDep(t, u, role)
      PROVE  TypeOK'
  BY <1>5 DEF RemoveDep, leaseVars
<1>6. ASSUME NEW t \in tasks, NEW m \in Move, NEW role \in MoveRole, NEW drop \in BOOLEAN,
             NEW fence, MakeMove(t, m, role, drop, fence)
      PROVE  TypeOK'
  <2>1. /\ state' \in [Task -> State] /\ boosted' \in [Task -> BOOLEAN]
        /\ lease' \in [Task -> Attempt \cup {None}] /\ lapsed' \in [Task -> BOOLEAN]
    BY <1>6, <1>t, MoveTarget DEF MakeMove
  <2>2. attempts' \in Seq(AttemptRecord) /\ Len(attempts') \leq MaxAttempts
    BY <1>6, EndAttemptType DEF MakeMove
  <2>3. announced' \subseteq tasks' /\ deps' \subseteq tasks' \X tasks'
    BY <1>6 DEF MakeMove, Announce, Settled
  <2> QED  BY <1>6, <2>1, <2>2, <2>3 DEF MakeMove
<1>7. ASSUME NEW locked \in SUBSET tasks, ExpireLeases(locked)
      PROVE  TypeOK'
  <2> DEFINE S == Lapsed \ locked
  <2>1. S \in SUBSET tasks
    BY DEF Lapsed
  <2> HIDE DEF S
  <2>2. ExpireLeases(locked) => /\ state' = SweptState(S) /\ boosted' = SweptBoost(S)
                                /\ lease' = SweptLease(S) /\ lapsed' = SweptLapsed(S)
                                /\ attempts' = SweptAttempts(S) /\ announced' = {}
                                /\ UNCHANGED <<graphVars, planState>>
    BY DEF ExpireLeases, S
  <2> QED  BY <1>7, <2>1, <2>2, <1>s DEF graphVars
<1>8. ASSUME NEW locked \in SUBSET tasks, NEW role \in Role, Claim(role, locked)
      PROVE  TypeOK'
  <2> DEFINE S == Lapsed \ locked
  <2>1. S \in SUBSET tasks
    BY DEF Lapsed
  <2> HIDE DEF S
  <2>2. PICK t \in tasks :
          /\ state' = [SweptState(S) EXCEPT ![t] = Leased]
          /\ boosted' = [SweptBoost(S) EXCEPT ![t] = BoostAfter(OnClaim, @)]
          /\ lease' = [SweptLease(S) EXCEPT ![t] = Len(attempts) + 1]
          /\ lapsed' = [SweptLapsed(S) EXCEPT ![t] = FALSE]
          /\ attempts' = Append(SweptAttempts(S), [task |-> t, outcome |-> Running])
    BY <1>8 DEF Claim, S
  <2>3. Len(attempts) + 1 \in Attempt /\ announced' = {} /\ UNCHANGED <<graphVars, planState>>
    BY <1>8 DEF Claim
  <2>4. /\ state' \in [Task -> State] /\ boosted' \in [Task -> BOOLEAN]
        /\ lease' \in [Task -> Attempt \cup {None}] /\ lapsed' \in [Task -> BOOLEAN]
    <3>1. Leased \in State /\ \A b \in BOOLEAN : BoostAfter(OnClaim, b) \in BOOLEAN
      BY MoveTarget, ClaimHook, FlagRules
    <3>2. t \in Task
      BY <1>t
    <3> HIDE DEF TypeOK
    <3>3. state' \in [Task -> State]
      BY <2>1, <2>2, <1>s, <3>1, <3>2
    <3>4. boosted' \in [Task -> BOOLEAN]
      BY <2>1, <2>2, <1>s, <3>1, <3>2
    <3>5. lease' \in [Task -> Attempt \cup {None}]
      BY <2>1, <2>2, <2>3, <1>s, <3>2
    <3>6. lapsed' \in [Task -> BOOLEAN]
      BY <2>1, <2>2, <1>s, <3>2
    <3> QED  BY <3>3, <3>4, <3>5, <3>6
  <2>5. [task |-> t, outcome |-> Running] \in AttemptRecord
    BY <1>t DEF AttemptRecord
  <2>6. attempts' \in Seq(AttemptRecord) /\ Len(attempts') \leq MaxAttempts
    <3>1. /\ SweptAttempts(S) \in Seq(AttemptRecord)
          /\ Len(SweptAttempts(S)) + 1 \leq MaxAttempts
      BY <2>1, <2>3, <1>s, <1>b DEF Attempt
    <3> QED  BY <2>2, <2>5, <3>1
  <2> QED  BY <2>3, <2>4, <2>6 DEF graphVars
<1>9. ASSUME NEW a \in DOMAIN attempts, NEW role \in Role, Heartbeat(a, role)
      PROVE  TypeOK'
  <2>1. lapsed' \in [Task -> BOOLEAN]
    BY <1>9 DEF Heartbeat
  <2> QED  BY <1>9, <2>1 DEF Heartbeat, graphVars
<1>10. ASSUME NEW pl \in Plan, NEW role \in Role, CreatePlan(pl, role)
       PROVE  TypeOK'
  BY <1>10 DEF CreatePlan, graphVars, leaseVars
<1>11. ASSUME NEW T \in SUBSET tasks, NEW m \in Move, MoveAll(T, m)
       PROVE  state' \in [Task -> State] /\ boosted' \in [Task -> BOOLEAN]
  BY <1>11, MoveTarget DEF MoveAll
<1>12. ASSUME NEW pl \in Plan, NEW role \in Role, ApprovePlan(pl, role)
       PROVE  TypeOK'
  <2>1. state' \in [Task -> State] /\ boosted' \in [Task -> BOOLEAN]
    BY <1>11, <1>12, ApproveHook DEF ApprovePlan, PlanTasks
  <2> QED  BY <1>12, <2>1 DEF ApprovePlan, MoveAll, graphVars, leaseVars
<1>13. ASSUME NEW pl \in Plan, NEW role \in Role, DiscardPlan(pl, role)
       PROVE  TypeOK'
  <2>1. state' \in [Task -> State] /\ boosted' \in [Task -> BOOLEAN]
    BY <1>11, <1>13, DiscardHook DEF DiscardPlan, PlanTasks
  <2>2. announced' \subseteq tasks'
    BY <1>13 DEF DiscardPlan, Announce, Settled
  <2> QED  BY <1>13, <2>1, <2>2 DEF DiscardPlan, MoveAll, graphVars, leaseVars
<1>14. ASSUME NEW t \in tasks, NEW role \in Role, ApproveTask(t, role)
       PROVE  TypeOK'
  <2>1. state' \in [Task -> State] /\ boosted' \in [Task -> BOOLEAN]
    BY <1>11, <1>14, ApproveHook DEF ApproveTask
  <2> QED  BY <1>14, <2>1 DEF ApproveTask, MoveAll, graphVars, leaseVars
<1>15. ASSUME NEW t \in tasks, LeaseLapses(t)
       PROVE  TypeOK'
  BY <1>15 DEF LeaseLapses, graphVars
<1>16. ASSUME NEW t \in tasks, HoldEnds(t)
       PROVE  TypeOK'
  BY <1>16 DEF HoldEnds, leaseVars
<1>17. CASE UNCHANGED vars
  BY <1>17 DEF vars
<1> HIDE DEF TypeOK
<1> QED
  BY <1>1, <1>2, <1>3, <1>4, <1>5, <1>6, <1>7, <1>8, <1>9, <1>10, <1>12, <1>13, <1>14,
     <1>15, <1>16, <1>17
  DEF Next, TasksNext, MovesNext, ClaimsNext, PlansNext, TimeNext

\* Every reachable state of the engine is well typed: only declared states, edges
\* only between tasks that exist, leases and attempts within the tables.
THEOREM TypeCorrect == Spec => []TypeOK
<1> QED  BY TypeInit, TypeStep, PTL DEF Spec

---------------------------------------------------------------------------
\* Leases and attempts.

\* Ids not yet given out have never been leased.
FreshRows == \A t \in Task : t > created => state[t] = CreateState /\ parent[t] = None

LeaseInv == TypeOK /\ FreshRows /\ LeaseExact

\* Every attempt is of some task.
LEMMA AttemptsTyped ==
  ASSUME TypeOK
  PROVE  /\ \A a \in DOMAIN attempts : attempts[a].task \in Task
         /\ DOMAIN attempts = 1 .. Len(attempts) /\ Len(attempts) \in Nat
<1>1. attempts \in Seq(AttemptRecord)
  BY DEF TypeOK
<1>2. /\ \A a \in DOMAIN attempts : attempts[a] \in AttemptRecord
      /\ DOMAIN attempts = 1 .. Len(attempts) /\ Len(attempts) \in Nat
  BY <1>1
<1>3. \A r \in AttemptRecord : r.task \in Task
  BY DEF AttemptRecord
<1> QED  BY <1>2, <1>3

\* The effect of the sweep on leases, when no expiry hook is the claim move: the
\* tasks of S hold none any more and nothing else changes.
LEMMA SweptExact ==
  ASSUME ExpiryIsNotClaim, TypeOK, LeaseExact, NEW S \in SUBSET Lapsed
  PROVE  /\ \A t \in Task : SweptState(S)[t] = Leased <=> SweptLease(S)[t] # None
         /\ \A t \in Task : SweptLease(S)[t] # None =>
              /\ SweptLease(S)[t] \in DOMAIN attempts
              /\ SweptAttempts(S)[SweptLease(S)[t]] = [task |-> t, outcome |-> Running]
         /\ \A a \in DOMAIN attempts :
              SweptAttempts(S)[a].outcome = Running => SweptLease(S)[attempts[a].task] = a
         /\ \A a \in DOMAIN attempts : SweptAttempts(S)[a].task = attempts[a].task
         /\ DOMAIN SweptAttempts(S) = DOMAIN attempts
         /\ \A t \in Task \ S : SweptState(S)[t] = state[t]
         /\ \A t \in Task : SweptState(S)[t] \in Terminal <=> state[t] \in Terminal
<1>1. \A t : /\ MoveDef[ExpiryMove(t)].to \notin Terminal \cup {Leased}
             /\ ExpiryMove(t) # Running
  BY ExpiryMoveKind, ExpiryMoveTarget, LeasedByClaim, BoundsAssumption
     DEF ExpiryIsNotClaim, Running
<1>2. S \subseteq Task /\ \A t \in S : state[t] = Leased
  BY BoundsAssumption DEF Lapsed, TypeOK, Task
<1>3. \A a \in DOMAIN attempts : attempts[a].task \in Task
  BY AttemptsTyped
<1>4. \A t \in Task : SweptState(S)[t] = Leased <=> SweptLease(S)[t] # None
  BY <1>1, <1>2 DEF SweptState, SweptLease, LeaseExact
<1>5. \A a \in DOMAIN attempts : SweptAttempts(S)[a].task = attempts[a].task
  BY DEF SweptAttempts, Ended
<1>6. \A t \in Task : SweptLease(S)[t] # None =>
              /\ SweptLease(S)[t] \in DOMAIN attempts
              /\ SweptAttempts(S)[SweptLease(S)[t]] = [task |-> t, outcome |-> Running]
  <2> SUFFICES ASSUME NEW t \in Task, SweptLease(S)[t] # None
               PROVE  /\ SweptLease(S)[t] \in DOMAIN attempts
                      /\ SweptAttempts(S)[SweptLease(S)[t]] = [task |-> t, outcome |-> Running]
    OBVIOUS
  <2>1. t \notin S /\ SweptLease(S)[t] = lease[t]
    BY DEF SweptLease
  <2>2. lease[t] \in DOMAIN attempts /\ attempts[lease[t]] = [task |-> t, outcome |-> Running]
    BY <2>1 DEF LeaseExact
  <2>3. SweptAttempts(S)[lease[t]] = attempts[lease[t]]
    BY <2>1, <2>2 DEF SweptAttempts
  <2> QED  BY <2>1, <2>2, <2>3
<1>7. \A a \in DOMAIN attempts :
              SweptAttempts(S)[a].outcome = Running => SweptLease(S)[attempts[a].task] = a
  BY <1>1, <1>2, <1>3 DEF SweptLease, SweptAttempts, Ended, LeaseExact
<1>8. DOMAIN SweptAttempts(S) = DOMAIN attempts
  BY DEF SweptAttempts
<1>9. /\ \A t \in Task \ S : SweptState(S)[t] = state[t]
      /\ \A t \in Task : SweptState(S)[t] \in Terminal <=> state[t] \in Terminal
  BY <1>1, <1>2, FlagRules DEF SweptState
<1> QED  BY <1>4, <1>5, <1>6, <1>7, <1>8, <1>9


\* A step either gives out the next id or leaves the rows of unused ids alone.
LEMMA FreshStep == TypeOK /\ FreshRows /\ [Next]_vars => FreshRows'
<1> SUFFICES ASSUME TypeOK, FreshRows, [Next]_vars PROVE FreshRows'
  OBVIOUS
<1>1. created \in Nat /\ tasks \subseteq 1 .. created /\ tasks \subseteq Task
      /\ \A t \in tasks : ~(t > created)
  <2>1. MaxTasks \in Nat /\ created \in 0 .. MaxTasks /\ tasks \subseteq 1 .. created
    BY BoundsAssumption DEF TypeOK
  <2> QED  BY <2>1 DEF Task
<1>2. ASSUME created' = created,
             \A t \in Task \ tasks : state'[t] = state[t] /\ parent'[t] = parent[t]
      PROVE  FreshRows'
  BY <1>1, <1>2 DEF FreshRows
<1>3. state \in [Task -> State] /\ parent \in [Task -> Task \cup {None}]
  BY DEF TypeOK
<1>4. ASSUME NEW role \in Role, NEW k \in Kind, NEW pr \in Priority, NEW h \in Hold,
             NEW p \in tasks \cup {None}, NEW pl \in Plan \cup {None},
             Create(role, k, pr, h, p, pl)
      PROVE  FreshRows'
  <2>1. /\ created' = created + 1
        /\ \A t \in Task \ {created + 1} : state'[t] = state[t] /\ parent'[t] = parent[t]
    BY <1>3, <1>4 DEF Create
  <2>2. Task \subseteq Nat
    BY BoundsAssumption DEF Task
  <2> QED  BY <1>1, <2>1, <2>2 DEF FreshRows
<1>5. ASSUME NEW t \in tasks, NEW role \in Role, NEW k \in Kind, NEW pr \in Priority,
             NEW h \in Hold, NEW p \in tasks \cup {None}, Update(t, role, k, pr, h, p)
      PROVE  FreshRows'
  BY <1>2, <1>3, <1>5 DEF Update
<1>6. ASSUME NEW t \in tasks, NEW role \in Role, Delete(t, role)
      PROVE  FreshRows'
  BY <1>2, <1>6 DEF Delete
<1>7. ASSUME NEW t \in tasks, NEW u \in tasks, NEW role \in Role,
             AddDep(t, u, role) \/ RemoveDep(t, u, role)
      PROVE  FreshRows'
  BY <1>2, <1>7 DEF AddDep, RemoveDep
<1>8. ASSUME NEW t \in tasks, NEW m \in Move, NEW role \in MoveRole, NEW drop \in BOOLEAN,
             NEW fence, MakeMove(t, m, role, drop, fence)
      PROVE  FreshRows'
  BY <1>2, <1>3, <1>8 DEF MakeMove
<1>9. \A S \in SUBSET tasks : \A t \in Task \ tasks : SweptState(S)[t] = state[t]
  BY DEF SweptState
<1>10. ASSUME NEW locked \in SUBSET tasks, ExpireLeases(locked)
       PROVE  FreshRows'
  <2>1. Lapsed \ locked \in SUBSET tasks
    BY DEF Lapsed
  <2>2. state' = SweptState(Lapsed \ locked) /\ parent' = parent /\ created' = created
    BY <1>10 DEF ExpireLeases, graphVars
  <2> QED  BY <1>2, <1>9, <2>1, <2>2
<1>11. ASSUME NEW locked \in SUBSET tasks, NEW role \in Role, Claim(role, locked)
       PROVE  FreshRows'
  <2>1. Lapsed \ locked \in SUBSET tasks
    BY DEF Lapsed
  <2>2. PICK t \in tasks : state' = [SweptState(Lapsed \ locked) EXCEPT ![t] = Leased]
    BY <1>11 DEF Claim
  <2>3. parent' = parent /\ created' = created
    BY <1>11 DEF Claim, graphVars
  <2>4. \A x \in Task \ tasks : state'[x] = SweptState(Lapsed \ locked)[x]
    BY <2>2 DEF SweptState
  <2> QED  BY <1>2, <1>9, <2>1, <2>3, <2>4
<1>12. ASSUME NEW a \in DOMAIN attempts, NEW role \in Role, Heartbeat(a, role)
       PROVE  FreshRows'
  BY <1>2, <1>12 DEF Heartbeat, graphVars
<1>13. ASSUME NEW T \in SUBSET tasks, NEW m \in Move, MoveAll(T, m)
       PROVE  FreshRows'
  BY <1>2, <1>13 DEF MoveAll, graphVars
<1>14. ASSUME NEW pl \in Plan, NEW role \in Role,
              CreatePlan(pl, role) \/ ApprovePlan(pl, role) \/ DiscardPlan(pl, role)
       PROVE  FreshRows'
  <2>1. CASE CreatePlan(pl, role)
    BY <1>2, <2>1 DEF CreatePlan, graphVars
  <2>2. CASE ApprovePlan(pl, role)
    BY <1>13, <2>2, ApproveHook DEF ApprovePlan, PlanTasks
  <2>3. CASE DiscardPlan(pl, role)
    BY <1>13, <2>3, DiscardHook DEF DiscardPlan, PlanTasks
  <2> QED  BY <1>14, <2>1, <2>2, <2>3
<1>15. ASSUME NEW t \in tasks, NEW role \in Role, ApproveTask(t, role)
       PROVE  FreshRows'
  BY <1>13, <1>15, ApproveHook DEF ApproveTask
<1>16. ASSUME NEW t \in tasks, LeaseLapses(t) \/ HoldEnds(t)
       PROVE  FreshRows'
  BY <1>2, <1>16 DEF LeaseLapses, HoldEnds, graphVars
<1>17. CASE UNCHANGED vars
  BY <1>2, <1>17 DEF vars
<1> QED
  BY <1>4, <1>5, <1>6, <1>7, <1>8, <1>10, <1>11, <1>12, <1>14, <1>15, <1>16, <1>17
  DEF Next, TasksNext, MovesNext, ClaimsNext, PlansNext, TimeNext

\* A step that touches no lease, no attempt and no state in or out of the leased one.
LEMMA LeaseFrame ==
  ASSUME LeaseExact, UNCHANGED <<lease, attempts>>,
         \A t \in Task : state'[t] = Leased <=> state[t] = Leased
  PROVE  LeaseExact'
  BY DEF LeaseExact

LEMMA LeaseStep ==
  ASSUME ExpiryIsNotClaim
  PROVE  LeaseInv /\ [Next]_vars => LeaseExact'
<1> SUFFICES ASSUME LeaseInv, [Next]_vars PROVE LeaseExact'
  OBVIOUS
<1>1. TypeOK /\ FreshRows /\ LeaseExact
  BY DEF LeaseInv
<1>2. /\ created \in Nat /\ tasks \subseteq Task /\ state \in [Task -> State]
      /\ lease \in [Task -> Attempt \cup {None}]
      /\ \A a \in DOMAIN attempts : attempts[a].task \in Task
      /\ DOMAIN attempts = 1 .. Len(attempts) /\ Len(attempts) \in Nat
  <2>1. /\ created \in Nat /\ tasks \subseteq Task /\ state \in [Task -> State]
        /\ lease \in [Task -> Attempt \cup {None}]
    BY <1>1, BoundsAssumption DEF TypeOK, Task
  <2> QED  BY <1>1, <2>1, AttemptsTyped
<1>3. CreateState # Leased /\ Claimable # Leased
  BY FlagRules, ApproveHook
<1>4. ASSUME NEW role \in Role, NEW k \in Kind, NEW pr \in Priority, NEW h \in Hold,
             NEW p \in tasks \cup {None}, NEW pl \in Plan \cup {None},
             Create(role, k, pr, h, p, pl)
      PROVE  LeaseExact'
  <2>1. created + 1 \in Task /\ created + 1 > created
    BY <1>2, <1>4, BoundsAssumption DEF Create, Task
  <2>2. state[created + 1] # Leased
    BY <1>1, <1>3, <2>1 DEF FreshRows
  <2>3. CreateByRole[role] # Leased
    BY <1>3, KnownNames
  <2>4. /\ state' = [state EXCEPT ![created + 1] = IF pl = None THEN CreateByRole[role]
                                                   ELSE CreateState]
        /\ UNCHANGED <<lease, attempts>>
    BY <1>4 DEF Create, leaseVars
  <2>5. \A t \in Task : state'[t] = Leased <=> state[t] = Leased
    BY <1>2, <1>3, <2>1, <2>2, <2>3, <2>4
  <2> QED  BY <1>1, <2>4, <2>5, LeaseFrame
<1>5. ASSUME NEW t \in tasks, NEW role \in Role,
             \/ \E k \in Kind, pr \in Priority, h \in Hold, p \in tasks \cup {None} :
                  Update(t, role, k, pr, h, p)
             \/ Delete(t, role)
             \/ \E u \in tasks : AddDep(t, u, role) \/ RemoveDep(t, u, role)
      PROVE  LeaseExact'
  <2>1. UNCHANGED <<state, lease, attempts>>
    BY <1>5 DEF Update, Delete, AddDep, RemoveDep, leaseVars
  <2> QED  BY <1>1, <2>1, LeaseFrame
<1>14. ASSUME NEW t \in tasks, LeaseLapses(t) \/ HoldEnds(t)
       PROVE  LeaseExact'
  <2>1. UNCHANGED <<state, lease, attempts>>
    BY <1>14 DEF LeaseLapses, HoldEnds, leaseVars
  <2> QED  BY <1>1, <2>1, LeaseFrame
<1>6. ASSUME NEW t \in tasks, NEW m \in Move, NEW role \in MoveRole, NEW drop \in BOOLEAN,
             NEW fence, MakeMove(t, m, role, drop, fence)
      PROVE  LeaseExact'
  <2>1. MoveDef[m].to # Leased /\ m # Running /\ t \in Task
    BY <1>2, <1>6, LeasedByClaim, BoundsAssumption DEF MakeMove, Running
  <2>2. /\ state' = [state EXCEPT ![t] = MoveDef[m].to]
        /\ lease' = [lease EXCEPT ![t] = None]
        /\ attempts' = IF state[t] = Leased /\ lease[t] # None
                       THEN EndAttempt(lease[t], m) ELSE attempts
    BY <1>6 DEF MakeMove
  <2>3. \A x \in Task : state'[x] = Leased <=> lease'[x] # None
    BY <1>1, <1>2, <2>1, <2>2 DEF LeaseExact
  <2>4. DOMAIN attempts' = DOMAIN attempts
    BY <2>2 DEF EndAttempt
  <2>5. ASSUME NEW a \in DOMAIN attempts, a # lease[t] PROVE attempts'[a] = attempts[a]
    BY <2>2, <2>5 DEF EndAttempt
  <2>6. ASSUME NEW x \in Task, lease'[x] # None
        PROVE  lease'[x] \in DOMAIN attempts' /\ attempts'[lease'[x]] = [task |-> x, outcome |-> Running]
    <3>1. x # t /\ lease'[x] = lease[x]
      BY <1>2, <2>1, <2>2, <2>6
    <3>2. lease[x] \in DOMAIN attempts /\ attempts[lease[x]] = [task |-> x, outcome |-> Running]
      BY <1>1, <2>6, <3>1 DEF LeaseExact
    <3>3. lease[x] # lease[t]
      <4> SUFFICES ASSUME lease[x] = lease[t] PROVE FALSE
        OBVIOUS
      <4>1. attempts[lease[t]] = [task |-> t, outcome |-> Running]
        BY <1>1, <2>1, <2>6, <3>1 DEF LeaseExact
      <4>2. attempts[lease[t]].task = t /\ attempts[lease[x]].task = x
        BY <3>2, <4>1
      <4> QED  BY <3>1, <4>2
    <3> QED  BY <2>4, <2>5, <3>1, <3>2, <3>3
  <2>7. ASSUME NEW a \in DOMAIN attempts', attempts'[a].outcome = Running
        PROVE  lease'[attempts'[a].task] = a
    <3>1. a \in DOMAIN attempts
      BY <2>4
    <3>2. a # lease[t]
      <4> SUFFICES ASSUME a = lease[t] PROVE FALSE
        OBVIOUS
      <4>0. a # None
        BY <1>2, <3>1, BoundsAssumption
      <4>1. state[t] = Leased /\ lease[t] # None
        BY <1>1, <2>1, <4>0 DEF LeaseExact
      <4>2. attempts[a] = [task |-> t, outcome |-> Running]
        BY <1>1, <2>1, <4>1 DEF LeaseExact
      <4>3. attempts'[a] = Ended(attempts[a], m)
        BY <2>2, <3>1, <4>1, <4>2 DEF EndAttempt
      <4> QED  BY <2>1, <2>7, <4>3 DEF Ended
    <3>3. attempts'[a] = attempts[a] /\ lease[attempts[a].task] = a
      BY <1>1, <2>5, <2>7, <3>1, <3>2 DEF LeaseExact
    <3>4. attempts[a].task # t /\ attempts[a].task \in Task
      BY <1>2, <3>1, <3>2, <3>3
    <3> QED  BY <1>2, <2>1, <2>2, <3>3, <3>4
  <2> QED  BY <2>3, <2>6, <2>7 DEF LeaseExact
<1>7. ASSUME NEW locked \in SUBSET tasks, ExpireLeases(locked)
      PROVE  LeaseExact'
  <2> DEFINE S == Lapsed \ locked
  <2>1. S \in SUBSET Lapsed
    OBVIOUS
  <2> HIDE DEF S
  <2>2. state' = SweptState(S) /\ lease' = SweptLease(S) /\ attempts' = SweptAttempts(S)
    BY <1>7 DEF ExpireLeases, S
  <2> QED  BY <1>1, <2>1, <2>2, SweptExact DEF LeaseExact
<1>8. ASSUME NEW locked \in SUBSET tasks, NEW role \in Role, Claim(role, locked)
      PROVE  LeaseExact'
  <2> DEFINE S == Lapsed \ locked
             a == Len(attempts) + 1
  <2>1. S \in SUBSET Lapsed /\ S \in SUBSET tasks
    BY DEF Lapsed
  <2>2. PICK t \in tasks :
          /\ ReadyIn(SweptState(S), t)
          /\ state' = [SweptState(S) EXCEPT ![t] = Leased]
          /\ lease' = [SweptLease(S) EXCEPT ![t] = a]
          /\ attempts' = Append(SweptAttempts(S), [task |-> t, outcome |-> Running])
    BY <1>8 DEF Claim
  <2> HIDE DEF S
  <2>3. /\ SweptState(S) \in [Task -> State] /\ SweptLease(S) \in [Task -> Attempt \cup {None}]
        /\ SweptAttempts(S) \in Seq(AttemptRecord) /\ Len(SweptAttempts(S)) = Len(attempts)
    BY <1>1, <2>1, SweptTypes
  <2>4. t \in Task /\ a # None /\ a \notin DOMAIN attempts
    BY <1>2, BoundsAssumption
  <2>5. SweptState(S)[t] # Leased
    BY <1>3, <2>2 DEF ReadyIn
  <2>6. SweptLease(S)[t] = None
    BY <1>1, <2>1, <2>4, <2>5, SweptExact
  <2>7. /\ DOMAIN attempts' = DOMAIN attempts \cup {a}
        /\ attempts'[a] = [task |-> t, outcome |-> Running]
        /\ \A b \in DOMAIN attempts : attempts'[b] = SweptAttempts(S)[b]
    BY <1>2, <2>2, <2>3
  <2>8. \A x \in Task : state'[x] = Leased <=> lease'[x] # None
    BY <1>1, <2>1, <2>2, <2>3, <2>4, SweptExact
  <2>9. ASSUME NEW x \in Task, lease'[x] # None
        PROVE  lease'[x] \in DOMAIN attempts' /\ attempts'[lease'[x]] = [task |-> x, outcome |-> Running]
    <3>1. CASE x = t
      BY <2>2, <2>3, <2>4, <2>7, <3>1
    <3>2. CASE x # t
      <4>1. lease'[x] = SweptLease(S)[x]
        BY <2>2, <2>3, <3>2
      <4> QED  BY <1>1, <2>1, <2>7, <2>9, <4>1, SweptExact
    <3> QED  BY <3>1, <3>2
  <2>10. ASSUME NEW b \in DOMAIN attempts', attempts'[b].outcome = Running
         PROVE  lease'[attempts'[b].task] = b
    <3>1. CASE b = a
      BY <2>2, <2>3, <2>4, <2>7, <3>1
    <3>2. CASE b \in DOMAIN attempts
      <4>1. /\ SweptLease(S)[attempts[b].task] = b
            /\ attempts'[b].task = attempts[b].task
        BY <1>1, <2>1, <2>7, <2>10, <3>2, SweptExact
      <4>2. b # None
        BY <1>2, <3>2, BoundsAssumption
      <4>3. attempts[b].task # t /\ attempts[b].task \in Task
        BY <1>2, <2>6, <3>2, <4>1, <4>2
      <4> QED  BY <2>2, <2>3, <4>1, <4>3
    <3> QED  BY <2>7, <2>10, <3>1, <3>2
  <2> QED  BY <2>8, <2>9, <2>10 DEF LeaseExact
<1>9. ASSUME NEW b \in DOMAIN attempts, NEW role \in Role, Heartbeat(b, role)
      PROVE  LeaseExact'
  <2>1. UNCHANGED <<state, lease, attempts>>
    BY <1>9 DEF Heartbeat
  <2> QED  BY <1>1, <2>1, LeaseFrame
<1>10. ASSUME NEW T \in SUBSET tasks, NEW m \in {OnApprove, OnDiscard}, MoveAll(T, m),
              \A t \in T : state[t] = CreateState
       PROVE  LeaseExact'
  <2>1. MoveDef[m].to # Leased
    BY <1>3, ApproveHook, DiscardHook, FlagRules
  <2>2. UNCHANGED <<lease, attempts>> /\ \A t \in Task : state'[t] = Leased <=> state[t] = Leased
    BY <1>3, <1>10, <2>1 DEF MoveAll, leaseVars
  <2> QED  BY <1>1, <2>2, LeaseFrame
<1>11. ASSUME NEW pl \in Plan, NEW role \in Role,
              CreatePlan(pl, role) \/ ApprovePlan(pl, role) \/ DiscardPlan(pl, role)
       PROVE  LeaseExact'
  <2>1. CASE CreatePlan(pl, role)
    <3>1. UNCHANGED <<state, lease, attempts>>
      BY <2>1 DEF CreatePlan, leaseVars
    <3> QED  BY <1>1, <3>1, LeaseFrame
  <2>2. CASE ApprovePlan(pl, role)
    BY <1>10, <2>2 DEF ApprovePlan, PlanTasks, PreApproval
  <2>3. CASE DiscardPlan(pl, role)
    BY <1>10, <2>3 DEF DiscardPlan, PlanTasks
  <2> QED  BY <1>11, <2>1, <2>2, <2>3
<1>12. ASSUME NEW t \in tasks, NEW role \in Role, ApproveTask(t, role)
       PROVE  LeaseExact'
  BY <1>10, <1>12 DEF ApproveTask, PreApproval
<1>13. CASE UNCHANGED vars
  BY <1>1, <1>13, LeaseFrame DEF vars
<1> QED
  BY <1>4, <1>5, <1>6, <1>7, <1>8, <1>9, <1>11, <1>12, <1>13, <1>14
  DEF Next, TasksNext, MovesNext, ClaimsNext, PlansNext, TimeNext

\* At most one live lease per task, a lease only in the leased state, and exactly the
\* open attempt holding it: for every lifecycle whose expiry hooks are not its claim
\* move, however claims, sweeps, heartbeats and moves interleave.
THEOREM LeasesAreExact == ASSUME ExpiryIsNotClaim PROVE Spec => []LeaseExact
<1>1. Init => LeaseInv
  <2> SUFFICES ASSUME Init PROVE LeaseInv
    OBVIOUS
  <2>1. FreshRows
    BY DEF Init, FreshRows
  <2>2. LeaseExact
    BY ApproveHook DEF Init, LeaseExact
  <2> QED  BY <2>1, <2>2, TypeInit DEF LeaseInv
<1>2. LeaseInv /\ [Next]_vars => LeaseInv'
  BY TypeStep, FreshStep, LeaseStep DEF LeaseInv
<1>3. LeaseInv => LeaseExact
  BY DEF LeaseInv
<1> QED  BY <1>1, <1>2, <1>3, PTL DEF Spec

=============================================================================
