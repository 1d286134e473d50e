---------------------------- MODULE WorkerProofs ----------------------------
(***************************************************************************)
(* The worker processes, proved for every number of processes and tasks,    *)
(* every merge policy and every mix of faults a scene may have.              *)
(***************************************************************************)
EXTENDS Worker, WellFoundedInduction, TLAPS

\* The shape of each part of the state.
DbTypes ==
  /\ state \in [Task -> {"open", "claimed", "waiting", "blocked", "done"}]
  /\ boosted \in [Task -> BOOLEAN] /\ lapsed \in [Task -> BOOLEAN]
  /\ lease \in [Task -> DOMAIN attempts \cup {None}]
EvidenceTypes ==
  /\ attempts \in Seq([task : Task, by : Process]) /\ Len(attempts) <= MaxAttempts
  /\ prNoted \subseteq DOMAIN attempts /\ landNoted \subseteq DOMAIN attempts
OriginTypes ==
  /\ pr \in [Task -> {"none", "open", "merged", "closed"}]
  /\ opener \in [Task -> DOMAIN attempts \cup {None}]
  /\ feedback \in [Task -> BOOLEAN] /\ landed \subseteq DOMAIN attempts
TreeTypes ==
  /\ main \in [Process -> SUBSET (DOMAIN attempts)]
  /\ branches \in [Process -> SUBSET Task] /\ dirty \in [Process -> BOOLEAN]
RunTypes ==
  /\ cur \in [Process -> DOMAIN attempts \cup {None}]
  /\ claims \in [Process -> SUBSET (DOMAIN attempts)]
  /\ ended \in [Process -> SUBSET Task]
  /\ err \in [Process -> {"no", "lost", "other"}] /\ aborted \in [Process -> BOOLEAN]
PauseTypes ==
  /\ healing \in [Process -> BOOLEAN] /\ wasStuck \in [Process -> BOOLEAN]
  /\ paused \in [Process -> {"no", "cooldown", "manual", "stuck"}]
  /\ stuckMark \in [Process -> BOOLEAN]
  /\ engine \in [Process -> BOOLEAN] /\ lock \in Process \cup {None}
RecTypes ==
  rec \in [Process -> [todo : SUBSET Task, task : Task \cup {None},
                      saw : {"none", "open", "merged", "closed"}]]
HistoryTypes ==
  adrift \subseteq DOMAIN attempts /\ cut \subseteq (DOMAIN attempts) \X Reason
Types ==
  /\ scene \in Scene /\ pc \in [Process -> Place]
  /\ DbTypes /\ EvidenceTypes /\ OriginTypes /\ TreeTypes /\ RunTypes /\ PauseTypes /\ RecTypes
  /\ HistoryTypes

\* The places of a cycle that has a claim.
InRun == (Preparing \ {"claim"}) \cup Working

\* A lease is of an attempt at its task, which is claimed just as long; only a lease lapses.
LeasesMatch ==
  \A t \in Task :
    /\ lease[t] # None => TaskOf(lease[t]) = t /\ state[t] = "claimed"
    /\ lapsed[t] => lease[t] # None

\* A process works on an attempt of its own, from its claim to the end of the cycle; errors
\* and aborts are of a run, and a self-heal begins in the run it aborts and ends before
\* the next is selected.
RunsOwn ==
  \A p \in Process :
    /\ pc[p] \in InRun => cur[p] # None /\ attempts[cur[p]].by = p
    /\ pc[p] \notin InRun => cur[p] = None
    /\ pc[p] \notin Working => err[p] = "no" /\ ~aborted[p]
    /\ healing[p] => aborted[p] \/ pc[p] \in {"idle", "select"}

Shaped == Types /\ LeasesMatch /\ RunsOwn

\* What a run that does not give its claim back knows: the claim is not held any more, or
\* the database was lost under it.
ErrorsTrue ==
  \A p \in Process : cur[p] # None =>
    /\ err[p] = "lost" => ~Held(cur[p])
    /\ err[p] = "other" => cur[p] \in adrift
    /\ Mine(p) \in ended[p] => ~Held(cur[p])

\* A change of the task is on origin's main.
OnMain(t) == \E a \in landed : TaskOf(a) = t

\* What stands for a landing: a pull request that is merged, or that reconcile saw merged,
\* the evidence, and a run past its push.
PrsTrue ==
  \A t \in Task :
    /\ pr[t] = "open" => opener[t] # None /\ TaskOf(opener[t]) = t
    /\ pr[t] = "merged" => OnMain(t)
SeenTrue == \A p \in Process : rec[p].saw = "merged" => rec[p].task # None /\ OnMain(rec[p].task)
RunsLanded == \A p \in Process : pc[p] \in {"noteLanded", "finish"} => cur[p] \in landed
NotesTrue == \A a \in landNoted : OnMain(TaskOf(a))
WitnessesTrue == PrsTrue /\ SeenTrue /\ RunsLanded /\ NotesTrue

Pushed(t) == Policy[t] = "push"
Owed(a) == \E why \in Reason : <<a, why>> \in cut

\* A pushed task has no pull request and is never waiting; reconcile and the places of a
\* pull request are for the others.
PushedApart ==
  \A t \in Task : Pushed(t) => pr[t] = "none" /\ state[t] # "waiting" /\ AttemptsAt(t) \cap prNoted = {}
RecsApart ==
  \A p \in Process : /\ \A t \in rec[p].todo : ~Pushed(t)
                     /\ rec[p].task # None => ~Pushed(rec[p].task)
ByPr == {"prepFollowup", "notePutBack", "putBack", "followup", "noteAgain", "resubmit", "openPr", "notePr", "submit"}
PlacesApart == \A p \in Process : pc[p] \in ByPr => ~Pushed(Mine(p))
Apart == PushedApart /\ RecsApart /\ PlacesApart

\* A run that lands a pushed task keeps the lease that beforeMerge checked until the task
\* is finished or flagged, or owes a second landing.
Recording == {"noteLanded", "finish", "flagLanded"}
LandingHeld ==
  \A p \in Process : pc[p] \in Recording \cup {"merge"} /\ Pushed(Mine(p))
    => Owed(cur[p]) \/ (Held(cur[p]) /\ ~lapsed[Mine(p)])

\* A squash commit that was not pushed is of an attempt that owes a second landing.
UnpushedOwed == \A p \in Process : \A a \in main[p] \ landed : Owed(a)

\* A lease is of the last attempt of its task.
LeaseIsLast == \A t \in Task : lease[t] # None => \A b \in AttemptsAt(t) : b <= lease[t]

\* An attempt that landed a pushed task and owes nothing is the task's last: the run has
\* still to record it, or the task is done, or blocked for a person.
LandedIsLast ==
  \A a \in landed : Pushed(TaskOf(a)) /\ ~Owed(a) =>
    /\ \A b \in AttemptsAt(TaskOf(a)) : b <= a
    /\ \/ state[TaskOf(a)] \in {"done", "blocked"}
       \/ Held(a) /\ \E p \in Process : cur[p] = a /\ pc[p] \in Recording

LandingInv == Apart /\ LandingHeld /\ UnpushedOwed /\ LeaseIsLast /\ LandedIsLast

----------------------------------------------------------------------------
(* The shape of the state                                                    *)

USE DEF TaskOf, Mine, Held, Goto, Pause, Cut, MoveTask, Make, Sweep, LetGo, db, evidence, origin, tree, run,
  heal, pauses, conn, history

\* The parts give TypeOK.
LEMMA TypesTyped == Types => TypeOK
<1>. SUFFICES ASSUME Types PROVE TypeOK
  OBVIOUS
<1>0. MaxAttempts \in Nat
  BY WorkerAssumption DEF Types, MaxAttempts
<1>1. DOMAIN attempts \subseteq Attempt
  BY <1>0 DEF Types, EvidenceTypes, Attempt
<1>2. lease \in [Task -> Attempt \cup {None}]
  BY <1>1 DEF Types, DbTypes
<1>3. {prNoted, landNoted, landed, adrift} \subseteq SUBSET (DOMAIN attempts)
  BY DEF Types, EvidenceTypes, OriginTypes, HistoryTypes
<1>. QED
  BY <1>2, <1>3 DEF Types, DbTypes, EvidenceTypes, OriginTypes, TreeTypes, RunTypes, PauseTypes, RecTypes,
    HistoryTypes, TypeOK

LEMMA InitTypes == Init => Types
<1>. SUFFICES ASSUME Init PROVE Types
  OBVIOUS
<1>0. MaxAttempts \in Nat
  BY WorkerAssumption DEF Init, MaxAttempts
<1>1. DbTypes /\ EvidenceTypes /\ OriginTypes /\ TreeTypes
  BY <1>0 DEF Init, DbTypes, EvidenceTypes, OriginTypes, TreeTypes
<1>2. RunTypes /\ PauseTypes /\ RecTypes /\ HistoryTypes
  BY DEF Init, RunTypes, PauseTypes, RecTypes, HistoryTypes, NoRec
<1>. QED
  BY <1>1, <1>2 DEF Init, Types, Place

\* claim: the attempts it leaves are those there were and a new one, of p and t.
LEMMA LeaseAppends ==
  ASSUME NEW p \in Process, NEW t \in Task, NEW third, EvidenceTypes, Lease(p, t, third)
  PROVE  /\ attempts' \in Seq([task : Task, by : Process])
         /\ Len(attempts) \in Nat /\ Len(attempts) < MaxAttempts
         /\ Len(attempts') = Len(attempts) + 1
         /\ DOMAIN attempts = 1..Len(attempts)
         /\ DOMAIN attempts' = DOMAIN attempts \cup {Len(attempts) + 1}
         /\ \A a \in DOMAIN attempts : attempts'[a] = attempts[a]
         /\ attempts'[Len(attempts) + 1] = [task |-> t, by |-> p]
<1>. DEFINE new == [task |-> t, by |-> p]
<1>1. attempts' = Append(attempts, new) /\ new \in [task : Task, by : Process]
  BY DEF Lease
<1>2. attempts \in Seq([task : Task, by : Process])
  BY DEF EvidenceTypes
<1>3. Len(attempts) < MaxAttempts
  BY DEF Lease, FirstOf
<1>. HIDE DEF new
<1>4. /\ Len(attempts) \in Nat /\ DOMAIN attempts = 1..Len(attempts)
      /\ attempts' \in Seq([task : Task, by : Process]) /\ Len(attempts') = Len(attempts) + 1
      /\ DOMAIN attempts' = 1..(Len(attempts) + 1)
      /\ \A a \in DOMAIN attempts : attempts'[a] = attempts[a]
      /\ attempts'[Len(attempts) + 1] = new
  BY <1>1, <1>2
<1>5. 1..(Len(attempts) + 1) = (1..Len(attempts)) \cup {Len(attempts) + 1}
  BY <1>4
<1>. QED
  BY <1>3, <1>4, <1>5 DEF new

\* A move keeps the shape of the rows.
LEMMA MoveTyped ==
  ASSUME DbTypes, NEW t \in Task, NEW s \in {"open", "claimed", "waiting", "blocked", "done"},
         NEW b \in BOOLEAN, MoveTask(t, s, b), UNCHANGED attempts
  PROVE  DbTypes'
BY DEF DbTypes

LEMMA MakeTyped ==
  ASSUME DbTypes, NEW t \in Task, NEW m \in {"finish", "submit", "flag", "release", "followUp"},
         Make(m, t), UNCHANGED attempts
  PROVE  DbTypes'
<1>1. ToState[m] \in {"open", "claimed", "waiting", "blocked", "done"}
  BY DEF ToState
<1>2. BoostAfter(m, boosted[t]) \in BOOLEAN
  BY DEF BoostAfter, DbTypes
<1>. QED
  BY <1>1, <1>2, MoveTyped

LEMMA SweepTyped ==
  ASSUME DbTypes, NEW third, Sweep(third), UNCHANGED attempts
  PROVE  DbTypes'
BY DEF DbTypes, Swept, Unlapsed

LEMMA LeaseTyped ==
  ASSUME DbTypes, EvidenceTypes, NEW p \in Process, NEW t \in Task, NEW third, Lease(p, t, third),
         scene \in Scene, UNCHANGED scene
  PROVE  DbTypes' /\ EvidenceTypes'
<1>0. MaxAttempts \in Nat /\ MaxAttempts' = MaxAttempts
  BY WorkerAssumption DEF MaxAttempts
<1>0a. UNCHANGED <<prNoted, landNoted>>
  BY DEF Lease
<1>0b. /\ attempts' \in Seq([task : Task, by : Process]) /\ Len(attempts) \in Nat
       /\ Len(attempts) < MaxAttempts /\ Len(attempts') = Len(attempts) + 1
       /\ DOMAIN attempts' = DOMAIN attempts \cup {Len(attempts) + 1}
  BY LeaseAppends, Zenon
<1>0c. Len(attempts') <= MaxAttempts
  BY <1>0, <1>0b
<1>1. EvidenceTypes'
  BY <1>0, <1>0a, <1>0b, <1>0c DEF EvidenceTypes
<1>2. Len(attempts) + 1 \in DOMAIN attempts' /\ DOMAIN attempts \subseteq DOMAIN attempts'
  BY <1>0b
<1>. QED
  BY <1>1, <1>2 DEF DbTypes, Lease, Swept, Unlapsed

\* A witness to the greatest of an inhabited set of attempts.
LEMMA NewestAttempt ==
  ASSUME EvidenceTypes, NEW t \in Task, AttemptsAt(t) # {}
  PROVE  /\ Max(AttemptsAt(t)) \in AttemptsAt(t)
         /\ \A a \in AttemptsAt(t) : Max(AttemptsAt(t)) >= a
<1>. DEFINE S == AttemptsAt(t)
            n == Len(attempts)
            D == {n - a : a \in S}
<1>1. n \in Nat /\ S \subseteq 1..n
  BY DEF EvidenceTypes, AttemptsAt
<1>2. D \subseteq Nat /\ D # {}
  BY <1>1
<1>3. PICK z \in D : \A y \in D : z <= y
  <2>. DEFINE Less == {ss \in Nat \X Nat : ss[1] < ss[2]}
  <2>1. IsWellFoundedOn(Less, Nat)
    BY NatLessThanWellFounded DEF OpToRel
  <2>2. PICK z \in D : \A y \in D : ~(<<y, z>> \in Less)
    <3>. HIDE DEF Less, D
    <3>. QED
      BY <1>2, <2>1, WFMin
  <2>3. ASSUME NEW y \in D PROVE z <= y
    <3>1. z \in Nat /\ y \in Nat /\ ~(<<y, z>> \in Less)
      BY <1>2, <2>2
    <3>2. ~(y < z)
      BY <3>1
    <3>. QED
      BY <3>1, <3>2
  <2>. QED
    BY <2>3
<1>4. PICK a \in S : z = n - a
  BY <1>3
<1>5. ASSUME NEW b \in S PROVE a >= b
  <2>1. n - b \in D
    OBVIOUS
  <2>2. n - a <= n - b
    BY <1>3, <1>4, <2>1
  <2>. QED
    BY <1>1, <2>2
<1>. QED
  BY <1>5 DEF Max

\* A part that a step leaves alone keeps its shape.
LEMMA Frame ==
  /\ EvidenceTypes /\ UNCHANGED <<evidence, scene>> => EvidenceTypes'
  /\ DbTypes /\ UNCHANGED <<db, attempts>> => DbTypes'
  /\ OriginTypes /\ UNCHANGED <<origin, attempts>> => OriginTypes'
  /\ TreeTypes /\ UNCHANGED <<tree, attempts>> => TreeTypes'
  /\ RunTypes /\ UNCHANGED <<run, attempts>> => RunTypes'
  /\ PauseTypes /\ UNCHANGED <<heal, pauses, conn>> => PauseTypes'
  /\ RecTypes /\ UNCHANGED rec => RecTypes'
  /\ HistoryTypes /\ UNCHANGED <<history, attempts>> => HistoryTypes'
BY DEF EvidenceTypes, DbTypes, OriginTypes, TreeTypes, RunTypes, PauseTypes, RecTypes, HistoryTypes, MaxAttempts

\* A run works on an attempt of its process at a task.
LEMMA RunHasClaim ==
  ASSUME Types, RunsOwn, NEW p \in Process, pc[p] \in InRun
  PROVE  cur[p] \in DOMAIN attempts /\ Mine(p) \in Task /\ attempts[cur[p]].by = p
<1>1. cur[p] \in DOMAIN attempts /\ attempts[cur[p]].by = p
  BY DEF Types, RunTypes, RunsOwn
<1>. DEFINE Row == [task : Task, by : Process]
<1>2. attempts \in Seq(Row)
  BY DEF Types, EvidenceTypes
<1>3. attempts[cur[p]] \in Row
  <2>. HIDE DEF Row
  <2>. QED
    BY <1>1, <1>2
<1>. QED
  BY <1>1, <1>3

LEMMA TypesNext ==
  ASSUME Types, RunsOwn, WitnessesTrue, Next PROVE Types'
<1>0. UNCHANGED scene /\ MaxAttempts' = MaxAttempts
  BY DEF Next, MaxAttempts
<1>. USE DEF Types
<1>1. ASSUME NEW p \in Process, Start(p) PROVE Types'
  <2>1. UNCHANGED <<db, evidence, origin, run, rec, history>>
    BY <1>1 DEF Start
  <2>2. DbTypes' /\ EvidenceTypes' /\ OriginTypes' /\ RunTypes' /\ RecTypes' /\ HistoryTypes'
    BY <1>0, <2>1, Frame
  <2>3. pc' \in [Process -> Place]
    BY <1>1 DEF Start, Place, Selecting, Preparing, Working, Noting, Moving
  <2>4. TreeTypes'
    BY <1>1, <2>1 DEF TreeTypes, Start
  <2>5. PauseTypes'
    BY <1>1, <2>1 DEF PauseTypes, Start
  <2>. QED
    BY <1>0, <2>2, <2>3, <2>4, <2>5
<1>2. ASSUME NEW p \in Process, Crash(p) PROVE Types'
  <2>1. UNCHANGED <<db, evidence, origin>>
    BY <1>2 DEF Crash
  <2>2. DbTypes' /\ EvidenceTypes' /\ OriginTypes'
    BY <1>0, <2>1, Frame
  <2>3. pc' \in [Process -> Place]
    BY <1>2 DEF Crash, Place, Selecting, Preparing, Working, Noting, Moving
  <2>4. TreeTypes'
    <3>1. pc[p] = "merge" => cur[p] \in DOMAIN attempts
      BY RunHasClaim DEF InRun, Working
    <3>2. main' \in [Process -> SUBSET (DOMAIN attempts)]
      BY <1>2, <3>1 DEF Crash, TreeTypes
    <3>3. UNCHANGED branches /\ dirty' \in [Process -> BOOLEAN]
      <4>1. PICK b \in BOOLEAN : b = (pc[p] \in {"agents", "followup"})
        <5>1. (pc[p] \in {"agents", "followup"}) \in BOOLEAN
          OBVIOUS
        <5>. QED
          BY <5>1, Zenon
      <4>2. UNCHANGED branches /\ dirty' \in {dirty, [dirty EXCEPT ![p] = b]}
        BY <1>2, <4>1, Zenon DEF Crash
      <4>. QED
        BY <4>2 DEF TreeTypes
    <3>. QED
      BY <2>1, <3>2, <3>3 DEF TreeTypes
  <2>5. RunTypes'
    BY <1>2, <2>1 DEF RunTypes, Crash
  <2>6. PauseTypes'
    BY <1>2, <2>1 DEF PauseTypes, Crash
  <2>7. RecTypes'
    BY <1>2, <2>1 DEF RecTypes, Crash, NoRec
  <2>8. HistoryTypes'
    BY <1>2, <2>1 DEF HistoryTypes, Crash, RunTypes, RunsOwn, InRun, Working, Moving, Noting, Landing, Reason
  <2>. QED
    BY <1>0, <2>2, <2>3, <2>4, <2>5, <2>6, <2>7, <2>8
<1>3. ASSUME NEW p \in Process, LockLost(p) PROVE Types'
  <2>1. UNCHANGED <<db, evidence, origin, tree, run, rec, history>>
    BY <1>3 DEF LockLost
  <2>2. DbTypes' /\ EvidenceTypes' /\ OriginTypes' /\ TreeTypes' /\ RunTypes' /\ RecTypes' /\ HistoryTypes'
    BY <1>0, <2>1, Frame
  <2>3. pc' \in [Process -> Place]
    BY <1>3 DEF LockLost
  <2>4. PauseTypes'
    BY <1>3, <2>1 DEF PauseTypes, LockLost
  <2>. QED
    BY <1>0, <2>2, <2>3, <2>4
<1>4. ASSUME NEW p \in Process, StartCycle(p) PROVE Types'
  <2>1. UNCHANGED <<db, evidence, origin, tree, run, heal, pauses, conn, rec, history>>
    BY <1>4 DEF StartCycle
  <2>2. /\ DbTypes' /\ EvidenceTypes' /\ OriginTypes' /\ TreeTypes' /\ RunTypes' /\ PauseTypes' /\ RecTypes'
        /\ HistoryTypes'
    BY <1>0, <2>1, Frame
  <2>3. pc' \in [Process -> Place]
    BY <1>4 DEF StartCycle, Place, Selecting, Preparing, Working, Noting, Moving
  <2>. QED
    BY <1>0, <2>2, <2>3
<1>5. ASSUME NEW p \in Process, Select(p) PROVE Types'
  <2>1. UNCHANGED <<db, evidence, origin, tree, history>>
    BY <1>5 DEF Select
  <2>2. DbTypes' /\ EvidenceTypes' /\ OriginTypes' /\ TreeTypes' /\ HistoryTypes'
    BY <1>0, <2>1, Frame
  <2>3. pc' \in [Process -> Place]
    BY <1>5 DEF Select, Place, Selecting, Preparing, Working, Noting, Moving
  <2>4. RunTypes'
    BY <1>5, <2>1 DEF RunTypes, Select, FreshHooks
  <2>5. PauseTypes'
    BY <1>5, <2>1 DEF PauseTypes, Select
  <2>6. RecTypes'
    BY <1>5, <2>1 DEF RecTypes, Select, FreshHooks, NoRec
  <2>. QED
    BY <1>0, <2>2, <2>3, <2>4, <2>5, <2>6
<1>6. ASSUME NEW p \in Process, Peek(p) PROVE Types'
  <2>1. UNCHANGED <<evidence, origin, tree, run, rec, history>>
    BY <1>6 DEF Peek
  <2>2. EvidenceTypes' /\ OriginTypes' /\ TreeTypes' /\ RunTypes' /\ RecTypes' /\ HistoryTypes'
    BY <1>0, <2>1, Frame
  <2>3. pc' \in [Process -> Place]
    BY <1>6 DEF Peek, Place, Selecting, Preparing, Working, Noting, Moving
  <2>4. DbTypes'
    BY <1>6, <2>1, SweepTyped DEF DbTypes, Peek, evidence, db
  <2>5. PauseTypes'
    BY <1>6, <2>1 DEF PauseTypes, Peek
  <2>. QED
    BY <1>0, <2>2, <2>3, <2>4, <2>5
<1>7. ASSUME NEW p \in Process, Claim(p) PROVE Types'
  <2>1. UNCHANGED <<origin, tree, err, aborted, heal, conn, rec>>
    BY <1>7 DEF Claim
  <2>2. PICK third \in SUBSET {t \in Task : lapsed[t]} :
          \/ \E t \in Task : Lease(p, t, third)
          \/ Sweep(third) /\ UNCHANGED <<evidence, cur, claims, ended, pauses, history>>
          \/ UNCHANGED <<db, evidence, cur, claims, ended, history>> /\ Pause(p, "manual") /\ UNCHANGED stuckMark
    BY <1>7 DEF Claim
  <2>3. pc' \in [Process -> Place]
    BY <1>7 DEF Claim, Place, Selecting, Preparing, Working, Noting, Moving
  <2>4. PauseTypes' /\ RecTypes'
    BY <1>7, <2>1, Frame DEF Claim, PauseTypes
  <2>5. CASE \E t \in Task : Lease(p, t, third)
    <3>. PICK t \in Task : Lease(p, t, third)
      BY <2>5
    <3>1. EvidenceTypes' /\ DbTypes'
      BY <1>0, LeaseTyped
    <3>2. DOMAIN attempts \subseteq DOMAIN attempts' /\ Len(attempts) + 1 \in DOMAIN attempts'
      BY LeaseAppends, Zenon
    <3>3. OriginTypes' /\ TreeTypes'
      BY <2>1, <3>2 DEF OriginTypes, TreeTypes
    <3>4. RunTypes'
      BY <1>7, <2>1, <3>2 DEF Claim, RunTypes
    <3>5. HistoryTypes'
      BY <1>7, <3>2 DEF Claim, HistoryTypes
    <3>. QED
      BY <1>0, <2>3, <2>4, <3>1, <3>3, <3>4, <3>5
  <2>6. CASE UNCHANGED <<evidence, cur, claims, ended, history>> /\ (Sweep(third) \/ UNCHANGED db)
    BY <1>0, <2>1, <2>3, <2>4, <2>6, SweepTyped, Frame
  <2>. QED
    BY <2>2, <2>5, <2>6
<1>8. ASSUME NEW p \in Process, Preflight(p) PROVE Types'
  <2>1. UNCHANGED <<db, evidence, origin, run, rec, history>>
    BY <1>8 DEF Preflight
  <2>2. DbTypes' /\ EvidenceTypes' /\ OriginTypes' /\ RunTypes' /\ RecTypes' /\ HistoryTypes'
    BY <1>0, <2>1, Frame
  <2>3. pc' \in [Process -> Place]
    BY <1>8 DEF Preflight, Place, Selecting, Preparing, Working, Noting, Moving
  <2>4. TreeTypes'
    BY <1>8, <2>1 DEF TreeTypes, Preflight, OriginTypes
  <2>5. PauseTypes'
    BY <1>8, <2>1 DEF PauseTypes, Preflight
  <2>. QED
    BY <1>0, <2>2, <2>3, <2>4, <2>5
<1>9. ASSUME NEW p \in Process, PrepareFollowup(p) PROVE Types'
  <2>1. UNCHANGED <<db, evidence, origin, run, heal, pauses, conn, rec, history>>
    BY <1>9 DEF PrepareFollowup
  <2>2. DbTypes' /\ EvidenceTypes' /\ OriginTypes' /\ RunTypes' /\ PauseTypes' /\ RecTypes' /\ HistoryTypes'
    BY <1>0, <2>1, Frame
  <2>3. cur[p] \in DOMAIN attempts /\ Mine(p) \in Task
    <3>1. pc[p] \in InRun
      BY <1>9 DEF PrepareFollowup, InRun, Preparing, Working, Noting, Moving
    <3>. QED
      BY <3>1, RunHasClaim
  <2>4. pc' \in [Process -> Place]
    BY <1>9 DEF PrepareFollowup, Place, Selecting, Preparing, Working, Noting, Moving
  <2>5. TreeTypes'
    <3>1. branches' \in [Process -> SUBSET Task]
      BY <1>9, <2>3 DEF PrepareFollowup, TreeTypes
    <3>2. UNCHANGED main /\ dirty' \in [Process -> BOOLEAN]
      BY <1>9 DEF PrepareFollowup, TreeTypes
    <3>. QED
      BY <2>1, <3>1, <3>2 DEF TreeTypes
  <2>. QED
    BY <1>0, <2>2, <2>4, <2>5
<1>10. ASSUME NEW p \in Process, Refuse(p) PROVE Types'
  <2>1. UNCHANGED <<evidence, origin, tree, rec>>
    BY <1>10 DEF Refuse
  <2>2. EvidenceTypes' /\ OriginTypes' /\ TreeTypes' /\ RecTypes'
    BY <1>0, <2>1, Frame
  <2>3. cur[p] \in DOMAIN attempts /\ Mine(p) \in Task
    <3>1. pc[p] \in InRun
      BY <1>10 DEF Refuse, InRun, Preparing, Working, Noting, Moving
    <3>. QED
      BY <3>1, RunHasClaim
  <2>4. pc' \in [Process -> Place]
    BY <1>10 DEF Refuse, Place, Selecting, Preparing, Working, Noting, Moving
  <2>5. DbTypes'
    BY <1>10, <2>1, <2>3, MakeTyped DEF DbTypes, Refuse, Release
  <2>6. RunTypes'
    BY <1>10, <2>1, <2>3 DEF RunTypes, Refuse
  <2>7. PauseTypes'
    BY <1>10, <2>1, <2>3 DEF PauseTypes, Refuse, Release
  <2>8. HistoryTypes'
    BY <1>10, <2>1, <2>3 DEF HistoryTypes, Refuse, Release
  <2>. QED
    BY <1>0, <2>2, <2>4, <2>5, <2>6, <2>7, <2>8
<1>11. ASSUME NEW p \in Process, PutBack(p) PROVE Types'
  <2>1. UNCHANGED <<origin, tree, rec, attempts>>
    BY <1>11 DEF PutBack
  <2>2. OriginTypes' /\ TreeTypes' /\ RecTypes'
    BY <1>0, <2>1, Frame
  <2>3. cur[p] \in DOMAIN attempts /\ Mine(p) \in Task
    <3>1. pc[p] \in InRun
      BY <1>11 DEF PutBack, InRun, Preparing, Working, Noting, Moving
    <3>. QED
      BY <3>1, RunHasClaim
  <2>4. pc' \in [Process -> Place]
    BY <1>11 DEF PutBack, Place, Selecting, Preparing, Working, Noting, Moving
  <2>5. DbTypes'
    BY <1>11, <2>1, <2>3, MakeTyped DEF DbTypes, PutBack
  <2>6. EvidenceTypes'
    BY <1>11, <2>1, <1>0, <2>3 DEF EvidenceTypes, PutBack
  <2>7. RunTypes'
    <3>1. claims' \in [Process -> SUBSET (DOMAIN attempts)] /\ ended' \in [Process -> SUBSET Task]
      BY <1>11 DEF RunTypes, PutBack
    <3>2. /\ cur' \in [Process -> DOMAIN attempts \cup {None}]
          /\ err' \in [Process -> {"no", "lost", "other"}] /\ aborted' \in [Process -> BOOLEAN]
      BY <1>11 DEF RunTypes, PutBack
    <3>. QED
      BY <2>1, <3>1, <3>2 DEF RunTypes
  <2>8. PauseTypes'
    BY <1>11, <2>1, <2>3 DEF PauseTypes, PutBack
  <2>9. HistoryTypes'
    BY <1>11, <2>1, <2>3 DEF HistoryTypes, PutBack
  <2>. QED
    BY <1>0, <2>2, <2>4, <2>5, <2>6, <2>7, <2>8, <2>9
<1>12. ASSUME NEW p \in Process, CreateBranch(p) PROVE Types'
  <2>1. UNCHANGED <<db, evidence, origin, run, heal, pauses, conn, rec, history>>
    BY <1>12 DEF CreateBranch
  <2>2. DbTypes' /\ EvidenceTypes' /\ OriginTypes' /\ RunTypes' /\ PauseTypes' /\ RecTypes' /\ HistoryTypes'
    BY <1>0, <2>1, Frame
  <2>3. cur[p] \in DOMAIN attempts /\ Mine(p) \in Task
    <3>1. pc[p] \in InRun
      BY <1>12 DEF CreateBranch, InRun, Preparing, Working, Noting, Moving
    <3>. QED
      BY <3>1, RunHasClaim
  <2>4. pc' \in [Process -> Place]
    BY <1>12 DEF CreateBranch, Place, Selecting, Preparing, Working, Noting, Moving
  <2>5. TreeTypes'
    BY <1>12, <2>1, <2>3 DEF TreeTypes, CreateBranch, OriginTypes
  <2>. QED
    BY <1>0, <2>2, <2>4, <2>5
<1>13. ASSUME NEW p \in Process, Agents(p) PROVE Types'
  <2>1. UNCHANGED <<db, evidence, origin, run, heal, pauses, conn, rec, history>>
    BY <1>13 DEF Agents
  <2>2. DbTypes' /\ EvidenceTypes' /\ OriginTypes' /\ RunTypes' /\ PauseTypes' /\ RecTypes' /\ HistoryTypes'
    BY <1>0, <2>1, Frame
  <2>3. pc' \in [Process -> Place]
    BY <1>13 DEF Agents, Place, Selecting, Preparing, Working, Noting, Moving
  <2>4. TreeTypes'
    BY <1>13, <2>1 DEF TreeTypes, Agents
  <2>. QED
    BY <1>0, <2>2, <2>3, <2>4
<1>14. ASSUME NEW p \in Process, Followup(p) PROVE Types'
  <2>1. UNCHANGED <<db, evidence, run, heal, pauses, conn, rec, history>>
    BY <1>14 DEF Followup
  <2>2. DbTypes' /\ EvidenceTypes' /\ RunTypes' /\ PauseTypes' /\ RecTypes' /\ HistoryTypes'
    BY <1>0, <2>1, Frame
  <2>3. pc' \in [Process -> Place]
    BY <1>14 DEF Followup, Place, Selecting, Preparing, Working, Noting, Moving
  <2>4. OriginTypes'
    BY <1>14, <2>1 DEF OriginTypes, Followup
  <2>5. TreeTypes'
    BY <1>14, <2>1 DEF TreeTypes, Followup
  <2>. QED
    BY <1>0, <2>2, <2>3, <2>4, <2>5
<1>15. ASSUME NEW p \in Process, CheckLease(p) PROVE Types'
  <2>1. UNCHANGED <<evidence, origin, tree, run, heal, pauses, conn, rec>>
    BY <1>15 DEF CheckLease
  <2>2. EvidenceTypes' /\ OriginTypes' /\ TreeTypes' /\ RunTypes' /\ PauseTypes' /\ RecTypes'
    BY <1>0, <2>1, Frame
  <2>3. cur[p] \in DOMAIN attempts /\ Mine(p) \in Task
    <3>1. pc[p] \in InRun
      BY <1>15 DEF CheckLease, InRun, Preparing, Working, Noting, Moving
    <3>. QED
      BY <3>1, RunHasClaim
  <2>4. pc' \in [Process -> Place]
    BY <1>15 DEF CheckLease, Place, Selecting, Preparing, Working, Noting, Moving
  <2>5. DbTypes'
    BY <1>15, <2>1, <2>3 DEF DbTypes, CheckLease
  <2>6. HistoryTypes'
    BY <1>15, <2>1, <2>3 DEF HistoryTypes, CheckLease
  <2>. QED
    BY <1>0, <2>2, <2>4, <2>5, <2>6
<1>16. ASSUME NEW p \in Process, Merge(p) PROVE Types'
  <2>1. UNCHANGED <<db, evidence, run, heal, pauses, conn, rec>>
    BY <1>16 DEF Merge
  <2>2. DbTypes' /\ EvidenceTypes' /\ RunTypes' /\ PauseTypes' /\ RecTypes'
    BY <1>0, <2>1, Frame
  <2>3. cur[p] \in DOMAIN attempts /\ Mine(p) \in Task
    <3>1. pc[p] \in InRun
      BY <1>16 DEF Merge, InRun, Preparing, Working, Noting, Moving
    <3>. QED
      BY <3>1, RunHasClaim
  <2>4. pc' \in [Process -> Place]
    BY <1>16 DEF Merge, Place, Selecting, Preparing, Working, Noting, Moving
  <2>5. OriginTypes'
    BY <1>16, <2>1, <2>3 DEF OriginTypes, Merge, TreeTypes
  <2>6. TreeTypes'
    <3>1. main' \in [Process -> SUBSET (DOMAIN attempts)]
      BY <1>16, <2>3 DEF Merge, TreeTypes
    <3>2. UNCHANGED branches /\ dirty' \in [Process -> BOOLEAN]
      BY <1>16 DEF Merge, TreeTypes
    <3>. QED
      BY <2>1, <3>1, <3>2 DEF TreeTypes
  <2>7. HistoryTypes'
    BY <1>16, <2>1, <2>3 DEF HistoryTypes, Merge, Reason
  <2>. QED
    BY <1>0, <2>2, <2>4, <2>5, <2>6, <2>7
<1>17. ASSUME NEW p \in Process, OpenPr(p) PROVE Types'
  <2>1. UNCHANGED <<db, evidence, tree, run, heal, pauses, conn, rec, history>>
    BY <1>17 DEF OpenPr
  <2>2. DbTypes' /\ EvidenceTypes' /\ TreeTypes' /\ RunTypes' /\ PauseTypes' /\ RecTypes' /\ HistoryTypes'
    BY <1>0, <2>1, Frame
  <2>3. cur[p] \in DOMAIN attempts /\ Mine(p) \in Task
    <3>1. pc[p] \in InRun
      BY <1>17 DEF OpenPr, InRun, Preparing, Working, Noting, Moving
    <3>. QED
      BY <3>1, RunHasClaim
  <2>4. pc' \in [Process -> Place]
    BY <1>17 DEF OpenPr, Place, Selecting, Preparing, Working, Noting, Moving
  <2>5. OriginTypes'
    BY <1>17, <2>1, <2>3 DEF OriginTypes, OpenPr
  <2>. QED
    BY <1>0, <2>2, <2>4, <2>5
<1>18. ASSUME NEW p \in Process, Note(p) PROVE Types'
  <2>1. UNCHANGED <<db, origin, tree, run, heal, pauses, conn, rec, attempts>>
    BY <1>18 DEF Note
  <2>2. DbTypes' /\ OriginTypes' /\ TreeTypes' /\ RunTypes' /\ PauseTypes' /\ RecTypes'
    BY <1>0, <2>1, Frame
  <2>3. cur[p] \in DOMAIN attempts /\ Mine(p) \in Task
    <3>1. pc[p] \in InRun
      BY <1>18 DEF Note, InRun, Preparing, Working, Noting, Moving
    <3>. QED
      BY <3>1, RunHasClaim
  <2>4. pc' \in [Process -> Place]
    BY <1>18 DEF Note, AfterNote, NoteFailed, Place, Selecting, Preparing, Working, Noting, Moving
  <2>5. EvidenceTypes'
    BY <1>18, <2>1, <1>0, <2>3 DEF EvidenceTypes, Note
  <2>6. HistoryTypes'
    BY <1>18, <2>1, <2>3 DEF HistoryTypes, Note, Reason
  <2>. QED
    BY <1>0, <2>2, <2>4, <2>5, <2>6
<1>19. ASSUME NEW p \in Process, MoveOn(p) PROVE Types'
  <2>1. UNCHANGED <<evidence, origin, rec>>
    BY <1>19 DEF MoveOn
  <2>2. EvidenceTypes' /\ OriginTypes' /\ RecTypes'
    BY <1>0, <2>1, Frame
  <2>3. cur[p] \in DOMAIN attempts /\ Mine(p) \in Task
    <3>1. pc[p] \in InRun
      BY <1>19 DEF MoveOn, InRun, Preparing, Working, Noting, Moving
    <3>. QED
      BY <3>1, RunHasClaim
  <2>4. pc' \in [Process -> Place]
    BY <1>19 DEF MoveOn, AfterMove, MoveFailed, Place, Selecting, Preparing, Working, Noting, Moving
  <2>5. DbTypes'
    BY <1>19, <2>1, <2>3, MakeTyped DEF DbTypes, MoveOn, Moved, Refused, Unreachable, MoveOf
  <2>6. TreeTypes'
    BY <1>19, <2>1, <2>3 DEF TreeTypes, MoveOn, CleanupBranch
  <2>7. RunTypes'
    BY <1>19, <2>1, <2>3 DEF RunTypes, MoveOn, Moved, Refused, Unreachable
  <2>8. PauseTypes'
    BY <1>19, <2>1, <2>3 DEF PauseTypes, MoveOn
  <2>9. HistoryTypes'
    BY <1>19, <2>1, <2>3 DEF HistoryTypes, MoveOn, Moved, Refused, Unreachable, Reason
  <2>. QED
    BY <1>0, <2>2, <2>4, <2>5, <2>6, <2>7, <2>8, <2>9
<1>20. ASSUME NEW p \in Process, Cleanup(p) PROVE Types'
  <2>1. UNCHANGED <<db, evidence, origin, run, heal, pauses, conn, rec, history>>
    BY <1>20 DEF Cleanup
  <2>2. DbTypes' /\ EvidenceTypes' /\ OriginTypes' /\ RunTypes' /\ PauseTypes' /\ RecTypes' /\ HistoryTypes'
    BY <1>0, <2>1, Frame
  <2>3. pc' \in [Process -> Place]
    BY <1>20 DEF Cleanup, Place, Selecting, Preparing, Working, Noting, Moving
  <2>4. TreeTypes'
    BY <1>20, <2>1 DEF TreeTypes, Cleanup
  <2>. QED
    BY <1>0, <2>2, <2>3, <2>4
<1>21. ASSUME NEW p \in Process, CycleError(p) PROVE Types'
  <2>1. UNCHANGED <<db, evidence, origin, run, rec, history>>
    BY <1>21 DEF CycleError
  <2>2. DbTypes' /\ EvidenceTypes' /\ OriginTypes' /\ RunTypes' /\ RecTypes' /\ HistoryTypes'
    BY <1>0, <2>1, Frame
  <2>3. pc' \in [Process -> Place]
    BY <1>21 DEF CycleError, Place, Selecting, Preparing, Working, Noting, Moving
  <2>4. TreeTypes'
    BY <1>21, <2>1 DEF TreeTypes, CycleError, CleanupBranch
  <2>5. PauseTypes'
    BY <1>21, <2>1 DEF PauseTypes, CycleError
  <2>. QED
    BY <1>0, <2>2, <2>3, <2>4, <2>5
<1>22. ASSUME NEW p \in Process, EndRun(p) PROVE Types'
  <2>1. UNCHANGED <<evidence, origin, tree, rec>>
    BY <1>22 DEF EndRun
  <2>2. EvidenceTypes' /\ OriginTypes' /\ TreeTypes' /\ RecTypes'
    BY <1>0, <2>1, Frame
  <2>3. cur[p] \in DOMAIN attempts /\ Mine(p) \in Task
    <3>1. pc[p] \in InRun
      BY <1>22 DEF EndRun, InRun, Preparing, Working, Noting, Moving
    <3>. QED
      BY <3>1, RunHasClaim
  <2>4. pc' \in [Process -> Place]
    BY <1>22 DEF EndRun, Place, Selecting, Preparing, Working, Noting, Moving
  <2>5. DbTypes'
    BY <1>22, <2>1, <2>3, MakeTyped DEF DbTypes, EndRun, Release
  <2>6. RunTypes'
    BY <1>22, <2>1, <2>3 DEF RunTypes, EndRun
  <2>7. PauseTypes'
    BY <1>22, <2>1, <2>3 DEF PauseTypes, EndRun, Release
  <2>8. HistoryTypes'
    BY <1>22, <2>1, <2>3 DEF HistoryTypes, EndRun, Release
  <2>. QED
    BY <1>0, <2>2, <2>4, <2>5, <2>6, <2>7, <2>8
<1>23. ASSUME NEW p \in Process, Heartbeat(p) PROVE Types'
  <2>1. UNCHANGED <<evidence, origin, tree, heal, pauses, conn, rec, history>>
    BY <1>23 DEF Heartbeat
  <2>2. EvidenceTypes' /\ OriginTypes' /\ TreeTypes' /\ PauseTypes' /\ RecTypes' /\ HistoryTypes'
    BY <1>0, <2>1, Frame
  <2>3. cur[p] \in DOMAIN attempts /\ Mine(p) \in Task
    <3>1. pc[p] \in InRun
      BY <1>23 DEF Heartbeat, InRun, Preparing, Working, Noting, Moving
    <3>. QED
      BY <3>1, RunHasClaim
  <2>4. pc' \in [Process -> Place]
    BY <1>23 DEF Heartbeat
  <2>5. DbTypes'
    BY <1>23, <2>1, <2>3 DEF DbTypes, Heartbeat
  <2>6. RunTypes'
    BY <1>23, <2>1, <2>3 DEF RunTypes, Heartbeat
  <2>. QED
    BY <1>0, <2>2, <2>4, <2>5, <2>6
<1>24. ASSUME NEW p \in Process, RecStart(p) PROVE Types'
  <2>1. UNCHANGED <<db, evidence, origin, tree, run, heal, pauses, conn, history>>
    BY <1>24 DEF RecStart
  <2>2. DbTypes' /\ EvidenceTypes' /\ OriginTypes' /\ TreeTypes' /\ RunTypes' /\ PauseTypes' /\ HistoryTypes'
    BY <1>0, <2>1, Frame
  <2>3. pc' \in [Process -> Place]
    BY <1>24 DEF RecStart
  <2>4. RecTypes'
    BY <1>24, <2>1 DEF RecTypes, RecStart
  <2>. QED
    BY <1>0, <2>2, <2>3, <2>4
<1>25. ASSUME NEW p \in Process, RecView(p) PROVE Types'
  <2>1. UNCHANGED <<db, evidence, origin, tree, run, heal, pauses, conn, history>>
    BY <1>25 DEF RecView
  <2>2. DbTypes' /\ EvidenceTypes' /\ OriginTypes' /\ TreeTypes' /\ RunTypes' /\ PauseTypes' /\ HistoryTypes'
    BY <1>0, <2>1, Frame
  <2>3. pc' \in [Process -> Place]
    BY <1>25 DEF RecView
  <2>4. RecTypes'
    BY <1>25, <2>1 DEF RecTypes, RecView, OriginTypes
  <2>. QED
    BY <1>0, <2>2, <2>3, <2>4
<1>26. ASSUME NEW p \in Process, RecAct(p) PROVE Types'
  <2>1. UNCHANGED <<attempts, prNoted, origin, main, dirty, pc, cur, claims, err, aborted, heal, pauses,
                    conn, history>>
    BY <1>26 DEF RecAct
  <2>2. OriginTypes' /\ PauseTypes' /\ HistoryTypes'
    BY <2>1, Frame
  <2>3. rec[p].task \in Task /\ RecTypes'
    BY <1>26 DEF RecAct, RecTypes, NoRec
  <2>. DEFINE t == rec[p].task
  <2>4. ASSUME NEW m \in {"finish", "flag", "followUp"}, RecMove(p, m, t)
        PROVE  DbTypes' /\ ended' \in [Process -> SUBSET Task]
    BY <2>1, <2>3, <2>4, MakeTyped DEF RecMove, RunTypes
  <2>5. DbTypes' /\ ended' \in [Process -> SUBSET Task]
    BY <1>26, <2>1, <2>4, Frame DEF RecAct, RecMerged, RecDeclined, RecOpen, RecGivesUp, RunTypes
  <2>6. branches' \in [Process -> SUBSET Task]
    BY <1>26 DEF RecAct, RecMerged, RecDeclined, RecOpen, TreeTypes
  <2>7. rec[p].saw = "merged" => CurrentAttempt(p, t) \subseteq DOMAIN attempts
    <3>. SUFFICES ASSUME rec[p].saw = "merged" PROVE CurrentAttempt(p, t) \subseteq DOMAIN attempts
      OBVIOUS
    <3>1. AttemptsAt(t) # {}
      BY <2>3 DEF WitnessesTrue, SeenTrue, OnMain, AttemptsAt, OriginTypes
    <3>2. Max(AttemptsAt(t)) \in DOMAIN attempts
      BY <2>3, <3>1, NewestAttempt DEF AttemptsAt
    <3>. QED
      BY <3>2 DEF CurrentAttempt, ClaimFor, RunTypes
  <2>8. landNoted' \subseteq DOMAIN attempts
    BY <1>26, <2>7 DEF RecAct, RecMerged, RecDeclined, RecOpen, EvidenceTypes
  <2>. QED
    BY <1>0, <2>1, <2>2, <2>3, <2>5, <2>6, <2>8 DEF EvidenceTypes, TreeTypes, RunTypes
<1>27. ASSUME NEW p \in Process, Watchdog(p) PROVE Types'
  <2>1. UNCHANGED <<db, evidence, origin, tree, run, rec, history>>
    BY <1>27 DEF Watchdog
  <2>2. DbTypes' /\ EvidenceTypes' /\ OriginTypes' /\ TreeTypes' /\ RunTypes' /\ RecTypes' /\ HistoryTypes'
    BY <1>0, <2>1, Frame
  <2>3. pc' \in [Process -> Place]
    BY <1>27 DEF Watchdog
  <2>4. PauseTypes'
    BY <1>27, <2>1 DEF PauseTypes, Watchdog
  <2>. QED
    BY <1>0, <2>2, <2>3, <2>4
<1>28. ASSUME NEW p \in Process, UserPause(p) PROVE Types'
  <2>1. UNCHANGED <<db, evidence, origin, tree, run, rec, history>>
    BY <1>28 DEF UserPause
  <2>2. DbTypes' /\ EvidenceTypes' /\ OriginTypes' /\ TreeTypes' /\ RunTypes' /\ RecTypes' /\ HistoryTypes'
    BY <1>0, <2>1, Frame
  <2>3. pc' \in [Process -> Place]
    BY <1>28 DEF UserPause
  <2>4. PauseTypes'
    BY <1>28, <2>1 DEF PauseTypes, UserPause
  <2>. QED
    BY <1>0, <2>2, <2>3, <2>4
<1>29. ASSUME NEW p \in Process, Resume(p) PROVE Types'
  <2>1. UNCHANGED <<db, evidence, origin, tree, run, rec, history>>
    BY <1>29 DEF Resume
  <2>2. DbTypes' /\ EvidenceTypes' /\ OriginTypes' /\ TreeTypes' /\ RunTypes' /\ RecTypes' /\ HistoryTypes'
    BY <1>0, <2>1, Frame
  <2>3. pc' \in [Process -> Place]
    BY <1>29 DEF Resume
  <2>4. PauseTypes'
    BY <1>29, <2>1 DEF PauseTypes, Resume
  <2>. QED
    BY <1>0, <2>2, <2>3, <2>4
<1>30. ASSUME NEW p \in Process, ResumeWatch(p) PROVE Types'
  <2>1. UNCHANGED <<db, evidence, origin, tree, rec, history>>
    BY <1>30 DEF ResumeWatch
  <2>2. DbTypes' /\ EvidenceTypes' /\ OriginTypes' /\ TreeTypes' /\ RecTypes' /\ HistoryTypes'
    BY <1>0, <2>1, Frame
  <2>3. pc' \in [Process -> Place]
    BY <1>30 DEF ResumeWatch
  <2>4. RunTypes'
    BY <1>30, <2>1 DEF RunTypes, ResumeWatch
  <2>5. PauseTypes'
    BY <1>30, <2>1 DEF PauseTypes, ResumeWatch
  <2>. QED
    BY <1>0, <2>2, <2>3, <2>4, <2>5
<1>31. ASSUME NEW p \in Process, ResetTree(p) PROVE Types'
  <2>1. UNCHANGED <<db, evidence, origin, run, rec, history>>
    BY <1>31 DEF ResetTree
  <2>2. DbTypes' /\ EvidenceTypes' /\ OriginTypes' /\ RunTypes' /\ RecTypes' /\ HistoryTypes'
    BY <1>0, <2>1, Frame
  <2>3. pc' \in [Process -> Place]
    BY <1>31 DEF ResetTree
  <2>4. TreeTypes'
    BY <1>31, <2>1 DEF TreeTypes, ResetTree
  <2>5. PauseTypes'
    BY <1>31, <2>1 DEF PauseTypes, ResetTree
  <2>. QED
    BY <1>0, <2>2, <2>3, <2>4, <2>5
<1>32. ASSUME NEW t \in Task, LeaseLapses(t) PROVE Types'
  <2>1. UNCHANGED <<evidence, origin, tree, run, heal, pauses, conn, rec>>
    BY <1>32 DEF LeaseLapses
  <2>2. EvidenceTypes' /\ OriginTypes' /\ TreeTypes' /\ RunTypes' /\ PauseTypes' /\ RecTypes'
    BY <1>0, <2>1, Frame
  <2>3. pc' \in [Process -> Place]
    BY <1>32 DEF LeaseLapses
  <2>4. DbTypes'
    BY <1>32, <2>1 DEF DbTypes, LeaseLapses
  <2>5. HistoryTypes'
    BY <1>32, <2>1 DEF HistoryTypes, LeaseLapses, DbTypes, Reason
  <2>. QED
    BY <1>0, <2>2, <2>3, <2>4, <2>5
<1>33. ASSUME NEW t \in Task, PrMerges(t) PROVE Types'
  <2>1. UNCHANGED <<db, evidence, tree, run, heal, pauses, conn, rec, history>>
    BY <1>33 DEF PrMerges
  <2>2. DbTypes' /\ EvidenceTypes' /\ TreeTypes' /\ RunTypes' /\ PauseTypes' /\ RecTypes' /\ HistoryTypes'
    BY <1>0, <2>1, Frame
  <2>3. pc' \in [Process -> Place]
    BY <1>33 DEF PrMerges
  <2>4. OriginTypes'
    BY <1>33, <2>1 DEF OriginTypes, PrMerges, WitnessesTrue, PrsTrue
  <2>. QED
    BY <1>0, <2>2, <2>3, <2>4
<1>34. ASSUME NEW t \in Task, PrCloses(t) PROVE Types'
  <2>1. UNCHANGED <<db, evidence, tree, run, heal, pauses, conn, rec, history>>
    BY <1>34 DEF PrCloses
  <2>2. DbTypes' /\ EvidenceTypes' /\ TreeTypes' /\ RunTypes' /\ PauseTypes' /\ RecTypes' /\ HistoryTypes'
    BY <1>0, <2>1, Frame
  <2>3. pc' \in [Process -> Place]
    BY <1>34 DEF PrCloses
  <2>4. OriginTypes'
    BY <1>34, <2>1 DEF OriginTypes, PrCloses
  <2>. QED
    BY <1>0, <2>2, <2>3, <2>4
<1>35. ASSUME NEW t \in Task, ReviewerAsks(t) PROVE Types'
  <2>1. UNCHANGED <<db, evidence, tree, run, heal, pauses, conn, rec, history>>
    BY <1>35 DEF ReviewerAsks
  <2>2. DbTypes' /\ EvidenceTypes' /\ TreeTypes' /\ RunTypes' /\ PauseTypes' /\ RecTypes' /\ HistoryTypes'
    BY <1>0, <2>1, Frame
  <2>3. pc' \in [Process -> Place]
    BY <1>35 DEF ReviewerAsks
  <2>4. OriginTypes'
    BY <1>35, <2>1 DEF OriginTypes, ReviewerAsks
  <2>. QED
    BY <1>0, <2>2, <2>3, <2>4
<1>36. ASSUME NEW t \in Task, Unblock(t) PROVE Types'
  <2>1. UNCHANGED <<evidence, origin, tree, run, heal, pauses, conn, rec>>
    BY <1>36 DEF Unblock
  <2>2. EvidenceTypes' /\ OriginTypes' /\ TreeTypes' /\ RunTypes' /\ PauseTypes' /\ RecTypes'
    BY <1>0, <2>1, Frame
  <2>3. pc' \in [Process -> Place]
    BY <1>36 DEF Unblock
  <2>4. DbTypes'
    BY <1>36, <2>1, MoveTyped DEF DbTypes, Unblock
  <2>5. HistoryTypes'
    BY <1>36, <2>1 DEF HistoryTypes, Unblock, AttemptsAt, Reason
  <2>. QED
    BY <1>0, <2>2, <2>3, <2>4, <2>5
<1>37. ASSUME NEW t \in Task, Confirm(t) PROVE Types'
  <2>1. UNCHANGED <<evidence, origin, tree, run, heal, pauses, conn, rec, history>>
    BY <1>37 DEF Confirm
  <2>2. EvidenceTypes' /\ OriginTypes' /\ TreeTypes' /\ RunTypes' /\ PauseTypes' /\ RecTypes' /\ HistoryTypes'
    BY <1>0, <2>1, Frame
  <2>3. pc' \in [Process -> Place]
    BY <1>37 DEF Confirm
  <2>4. DbTypes'
    BY <1>37, <2>1, MoveTyped DEF DbTypes, Confirm
  <2>. QED
    BY <1>0, <2>2, <2>3, <2>4
<1>38. ASSUME SweepElsewhere PROVE Types'
  <2>1. UNCHANGED <<evidence, origin, tree, pc, run, heal, pauses, conn, rec, history>>
    BY <1>38 DEF SweepElsewhere
  <2>2. EvidenceTypes' /\ OriginTypes' /\ TreeTypes' /\ RunTypes' /\ PauseTypes' /\ RecTypes' /\ HistoryTypes'
    BY <1>0, <2>1, Frame
  <2>3. DbTypes'
    BY <1>38, <2>1, SweepTyped DEF SweepElsewhere
  <2>. QED
    BY <1>0, <2>1, <2>2, <2>3
<1>. QED
  BY <1>1, <1>2, <1>3, <1>4, <1>5, <1>6, <1>7, <1>8, <1>9, <1>10, <1>11, <1>12, <1>13, <1>14, <1>15, <1>16,
    <1>17, <1>18, <1>19, <1>20, <1>21, <1>22, <1>23, <1>24, <1>25,
    <1>26, <1>27, <1>28, <1>29, <1>30, <1>31, <1>32, <1>33, <1>34, <1>35, <1>36, <1>37, <1>38
  DEF Next, ProcessStep, CycleStep, TaskStep

\* How a step changes the rows: not at all, by a move, by the time of a lease, by a sweep, or
\* by a claim.
LEMMA RowSteps ==
  ASSUME Types, RunsOwn, Next
  PROVE  \/ UNCHANGED <<db, attempts>>
         \/ /\ \E t \in Task, s \in {"open", "waiting", "blocked", "done"} : \E b : MoveTask(t, s, b)
            /\ UNCHANGED attempts
         \/ /\ \E t \in Task, b \in BOOLEAN : lapsed' = [lapsed EXCEPT ![t] = b] /\ (b => lease[t] # None)
            /\ UNCHANGED <<state, boosted, lease, attempts>>
         \/ (\E third : Sweep(third)) /\ UNCHANGED attempts
         \/ \E p \in Process, t \in Task : \E third : Lease(p, t, third)
<1>. DEFINE Moves == /\ \E t \in Task, s \in {"open", "waiting", "blocked", "done"} : \E b : MoveTask(t, s, b)
                     /\ UNCHANGED attempts
            Same == UNCHANGED <<db, attempts>>
            Timed == (\E t \in Task, b \in BOOLEAN : lapsed' = [lapsed EXCEPT ![t] = b] /\ (b => lease[t] # None))
                       /\ UNCHANGED <<state, boosted, lease, attempts>>
            Sweeps == (\E third : Sweep(third)) /\ UNCHANGED attempts
            Claims == \E p \in Process, t \in Task : \E third : Lease(p, t, third)
            Goal == Same \/ Moves \/ Timed \/ Sweeps \/ Claims
<1>0. ASSUME NEW t \in Task, NEW m \in {"finish", "submit", "flag", "release", "followUp"}, Make(m, t),
             UNCHANGED attempts
      PROVE  Moves
  <2>1. ToState[m] \in {"open", "waiting", "blocked", "done"}
    BY DEF ToState
  <2>. QED
    BY <1>0, <2>1
<1>1. ASSUME NEW p \in Process,
               \/ Start(p) \/ Crash(p) \/ LockLost(p) \/ StartCycle(p) \/ Select(p) \/ Preflight(p)
               \/ PrepareFollowup(p) \/ CreateBranch(p)
               \/ Agents(p) \/ Followup(p) \/ Merge(p) \/ OpenPr(p) \/ Note(p) \/ Cleanup(p) \/ CycleError(p) \/ RecStart(p)
               \/ RecView(p) \/ Watchdog(p) \/ UserPause(p) \/ Resume(p) \/ ResumeWatch(p) \/ ResetTree(p)
      PROVE  Same
  BY <1>1 DEF Start, Crash, LockLost, StartCycle, Select, Preflight, PrepareFollowup, CreateBranch, Agents,
    Followup, Merge, OpenPr, Note, Cleanup, CycleError, RecStart, RecView, Watchdog, UserPause, Resume,
    ResumeWatch, ResetTree
<1>2. ASSUME NEW t \in Task, PrMerges(t) \/ PrCloses(t) \/ ReviewerAsks(t) PROVE Same
  BY <1>2 DEF PrMerges, PrCloses, ReviewerAsks
<1>3. ASSUME NEW p \in Process, Peek(p) PROVE Sweeps \/ Same
  BY <1>3 DEF Peek
<1>4. ASSUME NEW p \in Process, Claim(p) PROVE Claims \/ Sweeps \/ Same
  BY <1>4 DEF Claim
<1>5. ASSUME NEW p \in Process, Refuse(p) \/ PutBack(p) \/ EndRun(p) PROVE Moves \/ Same
  <2>1. Mine(p) \in Task
    BY <1>5, RunHasClaim DEF Refuse, PutBack, EndRun, InRun, Preparing, Working
  <2>2. /\ UNCHANGED attempts
        /\ UNCHANGED db \/ Make("release", Mine(p)) \/ Make("submit", Mine(p))
    BY <1>5 DEF Refuse, PutBack, EndRun, Release
  <2>. HIDE DEF Moves
  <2>. QED
    BY <1>0, <2>1, <2>2
<1>6. ASSUME NEW p \in Process, CheckLease(p) \/ Heartbeat(p) PROVE Timed \/ Same
  <2>1. Mine(p) \in Task
    BY <1>6, RunHasClaim DEF CheckLease, Heartbeat, InRun, Working
  <2>. QED
    BY <1>6, <2>1 DEF CheckLease, Heartbeat
<1>7. ASSUME NEW p \in Process, MoveOn(p) PROVE Moves \/ Same
  <2>1. Mine(p) \in Task
    BY <1>7, RunHasClaim DEF MoveOn, InRun, Working
  <2>2. UNCHANGED attempts /\ (UNCHANGED db \/ Make(MoveOf(pc[p]), Mine(p)))
    BY <1>7 DEF MoveOn, Moved, Refused, Unreachable
  <2>3. MoveOf(pc[p]) \in {"finish", "submit", "flag"}
    BY DEF MoveOf
  <2>. HIDE DEF Moves
  <2>. QED
    BY <1>0, <2>1, <2>2, <2>3
<1>8. ASSUME NEW p \in Process, RecAct(p) PROVE Moves \/ Same
  <2>1. rec[p].task \in Task /\ UNCHANGED attempts
    BY <1>8 DEF RecAct, Types, RecTypes
  <2>2. \/ UNCHANGED db
        \/ \E m \in {"finish", "flag", "followUp"} : Make(m, rec[p].task)
    BY <1>8 DEF RecAct, RecMerged, RecDeclined, RecOpen, RecMove, RecGivesUp
  <2>. HIDE DEF Moves
  <2>. QED
    BY <1>0, <2>1, <2>2
<1>9. ASSUME NEW t \in Task, LeaseLapses(t) PROVE Timed
  BY <1>9 DEF LeaseLapses
<1>10. ASSUME NEW t \in Task, Unblock(t) \/ Confirm(t) PROVE Moves
  BY <1>10 DEF Unblock, Confirm
<1>11. ASSUME SweepElsewhere PROVE Sweeps
  BY <1>11 DEF SweepElsewhere
<1>. HIDE DEF Same, Moves, Timed, Sweeps, Claims
<1>12. Goal
  BY <1>1, <1>2, <1>3, <1>4, <1>5, <1>6, <1>7, <1>8, <1>9, <1>10, <1>11 DEF Next, ProcessStep, CycleStep,
    TaskStep
<1>. QED
  BY <1>12 DEF Same, Moves, Timed, Sweeps, Claims

LEMMA LeasesMatchNext ==
  ASSUME Types, LeasesMatch, RunsOwn, Next PROVE LeasesMatch'
<1>. USE DEF Types, DbTypes, LeasesMatch
<1>1. CASE UNCHANGED <<db, attempts>>
  BY <1>1
<1>2. ASSUME NEW t \in Task, NEW s \in {"open", "waiting", "blocked", "done"}, NEW b, MoveTask(t, s, b),
             UNCHANGED attempts
      PROVE  LeasesMatch'
  BY <1>2
<1>3. ASSUME NEW t \in Task, NEW b \in BOOLEAN, lapsed' = [lapsed EXCEPT ![t] = b], b => lease[t] # None,
             UNCHANGED <<state, boosted, lease, attempts>>
      PROVE  LeasesMatch'
  BY <1>3
<1>4. ASSUME NEW third, Sweep(third), UNCHANGED attempts PROVE LeasesMatch'
  BY <1>4 DEF Swept, Unlapsed
<1>5. ASSUME NEW p \in Process, NEW t \in Task, NEW third, Lease(p, t, third) PROVE LeasesMatch'
  <2>1. /\ \A a \in DOMAIN attempts : attempts'[a] = attempts[a]
        /\ attempts'[Len(attempts) + 1] = [task |-> t, by |-> p]
    BY <1>5, LeaseAppends, Zenon
  <2>. QED
    BY <1>5, <2>1 DEF Lease, Swept, Unlapsed
<1>. QED
  BY <1>1, <1>2, <1>3, <1>4, <1>5, RowSteps

LEMMA RunsOwnNext ==
  ASSUME Types, RunsOwn, Next PROVE RunsOwn'
<1>. USE DEF RunsOwn, InRun, Preparing, Working, Noting, Moving
<1>0. /\ pc \in [Process -> Place] /\ cur \in [Process -> DOMAIN attempts \cup {None}]
      /\ DOMAIN err = Process /\ DOMAIN aborted = Process /\ DOMAIN healing = Process
      /\ aborted \in [Process -> BOOLEAN] /\ healing \in [Process -> BOOLEAN] /\ None \notin DOMAIN attempts
  BY WorkerAssumption DEF Types, RunTypes, PauseTypes, EvidenceTypes
<1>1. ASSUME NEW p \in Process, LockLost(p) \/ Watchdog(p) \/ UserPause(p) \/ Resume(p) \/ RecStart(p) \/ RecView(p)
             \/ RecAct(p)
      PROVE  RunsOwn'
  BY <1>1 DEF LockLost, Watchdog, UserPause, Resume, RecStart, RecView, RecAct
<1>2. ASSUME NEW t \in Task, TaskStep(t) PROVE RunsOwn'
  BY <1>2 DEF TaskStep, LeaseLapses, PrMerges, PrCloses, ReviewerAsks, Unblock, Confirm
<1>3. ASSUME SweepElsewhere PROVE RunsOwn'
  BY <1>3 DEF SweepElsewhere
<1>4. ASSUME NEW p \in Process, Start(p) PROVE RunsOwn'
  BY <1>0, <1>4 DEF Start
<1>5. ASSUME NEW p \in Process, Crash(p) PROVE RunsOwn'
  BY <1>0, <1>5 DEF Crash
<1>6. ASSUME NEW p \in Process, StartCycle(p) PROVE RunsOwn'
  BY <1>0, <1>6 DEF StartCycle
<1>7. ASSUME NEW p \in Process, Select(p) PROVE RunsOwn'
  <2>1. /\ pc[p] = "select" /\ UNCHANGED <<attempts, cur, err, aborted, healing>>
        /\ Goto(p, "idle") \/ (Goto(p, "peek") /\ ~healing[p])
    BY <1>7 DEF Select, FreshHooks, MaySelect
  <2>. QED
    BY <1>0, <2>1
<1>8. ASSUME NEW p \in Process, Peek(p) PROVE RunsOwn'
  BY <1>0, <1>8 DEF Peek
<1>9. ASSUME NEW p \in Process, Claim(p) PROVE RunsOwn'
  <2>1. CASE UNCHANGED <<attempts, cur>> /\ pc' = [pc EXCEPT ![p] = "idle"]
    BY <1>0, <1>9, <2>1 DEF Claim
  <2>2. ASSUME NEW t \in Task, NEW third, Lease(p, t, third),
               \/ /\ cur' = [cur EXCEPT ![p] = Len(attempts) + 1]
                  /\ Goto(p, "prepFollowup") \/ Goto(p, "preflight")
               \/ UNCHANGED cur /\ Goto(p, "idle")
        PROVE  RunsOwn'
    <3>1. /\ \A a \in DOMAIN attempts : attempts'[a] = attempts[a]
          /\ attempts'[Len(attempts) + 1] = [task |-> t, by |-> p] /\ Len(attempts) + 1 # None
      <4>1. EvidenceTypes
        BY DEF Types
      <4>. QED
        BY <2>2, <4>1, LeaseAppends, WorkerAssumption
    <3>2. UNCHANGED <<err, aborted, healing>> /\ pc[p] = "claim"
      BY <1>9 DEF Claim
    <3>. QED
      BY <1>0, <2>2, <3>1, <3>2
  <2>. QED
    BY <1>9, <2>1, <2>2 DEF Claim
<1>10. ASSUME NEW p \in Process, Preflight(p) PROVE RunsOwn'
  BY <1>0, <1>10 DEF Preflight
<1>11. ASSUME NEW p \in Process, PrepareFollowup(p) PROVE RunsOwn'
  BY <1>0, <1>11 DEF PrepareFollowup
<1>12. ASSUME NEW p \in Process, Refuse(p) PROVE RunsOwn'
  BY <1>0, <1>12 DEF Refuse, Release
<1>13. ASSUME NEW p \in Process, PutBack(p) PROVE RunsOwn'
  BY <1>0, <1>13 DEF PutBack
<1>14. ASSUME NEW p \in Process, CreateBranch(p) PROVE RunsOwn'
  BY <1>0, <1>14 DEF CreateBranch
<1>15. ASSUME NEW p \in Process, Agents(p) PROVE RunsOwn'
  BY <1>0, <1>15 DEF Agents
<1>16. ASSUME NEW p \in Process, Followup(p) PROVE RunsOwn'
  BY <1>0, <1>16 DEF Followup
<1>17. ASSUME NEW p \in Process, CheckLease(p) PROVE RunsOwn'
  BY <1>0, <1>17 DEF CheckLease
<1>18. ASSUME NEW p \in Process, Merge(p) PROVE RunsOwn'
  BY <1>0, <1>18 DEF Merge
<1>19. ASSUME NEW p \in Process, OpenPr(p) PROVE RunsOwn'
  BY <1>0, <1>19 DEF OpenPr
<1>20. ASSUME NEW p \in Process, Note(p) PROVE RunsOwn'
  BY <1>0, <1>20 DEF Note, AfterNote, NoteFailed
<1>21. ASSUME NEW p \in Process, MoveOn(p) PROVE RunsOwn'
  BY <1>0, <1>21 DEF MoveOn, AfterMove, MoveFailed, Moved, Refused, Unreachable
<1>22. ASSUME NEW p \in Process, Cleanup(p) PROVE RunsOwn'
  BY <1>0, <1>22 DEF Cleanup
<1>23. ASSUME NEW p \in Process, CycleError(p) PROVE RunsOwn'
  BY <1>0, <1>23 DEF CycleError
<1>24. ASSUME NEW p \in Process, EndRun(p) PROVE RunsOwn'
  BY <1>0, <1>24 DEF EndRun, Release
<1>25. ASSUME NEW p \in Process, Heartbeat(p) PROVE RunsOwn'
  BY <1>0, <1>25 DEF Heartbeat
<1>26. ASSUME NEW p \in Process, ResumeWatch(p) PROVE RunsOwn'
  BY <1>0, <1>26 DEF ResumeWatch, ShouldSelfHeal
<1>27. ASSUME NEW p \in Process, ResetTree(p) PROVE RunsOwn'
  BY <1>0, <1>27 DEF ResetTree
<1>. QED
  BY <1>1, <1>2, <1>3, <1>4, <1>5, <1>6, <1>7, <1>8, <1>9, <1>10, <1>11, <1>12, <1>13, <1>14, <1>15, <1>16,
    <1>17, <1>18, <1>19, <1>20, <1>21, <1>22, <1>23, <1>24, <1>25, <1>26, <1>27 DEF Next, ProcessStep, CycleStep

LEMMA BranchKeptNext ==
  ASSUME Types, RunsOwn, BranchKept, Next PROVE BranchKept'
<1>. USE DEF BranchKept
<1>0. /\ pc \in [Process -> Place] /\ cur \in [Process -> DOMAIN attempts \cup {None}]
      /\ branches \in [Process -> SUBSET Task]
  BY DEF Types, RunTypes, TreeTypes
<1>1. ASSUME NEW p \in Process, LockLost(p) \/ Watchdog(p) \/ UserPause(p) \/ Resume(p) \/ RecStart(p) \/ RecView(p)
             \/ Heartbeat(p) \/ ResumeWatch(p)
      PROVE  BranchKept'
  BY <1>1 DEF LockLost, Watchdog, UserPause, Resume, RecStart, RecView, Heartbeat, ResumeWatch
<1>2. ASSUME NEW t \in Task, TaskStep(t) PROVE BranchKept'
  BY <1>2 DEF TaskStep, LeaseLapses, PrMerges, PrCloses, ReviewerAsks, Unblock, Confirm
<1>3. ASSUME SweepElsewhere PROVE BranchKept'
  BY <1>3 DEF SweepElsewhere
<1>4. ASSUME NEW p \in Process, Start(p) PROVE BranchKept'
  BY <1>0, <1>4 DEF Start
<1>5. ASSUME NEW p \in Process, Crash(p) PROVE BranchKept'
  BY <1>0, <1>5 DEF Crash
<1>6. ASSUME NEW p \in Process, StartCycle(p) PROVE BranchKept'
  BY <1>0, <1>6 DEF StartCycle
<1>7. ASSUME NEW p \in Process, Select(p) PROVE BranchKept'
  BY <1>0, <1>7 DEF Select, FreshHooks
<1>8. ASSUME NEW p \in Process, Peek(p) PROVE BranchKept'
  BY <1>0, <1>8 DEF Peek
<1>9. ASSUME NEW p \in Process, Claim(p) PROVE BranchKept'
  <2>1. UNCHANGED branches /\ \A q \in Process \ {p} : pc'[q] = pc[q] /\ cur'[q] = cur[q]
    BY <1>0, <1>9 DEF Claim
  <2>2. pc'[p] \in {"idle", "prepFollowup", "preflight"}
    BY <1>0, <1>9 DEF Claim
  <2>3. \A a \in DOMAIN attempts : attempts'[a] = attempts[a]
    <3>1. EvidenceTypes
      BY DEF Types
    <3>2. ASSUME NEW t \in Task, NEW third, Lease(p, t, third)
          PROVE  \A a \in DOMAIN attempts : attempts'[a] = attempts[a]
      BY <3>1, <3>2, LeaseAppends, Zenon
    <3>. QED
      BY <1>9, <3>2 DEF Claim
  <2>4. \A q \in Process : pc[q] \in InRun => cur[q] \in DOMAIN attempts
    BY RunHasClaim
  <2>. QED
    BY <1>0, <2>1, <2>2, <2>3, <2>4 DEF InRun, Working
<1>10. ASSUME NEW p \in Process, Preflight(p) PROVE BranchKept'
  BY <1>0, <1>10 DEF Preflight
<1>11. ASSUME NEW p \in Process, PrepareFollowup(p) PROVE BranchKept'
  BY <1>0, <1>11 DEF PrepareFollowup
<1>12. ASSUME NEW p \in Process, Refuse(p) PROVE BranchKept'
  BY <1>0, <1>12 DEF Refuse, Release
<1>13. ASSUME NEW p \in Process, PutBack(p) PROVE BranchKept'
  BY <1>0, <1>13 DEF PutBack
<1>14. ASSUME NEW p \in Process, CreateBranch(p) PROVE BranchKept'
  BY <1>0, <1>14 DEF CreateBranch
<1>15. ASSUME NEW p \in Process, Agents(p) PROVE BranchKept'
  BY <1>0, <1>15 DEF Agents
<1>16. ASSUME NEW p \in Process, Followup(p) PROVE BranchKept'
  BY <1>0, <1>16 DEF Followup
<1>17. ASSUME NEW p \in Process, CheckLease(p) PROVE BranchKept'
  BY <1>0, <1>17 DEF CheckLease
<1>18. ASSUME NEW p \in Process, Merge(p) PROVE BranchKept'
  BY <1>0, <1>18 DEF Merge
<1>19. ASSUME NEW p \in Process, OpenPr(p) PROVE BranchKept'
  BY <1>0, <1>19 DEF OpenPr
<1>20. ASSUME NEW p \in Process, Note(p) PROVE BranchKept'
  BY <1>0, <1>20 DEF Note, AfterNote, NoteFailed, Noting
<1>21. ASSUME NEW p \in Process, MoveOn(p) PROVE BranchKept'
  BY <1>0, <1>21 DEF MoveOn, AfterMove, MoveFailed, Moving, CleanupBranch, Moved, Refused, Unreachable
<1>22. ASSUME NEW p \in Process, Cleanup(p) PROVE BranchKept'
  BY <1>0, <1>22 DEF Cleanup
<1>23. ASSUME NEW p \in Process, CycleError(p) PROVE BranchKept'
  BY <1>0, <1>23 DEF CycleError, CleanupBranch
<1>24. ASSUME NEW p \in Process, EndRun(p) PROVE BranchKept'
  BY <1>0, <1>24 DEF EndRun, Release
<1>25. ASSUME NEW p \in Process, RecAct(p) PROVE BranchKept'
  <2>1. UNCHANGED <<attempts, pc, cur>>
    BY <1>25 DEF RecAct
  <2>2. \/ UNCHANGED branches
        \/ ~CheckedOut(p, rec[p].task) /\ branches' = [branches EXCEPT ![p] = @ \ {rec[p].task}]
    BY <1>25 DEF RecAct, RecMerged, RecDeclined, RecOpen
  <2>. QED
    BY <1>0, <2>1, <2>2 DEF CheckedOut, Working
<1>26. ASSUME NEW p \in Process, ResetTree(p) PROVE BranchKept'
  <2>1. pc[p] \in {"idle", "select"}
    BY <1>26 DEF ResetTree, RunsOwn
  <2>. QED
    BY <1>0, <1>26, <2>1 DEF ResetTree
<1>. QED
  BY <1>1, <1>2, <1>3, <1>4, <1>5, <1>6, <1>7, <1>8, <1>9, <1>10, <1>11, <1>12, <1>13, <1>14, <1>15, <1>16,
    <1>17, <1>18, <1>19, <1>20, <1>21, <1>22, <1>23, <1>24, <1>25, <1>26 DEF Next, ProcessStep, CycleStep

----------------------------------------------------------------------------
(* What is done has landed                                                   *)

\* Attempts are never changed, and what landed stays.
LEMMA AttemptsKept ==
  ASSUME Types, RunsOwn, Next
  PROVE  /\ DOMAIN attempts \subseteq DOMAIN attempts'
         /\ \A a \in DOMAIN attempts : attempts'[a] = attempts[a]
<1>1. EvidenceTypes
  BY DEF Types
<1>2. CASE UNCHANGED attempts
  BY <1>2
<1>3. ASSUME NEW p \in Process, NEW t \in Task, NEW third, Lease(p, t, third)
      PROVE  DOMAIN attempts \subseteq DOMAIN attempts' /\ \A a \in DOMAIN attempts : attempts'[a] = attempts[a]
  BY <1>1, <1>3, LeaseAppends, Zenon
<1>. QED
  BY <1>2, <1>3, RowSteps

\* Only a push, a new pull request and people change what is at origin.
LEMMA OriginSteps ==
  ASSUME Next
  PROVE  \/ UNCHANGED <<pr, opener, landed>>
         \/ \E p \in Process : Merge(p) \/ OpenPr(p)
         \/ \E t \in Task : PrMerges(t) \/ PrCloses(t)
<1>1. ASSUME NEW p \in Process,
               Start(p) \/ Crash(p) \/ LockLost(p) \/ StartCycle(p) \/ Select(p) \/ Peek(p)
               \/ Claim(p) \/ Preflight(p) \/ PrepareFollowup(p) \/ Refuse(p) \/ PutBack(p) \/ CreateBranch(p)
               \/ Agents(p) \/ Followup(p)
      PROVE  UNCHANGED <<pr, opener, landed>>
  BY <1>1 DEF Start, Crash, LockLost, StartCycle, Select, Peek, Claim, Preflight, PrepareFollowup, Refuse,
    PutBack, CreateBranch, Agents, Followup
<1>2. ASSUME NEW p \in Process,
               CheckLease(p) \/ Note(p) \/ MoveOn(p) \/ Cleanup(p) \/ CycleError(p) \/ EndRun(p)
               \/ Heartbeat(p) \/ RecStart(p) \/ RecView(p) \/ RecAct(p) \/ Watchdog(p) \/ UserPause(p)
               \/ Resume(p) \/ ResumeWatch(p) \/ ResetTree(p)
      PROVE  UNCHANGED <<pr, opener, landed>>
  BY <1>2 DEF CheckLease, Note, MoveOn, Cleanup, CycleError, EndRun, Heartbeat, RecStart, RecView, RecAct,
    Watchdog, UserPause, Resume, ResumeWatch, ResetTree
<1>3. ASSUME NEW t \in Task, LeaseLapses(t) \/ ReviewerAsks(t) \/ Unblock(t) \/ Confirm(t) PROVE UNCHANGED <<pr, opener, landed>>
  BY <1>3 DEF LeaseLapses, ReviewerAsks, Unblock, Confirm
<1>4. ASSUME SweepElsewhere PROVE UNCHANGED <<pr, opener, landed>>
  BY <1>4 DEF SweepElsewhere
<1>. QED
  BY <1>1, <1>2, <1>3, <1>4 DEF Next, ProcessStep, CycleStep, TaskStep

\* Only reconcile, a crash and a new engine change what reconcile has under way.
LEMMA RecSteps ==
  ASSUME Next
  PROVE  \/ UNCHANGED rec
         \/ \E p \in Process : Crash(p) \/ Select(p) \/ RecStart(p) \/ RecView(p) \/ RecAct(p)
<1>1. ASSUME NEW p \in Process,
               Start(p) \/ LockLost(p) \/ StartCycle(p) \/ Peek(p) \/ Claim(p) \/ Preflight(p)
               \/ PrepareFollowup(p) \/ Refuse(p) \/ PutBack(p) \/ CreateBranch(p) \/ Agents(p) \/ Followup(p)
               \/ CheckLease(p)
      PROVE  UNCHANGED rec
  BY <1>1 DEF Start, LockLost, StartCycle, Peek, Claim, Preflight, PrepareFollowup, Refuse, PutBack,
    CreateBranch, Agents, Followup, CheckLease
<1>2. ASSUME NEW p \in Process,
               Merge(p) \/ OpenPr(p) \/ Note(p) \/ MoveOn(p) \/ Cleanup(p) \/ CycleError(p)
               \/ EndRun(p) \/ Heartbeat(p) \/ Watchdog(p) \/ UserPause(p) \/ Resume(p) \/ ResumeWatch(p)
               \/ ResetTree(p)
      PROVE  UNCHANGED rec
  BY <1>2 DEF Merge, OpenPr, Note, MoveOn, Cleanup, CycleError, EndRun, Heartbeat, Watchdog, UserPause, Resume,
    ResumeWatch, ResetTree
<1>3. ASSUME NEW t \in Task, LeaseLapses(t) \/ PrMerges(t) \/ PrCloses(t) \/ ReviewerAsks(t) \/ Unblock(t) \/ Confirm(t) PROVE UNCHANGED rec
  BY <1>3 DEF LeaseLapses, PrMerges, PrCloses, ReviewerAsks, Unblock, Confirm
<1>4. ASSUME SweepElsewhere PROVE UNCHANGED rec
  BY <1>4 DEF SweepElsewhere
<1>. QED
  BY <1>1, <1>2, <1>3, <1>4 DEF Next, ProcessStep, CycleStep, TaskStep

LEMMA LandedKept ==
  ASSUME Types, Next PROVE landed \subseteq landed'
<1>1. ASSUME NEW p \in Process, Merge(p) PROVE landed \subseteq landed'
  <2>1. main[p] \subseteq [main EXCEPT ![p] = @ \cup {cur[p]}][p]
    BY DEF Types, TreeTypes
  <2>. QED
    BY <1>1, <2>1 DEF Merge
<1>. QED
  BY <1>1, OriginSteps DEF OpenPr, PrMerges, PrCloses

LEMMA OnMainKept ==
  ASSUME Types, RunsOwn, Next, NEW t, OnMain(t) PROVE OnMain(t)'
<1>1. PICK a \in landed : TaskOf(a) = t
  BY DEF OnMain
<1>2. a \in landed' /\ a \in DOMAIN attempts
  BY LandedKept DEF Types, OriginTypes
<1>3. attempts'[a] = attempts[a]
  BY <1>2, AttemptsKept
<1>. QED
  BY <1>1, <1>2, <1>3 DEF OnMain

LEMMA PrsTrueNext ==
  ASSUME Types, RunsOwn, PrsTrue, Next PROVE PrsTrue'
<1>0. /\ pr \in [Task -> {"none", "open", "merged", "closed"}]
      /\ opener \in [Task -> DOMAIN attempts \cup {None}]
      /\ \A a \in DOMAIN attempts : attempts'[a] = attempts[a]
      /\ None \notin DOMAIN attempts
  BY AttemptsKept, WorkerAssumption DEF Types, OriginTypes, EvidenceTypes
<1>1. ASSUME NEW t \in Task, pr[t] = "merged" PROVE OnMain(t)'
  BY <1>1, OnMainKept DEF PrsTrue
<1>2. CASE UNCHANGED <<pr, opener>>
  BY <1>0, <1>1, <1>2 DEF PrsTrue
<1>3. ASSUME NEW p \in Process, OpenPr(p) PROVE PrsTrue'
  <2>1. cur[p] \in DOMAIN attempts /\ Mine(p) \in Task
    BY <1>3, RunHasClaim DEF OpenPr, InRun, Working
  <2>2. CASE pr' = [pr EXCEPT ![Mine(p)] = "open"] /\ opener' = [opener EXCEPT ![Mine(p)] = cur[p]]
    BY <1>0, <1>1, <2>1, <2>2 DEF PrsTrue
  <2>. QED
    BY <1>2, <1>3, <2>2 DEF OpenPr
<1>4. ASSUME NEW t \in Task, PrMerges(t) PROVE PrsTrue'
  <2>1. /\ pr' = [pr EXCEPT ![t] = "merged"] /\ UNCHANGED <<opener, attempts>>
        /\ landed' = landed \cup {opener[t]} /\ pr[t] = "open"
    BY <1>4 DEF PrMerges
  <2>2. OnMain(t)'
    BY <2>1 DEF PrsTrue, OnMain
  <2>. QED
    BY <1>0, <1>1, <2>1, <2>2 DEF PrsTrue
<1>5. ASSUME NEW t \in Task, PrCloses(t) PROVE PrsTrue'
  BY <1>0, <1>1, <1>5 DEF PrCloses, PrsTrue
<1>. QED
  BY <1>2, <1>3, <1>4, <1>5, OriginSteps DEF Merge

LEMMA SeenTrueNext ==
  ASSUME Types, RunsOwn, PrsTrue, SeenTrue, Next PROVE SeenTrue'
<1>0. RecTypes
  BY DEF Types
<1>1. ASSUME NEW p \in Process, rec[p].saw = "merged" PROVE \E a \in landed' : attempts'[a].task = rec[p].task
  BY <1>1, OnMainKept DEF SeenTrue, OnMain
<1>2. CASE UNCHANGED rec
  BY <1>1, <1>2 DEF SeenTrue, OnMain
<1>3. ASSUME NEW p \in Process, NEW r, rec' = [rec EXCEPT ![p] = r], r.saw # "merged" PROVE SeenTrue'
  BY <1>0, <1>1, <1>3 DEF SeenTrue, RecTypes, OnMain
<1>4. ASSUME NEW p \in Process, RecView(p) PROVE SeenTrue'
  <2>1. PICK t \in Task : \E saw \in {pr[t], "none"} :
          rec' = [rec EXCEPT ![p] = [todo |-> @.todo \ {t}, task |-> t, saw |-> saw]]
    BY <1>0, <1>4 DEF RecView, RecTypes
  <2>2. pr[t] = "merged" => OnMain(t)'
    BY OnMainKept DEF PrsTrue
  <2>. QED
    BY <1>0, <1>1, <2>1, <2>2, WorkerAssumption DEF SeenTrue, RecTypes, OnMain
<1>5. ASSUME NEW p \in Process, Crash(p) \/ Select(p) \/ RecAct(p) PROVE SeenTrue'
  <2>1. \/ UNCHANGED rec
        \/ \E S : rec' = [rec EXCEPT ![p] = [NoRec EXCEPT !.todo = S]]
        \/ rec' = [rec EXCEPT ![p] = NoRec]
    BY <1>5 DEF Crash, Select, FreshHooks, RecAct
  <2>. QED
    BY <1>2, <1>3, <2>1 DEF NoRec
<1>6. ASSUME NEW p \in Process, RecStart(p) PROVE SeenTrue'
  BY <1>0, <1>1, <1>6 DEF RecStart, SeenTrue, RecTypes, OnMain
<1>. QED
  BY <1>2, <1>4, <1>5, <1>6, RecSteps

\* A process moves on only by its own start, crash and cycle.
LEMMA PlaceSteps ==
  ASSUME Types, Next, NEW q \in Process
  PROVE  (pc'[q] = pc[q] /\ cur'[q] = cur[q]) \/ Start(q) \/ Crash(q) \/ CycleStep(q)
<1>0. pc \in [Process -> Place] /\ DOMAIN cur = Process
  BY DEF Types, RunTypes
<1>1. ASSUME NEW p \in Process, p # q, Start(p) \/ Crash(p) \/ CycleStep(p)
      PROVE  pc'[q] = pc[q] /\ cur'[q] = cur[q]
  <2>1. ASSUME Start(p) \/ Crash(p) \/ StartCycle(p) \/ Select(p) \/ Peek(p) \/ Claim(p)
                   \/ Preflight(p) \/ PrepareFollowup(p) \/ Refuse(p) \/ PutBack(p) \/ CreateBranch(p)
        PROVE  pc'[q] = pc[q] /\ cur'[q] = cur[q]
    BY <1>0, <1>1, <2>1 DEF Start, Crash, StartCycle, Select, Peek, Claim, Preflight, PrepareFollowup, Refuse,
      PutBack, CreateBranch, FreshHooks
  <2>2. ASSUME Agents(p) \/ Followup(p) \/ CheckLease(p) \/ Merge(p) \/ OpenPr(p) \/ Note(p)
                   \/ MoveOn(p) \/ Cleanup(p) \/ CycleError(p) \/ EndRun(p)
        PROVE  pc'[q] = pc[q] /\ cur'[q] = cur[q]
    BY <1>0, <1>1, <2>2 DEF Agents, Followup, CheckLease, Merge, OpenPr, Note, MoveOn, Cleanup, CycleError,
      EndRun, FreshHooks
  <2>. QED
    BY <1>1, <2>1, <2>2 DEF CycleStep
<1>2. ASSUME NEW p \in Process,
             LockLost(p) \/ Heartbeat(p) \/ RecStart(p) \/ RecView(p) \/ RecAct(p) \/ Watchdog(p)
             \/ UserPause(p) \/ Resume(p) \/ ResumeWatch(p) \/ ResetTree(p)
      PROVE  UNCHANGED <<pc, cur>>
  BY <1>2 DEF LockLost, Heartbeat, RecStart, RecView, RecAct, Watchdog, UserPause, Resume, ResumeWatch,
    ResetTree
<1>3. ASSUME NEW t \in Task, TaskStep(t) PROVE UNCHANGED <<pc, cur>>
  BY <1>3 DEF TaskStep, LeaseLapses, PrMerges, PrCloses, ReviewerAsks, Unblock, Confirm
<1>4. ASSUME SweepElsewhere PROVE UNCHANGED <<pc, cur>>
  BY <1>4 DEF SweepElsewhere
<1>. QED
  BY <1>1, <1>2, <1>3, <1>4 DEF Next, ProcessStep

LEMMA RunsLandedNext ==
  ASSUME Types, RunsOwn, RunsLanded, Next PROVE RunsLanded'
<1>. SUFFICES ASSUME NEW q \in Process, pc'[q] \in {"noteLanded", "finish"} PROVE cur'[q] \in landed'
  BY DEF RunsLanded
<1>0. pc \in [Process -> Place] /\ landed \subseteq landed' /\ main \in [Process -> SUBSET (DOMAIN attempts)]
  BY LandedKept DEF Types, TreeTypes
<1>1. CASE pc'[q] = pc[q] /\ cur'[q] = cur[q]
  BY <1>0, <1>1 DEF RunsLanded
<1>2. CASE Merge(q)
  BY <1>0, <1>2 DEF Merge
<1>3. CASE Note(q)
  BY <1>0, <1>3 DEF Note, Noting, AfterNote, NoteFailed, RunsLanded
<1>4. CASE MoveOn(q)
  BY <1>0, <1>4 DEF MoveOn, Moving, AfterMove, MoveFailed
<1>5. CASE Start(q) \/ Crash(q) \/ StartCycle(q) \/ Select(q) \/ Peek(q) \/ Claim(q)
           \/ Preflight(q) \/ PrepareFollowup(q) \/ Refuse(q) \/ PutBack(q) \/ CreateBranch(q) \/ Agents(q)
           \/ Followup(q) \/ CheckLease(q) \/ OpenPr(q) \/ Cleanup(q) \/ CycleError(q) \/ EndRun(q)
  BY <1>0, <1>5 DEF Start, Crash, StartCycle, Select, Peek, Claim, Preflight, PrepareFollowup, Refuse, PutBack,
    CreateBranch, Agents, Followup, CheckLease, OpenPr, Cleanup, CycleError, EndRun
<1>. QED
  BY <1>1, <1>2, <1>3, <1>4, <1>5, PlaceSteps DEF CycleStep

LEMMA NotesTrueNext ==
  ASSUME Types, RunsOwn, WitnessesTrue, Next PROVE NotesTrue'
<1>0. /\ \A a \in DOMAIN attempts : attempts'[a] = attempts[a]
      /\ landNoted \subseteq DOMAIN attempts
  BY AttemptsKept DEF Types, EvidenceTypes
<1>1. ASSUME NEW a \in DOMAIN attempts, OnMain(TaskOf(a)) PROVE OnMain(TaskOf(a))'
  <2>1. TaskOf(a)' = TaskOf(a)
    BY <1>0
  <2>2. \E b \in landed' : attempts'[b].task = attempts[a].task
    BY <1>1, OnMainKept DEF OnMain
  <2>. QED
    BY <2>1, <2>2 DEF OnMain
<1>2. CASE UNCHANGED landNoted
  BY <1>0, <1>1, <1>2 DEF WitnessesTrue, NotesTrue
<1>3. ASSUME NEW p \in Process, Note(p) PROVE NotesTrue'
  <2>1. CASE pc[p] = "noteLanded" /\ landNoted' = landNoted \cup {cur[p]}
    <3>1. cur[p] \in landed /\ cur[p] \in DOMAIN attempts
      BY <2>1 DEF WitnessesTrue, RunsLanded, Types, OriginTypes
    <3>. QED
      BY <1>0, <1>1, <2>1, <3>1 DEF WitnessesTrue, NotesTrue, OnMain
  <2>. QED
    BY <1>2, <1>3, <2>1 DEF Note
<1>4. ASSUME NEW p \in Process, RecAct(p) PROVE NotesTrue'
  <2>. DEFINE t == rec[p].task
  <2>1. CASE rec[p].saw = "merged" /\ landNoted' = landNoted \cup CurrentAttempt(p, t)
    <3>1. t \in Task /\ OnMain(t)
      BY <2>1 DEF WitnessesTrue, SeenTrue, Types, RecTypes
    <3>2. AttemptsAt(t) # {}
      BY <3>1 DEF OnMain, AttemptsAt, Types, OriginTypes
    <3>3. EvidenceTypes /\ claims[p] \subseteq DOMAIN attempts
      BY DEF Types, RunTypes
    <3>4. Max(AttemptsAt(t)) \in AttemptsAt(t)
      BY <3>1, <3>2, <3>3, NewestAttempt
    <3>5. \A a \in CurrentAttempt(p, t) : a \in DOMAIN attempts /\ TaskOf(a) = t
      BY <3>3, <3>4 DEF CurrentAttempt, ClaimFor, AttemptsAt
    <3>. QED
      BY <1>0, <1>1, <2>1, <3>1, <3>5 DEF WitnessesTrue, NotesTrue
  <2>. QED
    BY <1>2, <1>4, <2>1 DEF RecAct, RecMerged, RecDeclined, RecOpen
<1>5. ASSUME NEW p \in Process,
             Start(p) \/ Crash(p) \/ LockLost(p) \/ StartCycle(p) \/ Select(p) \/ Peek(p)
             \/ Claim(p) \/ Preflight(p) \/ PrepareFollowup(p) \/ Refuse(p) \/ PutBack(p) \/ CreateBranch(p)
             \/ Agents(p) \/ Followup(p)
      PROVE  UNCHANGED landNoted
  BY <1>5 DEF Start, Crash, LockLost, StartCycle, Select, Peek, Claim, Preflight, PrepareFollowup, Refuse,
    PutBack, CreateBranch, Agents, Followup, Lease
<1>6. ASSUME NEW p \in Process,
             CheckLease(p) \/ Merge(p) \/ OpenPr(p) \/ MoveOn(p) \/ Cleanup(p) \/ CycleError(p)
             \/ EndRun(p) \/ Heartbeat(p) \/ RecStart(p) \/ RecView(p) \/ Watchdog(p) \/ UserPause(p)
             \/ Resume(p) \/ ResumeWatch(p) \/ ResetTree(p)
      PROVE  UNCHANGED landNoted
  BY <1>6 DEF CheckLease, Merge, OpenPr, MoveOn, Cleanup, CycleError, EndRun, Heartbeat, RecStart, RecView,
    Watchdog, UserPause, Resume, ResumeWatch, ResetTree, Lease
<1>7. ASSUME NEW t \in Task, TaskStep(t) PROVE UNCHANGED landNoted
  BY <1>7 DEF TaskStep, LeaseLapses, PrMerges, PrCloses, ReviewerAsks, Unblock, Confirm
<1>8. ASSUME SweepElsewhere PROVE UNCHANGED landNoted
  BY <1>8 DEF SweepElsewhere
<1>. QED
  BY <1>2, <1>3, <1>4, <1>5, <1>6, <1>7, <1>8 DEF Next, ProcessStep, CycleStep

LEMMA DoneMeansLandedNext ==
  ASSUME Types, RunsOwn, WitnessesTrue, DoneMeansLanded, Next PROVE DoneMeansLanded'
<1>. SUFFICES ASSUME NEW t \in Task, state'[t] = "done" PROVE OnMain(t)'
  BY DEF DoneMeansLanded, OnMain
<1>0. state \in [Task -> {"open", "claimed", "waiting", "blocked", "done"}]
  BY DEF Types, DbTypes
<1>1. CASE state[t] = "done" \/ OnMain(t)
  BY <1>1, OnMainKept DEF DoneMeansLanded, OnMain
<1>2. ASSUME NEW p \in Process, MoveOn(p), state'[t] # state[t] PROVE OnMain(t)
  <2>1. Mine(p) \in Task /\ cur[p] \in DOMAIN attempts
    BY <1>2, RunHasClaim DEF MoveOn, InRun, Working
  <2>2. Make(MoveOf(pc[p]), Mine(p))
    BY <1>2 DEF MoveOn, Moved, Refused, Unreachable
  <2>3. t = Mine(p) /\ MoveOf(pc[p]) = "finish"
    BY <1>0, <1>2, <2>1, <2>2 DEF ToState, MoveOf
  <2>4. pc[p] = "finish"
    BY <2>3 DEF MoveOf
  <2>. QED
    BY <2>3, <2>4 DEF WitnessesTrue, RunsLanded, OnMain
<1>3. ASSUME NEW p \in Process, RecAct(p), state'[t] # state[t] PROVE OnMain(t)
  <2>1. rec[p].task \in Task
    BY <1>3 DEF RecAct, Types, RecTypes
  <2>2. \E m \in {"finish", "flag", "followUp"} :
           Make(m, rec[p].task) /\ (m = "finish" => rec[p].saw = "merged")
    BY <1>3 DEF RecAct, RecMerged, RecDeclined, RecOpen, RecMove, RecGivesUp
  <2>3. t = rec[p].task /\ rec[p].saw = "merged"
    BY <1>0, <1>3, <2>1, <2>2 DEF ToState
  <2>. QED
    BY <2>3 DEF WitnessesTrue, SeenTrue
<1>4. ASSUME NEW u \in Task, Confirm(u), state'[t] # state[t] PROVE OnMain(t)
  <2>1. EvidenceTypes /\ AttemptsAt(u) # {} /\ Max(AttemptsAt(u)) \in landNoted /\ t = u
    BY <1>0, <1>4 DEF Confirm, Types
  <2>2. Max(AttemptsAt(u)) \in AttemptsAt(u)
    BY <2>1, NewestAttempt
  <2>. QED
    BY <2>1, <2>2 DEF AttemptsAt, WitnessesTrue, NotesTrue
<1>5. ASSUME NEW u \in Task, NEW s \in {"open", "waiting"}, NEW b, MoveTask(u, s, b), state'[t] # state[t] PROVE FALSE
  BY <1>0, <1>5
<1>6. ASSUME NEW third, state' = Swept(third), state'[t] # state[t] PROVE FALSE
  BY <1>0, <1>6 DEF Swept
<1>7. ASSUME NEW p \in Process, Refuse(p) \/ PutBack(p) \/ EndRun(p), state'[t] # state[t] PROVE FALSE
  <2>1. Mine(p) \in Task
    BY <1>7, RunHasClaim DEF Refuse, PutBack, EndRun, InRun, Preparing, Working
  <2>2. Make("release", Mine(p)) \/ Make("submit", Mine(p))
    BY <1>7 DEF Refuse, PutBack, EndRun, Release
  <2>. QED
    BY <1>0, <1>7, <2>1, <2>2 DEF ToState
<1>8. ASSUME NEW p \in Process, Claim(p) \/ Peek(p), state'[t] # state[t] PROVE FALSE
  <2>1. \E third : state' = Swept(third) \/ \E u \in Task : state' = [Swept(third) EXCEPT ![u] = "claimed"]
    BY <1>8 DEF Claim, Lease, Peek
  <2>. QED
    BY <1>0, <1>8, <2>1 DEF Swept
<1>9. ASSUME NEW p \in Process,
             Start(p) \/ Crash(p) \/ LockLost(p) \/ StartCycle(p) \/ Select(p) \/ Preflight(p)
             \/ PrepareFollowup(p) \/ CreateBranch(p) \/ Agents(p) \/ Followup(p) \/ CheckLease(p) \/ Merge(p)
             \/ OpenPr(p) \/ Note(p) \/ Cleanup(p) \/ CycleError(p) \/ Heartbeat(p) \/ RecStart(p)
             \/ RecView(p) \/ Watchdog(p) \/ UserPause(p) \/ Resume(p) \/ ResumeWatch(p) \/ ResetTree(p)
      PROVE  UNCHANGED state
  BY <1>9 DEF Start, Crash, LockLost, StartCycle, Select, Preflight, PrepareFollowup, CreateBranch, Agents,
    Followup, CheckLease, Merge, OpenPr, Note, Cleanup, CycleError, Heartbeat, RecStart, RecView, Watchdog,
    UserPause, Resume, ResumeWatch, ResetTree
<1>10. ASSUME NEW u \in Task, LeaseLapses(u) \/ PrMerges(u) \/ PrCloses(u) \/ ReviewerAsks(u) PROVE UNCHANGED state
  BY <1>10 DEF LeaseLapses, PrMerges, PrCloses, ReviewerAsks
<1>11. ASSUME NEW u \in Task, Unblock(u), state'[t] # state[t] PROVE FALSE
  BY <1>5, <1>11 DEF Unblock
<1>12. ASSUME SweepElsewhere, state'[t] # state[t] PROVE FALSE
  BY <1>6, <1>12 DEF SweepElsewhere
<1>. QED
  BY <1>1, <1>2, <1>3, <1>4, <1>7, <1>8, <1>9, <1>10, <1>11, <1>12 DEF Next, ProcessStep, CycleStep, TaskStep

\* What the state keeps so far, of every process and every task.
WorkerInv == Shaped /\ BranchKept /\ WitnessesTrue /\ DoneMeansLanded

LEMMA WorkerInvInit == Init => WorkerInv
<1>. SUFFICES ASSUME Init PROVE WorkerInv
  OBVIOUS
<1>1. LeasesMatch /\ RunsOwn /\ BranchKept
  BY DEF Init, LeasesMatch, RunsOwn, BranchKept, InRun, Preparing, Working, Noting, Moving
<1>2. WitnessesTrue /\ DoneMeansLanded
  BY DEF Init, WitnessesTrue, PrsTrue, SeenTrue, RunsLanded, NotesTrue, DoneMeansLanded, NoRec
<1>. QED
  BY <1>1, <1>2, InitTypes DEF WorkerInv, Shaped

LEMMA WorkerInvNext == WorkerInv /\ [Next]_<<vars, scene>> => WorkerInv'
<1>. SUFFICES ASSUME WorkerInv, [Next]_<<vars, scene>> PROVE WorkerInv'
  OBVIOUS
<1>1. CASE Next
  BY <1>1, TypesNext, LeasesMatchNext, RunsOwnNext, BranchKeptNext, PrsTrueNext, SeenTrueNext, RunsLandedNext,
    NotesTrueNext, DoneMeansLandedNext DEF WorkerInv, Shaped, WitnessesTrue
<1>2. CASE UNCHANGED <<vars, scene>>
  <2>1. Types'
    BY <1>2, Frame DEF WorkerInv, Shaped, Types, vars
  <2>2. LeasesMatch' /\ RunsOwn' /\ BranchKept'
    BY <1>2 DEF WorkerInv, Shaped, LeasesMatch, RunsOwn, BranchKept, vars
  <2>3. WitnessesTrue' /\ DoneMeansLanded'
    BY <1>2 DEF WorkerInv, WitnessesTrue, PrsTrue, SeenTrue, RunsLanded, NotesTrue, OnMain, DoneMeansLanded,
      vars
  <2>. QED
    BY <2>1, <2>2, <2>3 DEF WorkerInv, Shaped
<1>. QED
  BY <1>1, <1>2

LEMMA WorkerInvHolds == Spec => []WorkerInv
BY WorkerInvInit, WorkerInvNext, PTL DEF Spec

\* worker-runtime.ts, merge.ts, pr-followup-run.ts: whatever fails and whoever intervenes, the
\* state keeps its shape and a run's branch stays until the run is off it.
THEOREM BranchesStay == Spec => []BranchesKept
<1>1. WorkerInv => BranchesKept
  BY TypesTyped DEF WorkerInv, Shaped, BranchesKept
<1>. QED
  BY <1>1, WorkerInvHolds, PTL

\* merge.ts, pr-followup-run.ts, hooks.ts: a run, a reconcile and a person's confirm make a
\* task done only when a change of it is on origin's main.
THEOREM DoneHasLanded == Spec => []DoneMeansLanded
<1>1. WorkerInv => DoneMeansLanded
  BY DEF WorkerInv
<1>. QED
  BY <1>1, WorkerInvHolds, PTL

----------------------------------------------------------------------------
(* No lease is left behind                                                   *)

\* A lease that is gone is gone for good: a claim gives a lease to a new attempt.
LEMMA GoneForGood ==
  ASSUME Types, RunsOwn, Next, NEW a \in DOMAIN attempts, ~Held(a) PROVE ~Held(a)'
<1>0. /\ attempts'[a] = attempts[a] /\ TaskOf(a) \in Task /\ a # None /\ DbTypes /\ EvidenceTypes
  <2>. DEFINE Row == [task : Task, by : Process]
  <2>1. attempts \in Seq(Row) /\ None \notin DOMAIN attempts
    BY WorkerAssumption DEF Types, EvidenceTypes
  <2>2. attempts[a] \in Row
    <3>. HIDE DEF Row
    <3>. QED
      BY <2>1
  <2>. QED
    BY <2>1, <2>2, AttemptsKept DEF Types
<1>1. CASE UNCHANGED <<db, attempts>>
  BY <1>1
<1>2. ASSUME NEW t \in Task, NEW s, NEW b, MoveTask(t, s, b) PROVE ~Held(a)'
  BY <1>0, <1>2 DEF DbTypes
<1>3. CASE UNCHANGED <<lease, attempts>>
  BY <1>3
<1>4. ASSUME NEW third, Sweep(third) PROVE ~Held(a)'
  BY <1>0, <1>4 DEF Unlapsed
<1>5. ASSUME NEW p \in Process, NEW t \in Task, NEW third, Lease(p, t, third) PROVE ~Held(a)'
  <2>1. a # Len(attempts) + 1
    <3>1. Len(attempts) \in Nat /\ DOMAIN attempts = 1..Len(attempts)
      BY <1>0, <1>5, LeaseAppends, Zenon
    <3>. QED
      BY <3>1
  <2>. QED
    BY <1>0, <1>5, <2>1 DEF Lease, Unlapsed
<1>. QED
  BY <1>1, <1>2, <1>3, <1>4, <1>5, RowSteps

\* The history only grows.
LEMMA HistoryKept ==
  ASSUME Next PROVE adrift \subseteq adrift' /\ cut \subseteq cut'
<1>1. ASSUME NEW p \in Process,
             Start(p) \/ Crash(p) \/ LockLost(p) \/ StartCycle(p) \/ Select(p) \/ Peek(p)
             \/ Claim(p) \/ Preflight(p) \/ PrepareFollowup(p) \/ Refuse(p) \/ PutBack(p) \/ CreateBranch(p)
             \/ Agents(p) \/ Followup(p) \/ CheckLease(p)
      PROVE  adrift \subseteq adrift' /\ cut \subseteq cut'
  BY <1>1 DEF Start, Crash, LockLost, StartCycle, Select, Peek, Claim, Preflight, PrepareFollowup, Refuse,
    PutBack, CreateBranch, Agents, Followup, CheckLease, Release, Moved, Refused, Unreachable
<1>2. ASSUME NEW p \in Process,
             Merge(p) \/ OpenPr(p) \/ Note(p) \/ MoveOn(p) \/ Cleanup(p) \/ CycleError(p)
             \/ EndRun(p) \/ Heartbeat(p) \/ RecStart(p) \/ RecView(p) \/ RecAct(p) \/ Watchdog(p)
             \/ UserPause(p) \/ Resume(p) \/ ResumeWatch(p) \/ ResetTree(p)
      PROVE  adrift \subseteq adrift' /\ cut \subseteq cut'
  BY <1>2 DEF Merge, OpenPr, Note, MoveOn, Cleanup, CycleError, EndRun, Heartbeat, RecStart, RecView, RecAct,
    Watchdog, UserPause, Resume, ResumeWatch, ResetTree, Release, Moved, Refused, Unreachable
<1>3. ASSUME NEW t \in Task, LeaseLapses(t) \/ PrMerges(t) \/ PrCloses(t) \/ ReviewerAsks(t) \/ Unblock(t) \/ Confirm(t) PROVE adrift \subseteq adrift' /\ cut \subseteq cut'
  BY <1>3 DEF LeaseLapses, PrMerges, PrCloses, ReviewerAsks, Unblock, Confirm
<1>4. ASSUME SweepElsewhere PROVE adrift \subseteq adrift' /\ cut \subseteq cut'
  BY <1>4 DEF SweepElsewhere
<1>. QED
  BY <1>1, <1>2, <1>3, <1>4 DEF Next, ProcessStep, CycleStep, TaskStep

\* A run that ends has moved its task or given its claim back, unless the database was lost
\* or the process killed under it.
LEMMA LetsGo ==
  ASSUME Types, RunsOwn, ErrorsTrue, Next, NEW q \in Process, cur[q] # None, cur'[q] # cur[q]
  PROVE  lease'[Mine(q)] # cur[q] \/ cur[q] \in adrift'
<1>0. cur[q] \in DOMAIN attempts /\ pc[q] \in InRun /\ Mine(q) \in Task /\ None \notin DOMAIN attempts /\ DbTypes
  <2>1. cur[q] \in DOMAIN attempts /\ pc[q] \in InRun /\ None \notin DOMAIN attempts /\ DbTypes
    BY WorkerAssumption DEF Types, RunTypes, EvidenceTypes, RunsOwn
  <2>. QED
    BY <2>1, RunHasClaim
<1>. DEFINE Gone == lease'[Mine(q)] # cur[q] \/ cur[q] \in adrift'
<1>1. ASSUME NEW m, Make(m, Mine(q)) PROVE lease'[Mine(q)] # cur[q]
  BY <1>0, <1>1 DEF DbTypes
<1>2. ASSUME ~Held(cur[q]), UNCHANGED lease PROVE lease'[Mine(q)] # cur[q]
  BY <1>2
<1>3. CASE Crash(q)
  BY <1>0, <1>3 DEF Crash
<1>4. ASSUME Release(q) PROVE Gone
  BY <1>1, <1>2, <1>4 DEF Release
<1>5. CASE Refuse(q)
  BY <1>4, <1>5 DEF Refuse
<1>6. CASE PutBack(q)
  BY <1>1, <1>2, <1>6 DEF PutBack
<1>7. CASE EndRun(q)
  <2>1. CASE err[q] = "no" /\ Mine(q) \notin ended[q]
    BY <1>4, <1>7, <2>1 DEF EndRun
  <2>2. CASE ~(err[q] = "no" /\ Mine(q) \notin ended[q])
    <3>1. UNCHANGED <<db, history>>
      BY <1>7, <2>2 DEF EndRun
    <3>2. ~Held(cur[q]) \/ cur[q] \in adrift
      BY <2>2 DEF ErrorsTrue, Types, RunTypes
    <3>. QED
      BY <3>1, <3>2
  <2>. QED
    BY <2>1, <2>2
<1>8. ASSUME Start(q) \/ StartCycle(q) \/ Select(q) \/ Peek(q) \/ Claim(q) PROVE FALSE
  BY <1>0, <1>8 DEF InRun, Preparing, Working, Noting, Moving, Start, StartCycle, Select, Peek, Claim
<1>9. ASSUME Preflight(q) \/ PrepareFollowup(q) \/ CreateBranch(q) \/ Agents(q) \/ Followup(q) \/ CheckLease(q)
             \/ Merge(q) \/ OpenPr(q) \/ Note(q) \/ MoveOn(q) \/ Cleanup(q) \/ CycleError(q)
      PROVE  FALSE
  BY <1>9 DEF Preflight, PrepareFollowup, CreateBranch, Agents, Followup, CheckLease, Merge, OpenPr, Note,
    MoveOn,
    Cleanup, CycleError
<1>. QED
  BY <1>3, <1>5, <1>6, <1>7, <1>8, <1>9, PlaceSteps DEF CycleStep

\* A run's error and the tasks it ended change by its own moves, beats and reconciles.
LEMMA RunSteps ==
  ASSUME Types, Next, NEW q \in Process
  PROVE  \/ cur'[q] = cur[q] /\ err'[q] = err[q] /\ ended'[q] \subseteq ended[q]
         \/ cur'[q] = None
         \/ Claim(q) \/ MoveOn(q) \/ Heartbeat(q) \/ RecAct(q)
<1>. DEFINE Same == cur'[q] = cur[q] /\ err'[q] = err[q] /\ ended'[q] = ended[q]
<1>0. RunTypes
  BY DEF Types
<1>1. ASSUME NEW p \in Process,
             Start(p) \/ LockLost(p) \/ StartCycle(p) \/ Peek(p) \/ Preflight(p) \/ PrepareFollowup(p)
             \/ CreateBranch(p) \/ Agents(p) \/ Followup(p) \/ CheckLease(p) \/ Merge(p)
      PROVE  Same
  BY <1>1 DEF Start, LockLost, StartCycle, Peek, Preflight, PrepareFollowup, CreateBranch, Agents, Followup,
    CheckLease, Merge
<1>2. ASSUME NEW p \in Process,
             OpenPr(p) \/ Note(p) \/ Cleanup(p) \/ CycleError(p) \/ RecStart(p) \/ RecView(p)
             \/ Watchdog(p) \/ UserPause(p) \/ Resume(p) \/ ResumeWatch(p) \/ ResetTree(p)
      PROVE  Same
  BY <1>2 DEF OpenPr, Note, Cleanup, CycleError, RecStart, RecView, Watchdog, UserPause, Resume, ResumeWatch,
    ResetTree
<1>3. ASSUME NEW t \in Task, TaskStep(t) PROVE Same
  BY <1>3 DEF TaskStep, LeaseLapses, PrMerges, PrCloses, ReviewerAsks, Unblock, Confirm
<1>4. ASSUME SweepElsewhere PROVE Same
  BY <1>4 DEF SweepElsewhere
<1>5. ASSUME NEW p \in Process, Crash(p) \/ Refuse(p) \/ PutBack(p) \/ EndRun(p) PROVE Same \/ cur'[q] = None
  BY <1>0, <1>5 DEF Crash, Refuse, PutBack, EndRun, RunTypes
<1>6. ASSUME NEW p \in Process, Select(p)
      PROVE  cur'[q] = cur[q] /\ err'[q] = err[q] /\ ended'[q] \subseteq ended[q]
  BY <1>0, <1>6 DEF Select, FreshHooks, RunTypes
<1>7. ASSUME NEW p \in Process, p # q, Claim(p) PROVE Same
  BY <1>0, <1>7 DEF Claim, RunTypes
<1>8. ASSUME NEW p \in Process, p # q, MoveOn(p) PROVE Same
  BY <1>0, <1>8 DEF MoveOn, Moved, Refused, Unreachable, RunTypes
<1>9. ASSUME NEW p \in Process, p # q, Heartbeat(p) PROVE Same
  BY <1>0, <1>9 DEF Heartbeat, RunTypes
<1>10. ASSUME NEW p \in Process, p # q, RecAct(p) PROVE Same
  BY <1>0, <1>10 DEF RecAct, RecMerged, RecDeclined, RecOpen, RecMove, RecGivesUp, RunTypes
<1>. QED
  BY <1>1, <1>2, <1>3, <1>4, <1>5, <1>6, <1>7, <1>8, <1>9, <1>10 DEF Next, ProcessStep, CycleStep

LEMMA ErrorsTrueNext ==
  ASSUME Types, LeasesMatch, RunsOwn, ErrorsTrue, Next PROVE ErrorsTrue'
<1>. DEFINE Knows(q, a) ==
       /\ err'[q] = "lost" => lease'[attempts'[a].task] # a
       /\ err'[q] = "other" => a \in adrift'
       /\ attempts'[a].task \in ended'[q] => lease'[attempts'[a].task] # a
<1>. SUFFICES ASSUME NEW q \in Process, cur'[q] # None PROVE Knows(q, cur'[q])
  BY DEF ErrorsTrue
<1>0. RunTypes /\ DbTypes /\ EvidenceTypes /\ None \notin DOMAIN attempts
  BY WorkerAssumption DEF Types, EvidenceTypes
<1>1. adrift \subseteq adrift'
  BY HistoryKept
<1>2. ASSUME NEW a \in DOMAIN attempts
      PROVE  /\ attempts'[a] = attempts[a]
             /\ ~Held(a) => lease'[attempts'[a].task] # a
  BY GoneForGood, AttemptsKept
<1>3. ASSUME cur'[q] = cur[q], err'[q] = err[q], ended'[q] \subseteq ended[q] PROVE Knows(q, cur'[q])
  <2>1. cur[q] \in DOMAIN attempts
    BY <1>0, <1>3 DEF RunTypes
  <2>. QED
    BY <1>1, <1>2, <1>3, <2>1 DEF ErrorsTrue
<1>4. CASE Claim(q)
  <2>1. pc[q] = "claim" /\ cur[q] = None /\ err[q] = "no" /\ err'[q] = "no"
    BY <1>4 DEF Claim, RunsOwn, InRun, Preparing, Working, Noting, Moving
  <2>a. PICK t \in Task : \E third :
          Lease(q, t, third) /\ cur' = [cur EXCEPT ![q] = Len(attempts) + 1] /\ ended' = [ended EXCEPT ![q] = @ \ {t}]
    BY <1>4, <2>1 DEF Claim
  <2>2. PICK third :
          Lease(q, t, third) /\ cur' = [cur EXCEPT ![q] = Len(attempts) + 1] /\ ended' = [ended EXCEPT ![q] = @ \ {t}]
    BY <2>a
  <2>3. attempts'[Len(attempts) + 1].task = t
    <3>1. attempts'[Len(attempts) + 1] = [task |-> t, by |-> q]
      BY <1>0, <2>2, LeaseAppends, Zenon
    <3>. QED
      BY <3>1
  <2>. QED
    BY <1>0, <2>1, <2>2, <2>3 DEF RunTypes
<1>5. CASE Heartbeat(q)
  <2>1. /\ cur'[q] = cur[q] /\ ended'[q] = ended[q] /\ UNCHANGED <<lease, attempts>>
        /\ err'[q] = err[q] \/ (err'[q] = "lost" /\ ~Held(cur[q]))
    BY <1>0, <1>5 DEF Heartbeat, RunTypes
  <2>. QED
    BY <1>1, <1>3, <2>1 DEF ErrorsTrue
<1>6. CASE MoveOn(q)
  <2>1. cur'[q] = cur[q] /\ cur[q] \in DOMAIN attempts /\ UNCHANGED attempts /\ Mine(q) \in Task
    <3>1. pc[q] \in InRun
      BY <1>6 DEF MoveOn, InRun, Working
    <3>. QED
      BY <1>6, <3>1, RunHasClaim DEF MoveOn
  <2>2. CASE Moved(q, MoveOf(pc[q]))
    <3>1. lease'[Mine(q)] = None
      BY <1>0, <2>1, <2>2 DEF Moved, DbTypes
    <3>2. err'[q] \in {err[q], "lost"}
      BY <1>0, <2>2 DEF Moved, RunTypes
    <3>. QED
      BY <1>0, <1>1, <2>1, <3>1, <3>2 DEF ErrorsTrue
  <2>3. CASE \/ /\ Refused(q, MoveOf(pc[q]))
                /\ err' = IF pc[q] \in {"flagError", "flagGit"} THEN [err EXCEPT ![q] = "lost"] ELSE err
             \/ /\ Unreachable(q, MoveOf(pc[q]))
                /\ err' = IF pc[q] \in {"flagError", "flagGit"} /\ err[q] = "no"
                          THEN [err EXCEPT ![q] = "other"] ELSE err
    <3>1. ended'[q] = ended[q]
      BY <2>3 DEF Refused, Unreachable
    <3>2. CASE err'[q] = err[q]
      BY <1>3, <2>1, <3>1, <3>2
    <3>3. CASE Refused(q, MoveOf(pc[q])) /\ pc[q] \in {"flagError", "flagGit"} /\ err'[q] = "lost"
      <4>1. ~Held(cur[q]) /\ UNCHANGED db
        BY <3>3 DEF Refused, GuardPasses, MoveOf
      <4>. QED
        BY <2>1, <3>1, <3>3, <4>1 DEF ErrorsTrue
    <3>4. CASE Unreachable(q, MoveOf(pc[q])) /\ err'[q] = "other"
      <4>1. cur[q] \in adrift'
        BY <3>4 DEF Unreachable
      <4>. QED
        BY <1>2, <2>1, <3>1, <3>4, <4>1 DEF ErrorsTrue
    <3>. QED
      BY <1>0, <2>3, <3>2, <3>3, <3>4 DEF RunTypes
  <2>. QED
    BY <1>6, <2>2, <2>3 DEF MoveOn
<1>7. CASE RecAct(q)
  <2>1. cur'[q] = cur[q] /\ err'[q] = err[q] /\ UNCHANGED attempts
    BY <1>7 DEF RecAct
  <2>2. CASE UNCHANGED ended
    BY <1>3, <2>1, <2>2
  <2>3. CASE ended' = [ended EXCEPT ![q] = @ \cup {rec[q].task}] /\ \E m : Make(m, rec[q].task)
    <3>1. lease'[rec[q].task] = None
      BY <1>0, <1>7, <2>3 DEF RecAct, Types, RecTypes, DbTypes
    <3>2. cur[q] \in DOMAIN attempts /\ ended'[q] = ended[q] \cup {rec[q].task}
      BY <1>0, <2>1, <2>3 DEF RunTypes
    <3>. QED
      BY <1>0, <1>1, <1>2, <2>1, <3>1, <3>2 DEF ErrorsTrue
  <2>. QED
    BY <1>7, <2>2, <2>3 DEF RecAct, RecMerged, RecDeclined, RecOpen, RecMove, RecGivesUp
<1>. QED
  BY <1>3, <1>4, <1>5, <1>6, <1>7, RunSteps

\* Every attempt is a claim's, which its process works on unless the reply was lost.
LEMMA NewAttempts ==
  ASSUME Types, RunsOwn, Next, NEW a \in DOMAIN attempts', a \notin DOMAIN attempts
  PROVE  \E p \in Process : attempts'[a].by = p /\ (cur'[p] = a \/ a \in adrift')
<1>1. EvidenceTypes /\ RunTypes
  BY DEF Types
<1>2. ASSUME NEW p \in Process, Claim(p)
      PROVE  \E q \in Process : attempts'[a].by = q /\ (cur'[q] = a \/ a \in adrift')
  <2>a. PICK t \in Task : \E third : /\ Lease(p, t, third)
                                     /\ \/ cur' = [cur EXCEPT ![p] = Len(attempts) + 1]
                                        \/ adrift' = adrift \cup {Len(attempts) + 1}
    BY <1>2 DEF Claim
  <2>1. PICK third : /\ Lease(p, t, third)
                     /\ \/ cur' = [cur EXCEPT ![p] = Len(attempts) + 1]
                        \/ adrift' = adrift \cup {Len(attempts) + 1}
    BY <2>a
  <2>2. /\ DOMAIN attempts' = DOMAIN attempts \cup {Len(attempts) + 1}
        /\ attempts'[Len(attempts) + 1] = [task |-> t, by |-> p]
    BY <1>1, <2>1, LeaseAppends, Zenon
  <2>. QED
    BY <1>1, <2>1, <2>2 DEF RunTypes
<1>3. ASSUME NEW p \in Process,
             Start(p) \/ Crash(p) \/ LockLost(p) \/ StartCycle(p) \/ Select(p) \/ Peek(p)
             \/ Preflight(p) \/ PrepareFollowup(p) \/ Refuse(p) \/ PutBack(p) \/ CreateBranch(p) \/ Agents(p)
             \/ Followup(p) \/ CheckLease(p) \/ Merge(p)
      PROVE  UNCHANGED attempts
  BY <1>3 DEF Start, Crash, LockLost, StartCycle, Select, Peek, Preflight, PrepareFollowup, Refuse, PutBack,
    CreateBranch, Agents, Followup, CheckLease, Merge
<1>4. ASSUME NEW p \in Process,
             OpenPr(p) \/ Note(p) \/ MoveOn(p) \/ Cleanup(p) \/ CycleError(p) \/ EndRun(p)
             \/ Heartbeat(p) \/ RecStart(p) \/ RecView(p) \/ RecAct(p) \/ Watchdog(p) \/ UserPause(p)
             \/ Resume(p) \/ ResumeWatch(p) \/ ResetTree(p)
      PROVE  UNCHANGED attempts
  BY <1>4 DEF OpenPr, Note, MoveOn, Cleanup, CycleError, EndRun, Heartbeat, RecStart, RecView, RecAct,
    Watchdog, UserPause, Resume, ResumeWatch, ResetTree
<1>5. ASSUME NEW t \in Task, TaskStep(t) PROVE UNCHANGED attempts
  BY <1>5 DEF TaskStep, LeaseLapses, PrMerges, PrCloses, ReviewerAsks, Unblock, Confirm
<1>6. ASSUME SweepElsewhere PROVE UNCHANGED attempts
  BY <1>6 DEF SweepElsewhere
<1>. QED
  BY <1>2, <1>3, <1>4, <1>5, <1>6 DEF Next, ProcessStep, CycleStep

LEMMA LeasesAttendedNext ==
  ASSUME Types, Types', LeasesMatch, LeasesMatch', RunsOwn, ErrorsTrue, LeasesAttended, Next
  PROVE  LeasesAttended'
<1>. SUFFICES ASSUME NEW t \in Task, lease'[t] # None
              PROVE  cur'[attempts'[lease'[t]].by] = lease'[t] \/ lease'[t] \in adrift'
  BY DEF LeasesAttended
<1>. DEFINE a == lease'[t]
<1>1. a \in DOMAIN attempts' /\ attempts'[a].task = t
  BY DEF Types, DbTypes, LeasesMatch
<1>2. CASE a \notin DOMAIN attempts
  BY <1>1, <1>2, NewAttempts
<1>3. CASE a \in DOMAIN attempts
  <2>1. attempts'[a] = attempts[a] /\ adrift \subseteq adrift'
    BY <1>3, AttemptsKept, HistoryKept
  <2>2. Held(a)
    BY <1>1, <1>3, <2>1, GoneForGood
  <2>3. lease[t] = a /\ a # None
    BY <1>1, <2>1, <2>2
  <2>5. ASSUME NEW q, q = attempts[a].by, cur[q] = a, cur'[q] # a PROVE a \in adrift'
    <3>. DEFINE Row == [task : Task, by : Process]
    <3>1. attempts \in Seq(Row)
      BY DEF Types, EvidenceTypes
    <3>2. attempts[a] \in Row
      <4>. HIDE DEF Row, a
      <4>. QED
        BY <1>3, <3>1
    <3>3. q \in Process
      BY <2>5, <3>2
    <3>4. lease'[Mine(q)] # cur[q] \/ cur[q] \in adrift'
      BY <2>3, <2>5, <3>3, LetsGo
    <3>5. Mine(q) = t
      BY <1>1, <2>1, <2>5
    <3>. QED
      BY <2>5, <3>4, <3>5
  <2>. HIDE DEF a
  <2>6. cur[attempts[a].by] = a \/ a \in adrift
    BY <2>3 DEF LeasesAttended
  <2>7. cur'[attempts[a].by] = a \/ a \in adrift'
    BY <2>1, <2>5, <2>6
  <2>. QED
    BY <2>1, <2>7 DEF a
<1>. QED
  BY <1>2, <1>3

\* hooks.ts, leases.ts: a process in order never leaves a lease to run out; each lease is of the
\* attempt its process works on, or the process crashed or lost the database under it.
THEOREM NoLeaseLeftBehind == Spec => []LeasesAttended
<1>. DEFINE Inv == WorkerInv /\ ErrorsTrue /\ LeasesAttended
<1>1. Init => Inv
  <2>1. Init => ErrorsTrue /\ LeasesAttended
    BY DEF Init, ErrorsTrue, LeasesAttended
  <2>. QED
    BY <2>1, WorkerInvInit
<1>2. Inv /\ [Next]_<<vars, scene>> => Inv'
  <2>. SUFFICES ASSUME Inv, [Next]_<<vars, scene>> PROVE Inv'
    OBVIOUS
  <2>1. WorkerInv'
    BY WorkerInvNext
  <2>2. CASE Next
    BY <2>1, <2>2, ErrorsTrueNext, LeasesAttendedNext DEF WorkerInv, Shaped
  <2>3. CASE UNCHANGED <<vars, scene>>
    BY <2>1, <2>3 DEF ErrorsTrue, LeasesAttended, vars
  <2>. QED
    BY <2>2, <2>3
<1>3. Inv => LeasesAttended
  OBVIOUS
<1>. QED
  BY <1>1, <1>2, <1>3, PTL DEF Spec

----------------------------------------------------------------------------
(* A pushed task lands once                                                  *)

\* The scene stays, and with it the tasks that are pushed.
LEMMA SceneKept == Next => UNCHANGED scene /\ \A t : Pushed(t)' <=> Pushed(t)
BY DEF Next, Pushed, Policy

LEMMA AttemptTyped ==
  ASSUME Types, NEW a \in DOMAIN attempts
  PROVE  TaskOf(a) \in Task /\ attempts[a].by \in Process /\ a \in Nat /\ a # None
<1>. DEFINE Row == [task : Task, by : Process]
<1>1. attempts \in Seq(Row)
  BY DEF Types, EvidenceTypes
<1>2. attempts[a] \in Row
  <2>. HIDE DEF Row
  <2>. QED
    BY <1>1
<1>. QED
  BY <1>1, <1>2, WorkerAssumption

LEMMA LeaseIsLastNext ==
  ASSUME Types, LeasesMatch, RunsOwn, LeaseIsLast, Next PROVE LeaseIsLast'
<1>0. DbTypes /\ EvidenceTypes
  BY DEF Types
<1>1. CASE UNCHANGED <<lease, attempts>>
  BY <1>1 DEF LeaseIsLast, AttemptsAt
<1>2. ASSUME NEW t \in Task, NEW x, NEW b, MoveTask(t, x, b), UNCHANGED attempts PROVE LeaseIsLast'
  BY <1>0, <1>2 DEF LeaseIsLast, AttemptsAt, DbTypes
<1>3. ASSUME NEW third, Sweep(third), UNCHANGED attempts PROVE LeaseIsLast'
  BY <1>0, <1>3 DEF LeaseIsLast, AttemptsAt, DbTypes, Unlapsed
<1>4. ASSUME NEW p \in Process, NEW t \in Task, NEW third, Lease(p, t, third) PROVE LeaseIsLast'
  <2>1. /\ Len(attempts) \in Nat /\ DOMAIN attempts = 1..Len(attempts)
        /\ DOMAIN attempts' = DOMAIN attempts \cup {Len(attempts) + 1}
        /\ \A a \in DOMAIN attempts : attempts'[a] = attempts[a]
        /\ attempts'[Len(attempts) + 1] = [task |-> t, by |-> p]
    BY <1>0, <1>4, LeaseAppends, Zenon
  <2>2. lease' = [Unlapsed EXCEPT ![t] = Len(attempts) + 1]
    BY <1>4 DEF Lease
  <2>3. ASSUME NEW u \in Task, u # t, lease'[u] # None, NEW b \in AttemptsAt(u)' PROVE b <= lease'[u]
    <3>1. lease'[u] = lease[u] /\ b \in AttemptsAt(u)
      BY <2>1, <2>2, <2>3 DEF Unlapsed, AttemptsAt
    <3>. QED
      BY <2>3, <3>1 DEF LeaseIsLast
  <2>4. ASSUME NEW b \in AttemptsAt(t)' PROVE b <= lease'[t]
    BY <2>1, <2>2 DEF Unlapsed, AttemptsAt
  <2>. QED
    BY <2>3, <2>4 DEF LeaseIsLast
<1>. QED
  BY <1>1, <1>2, <1>3, <1>4, RowSteps

LEMMA NotedApart ==
  ASSUME Types, RunsOwn, Apart, Next, NEW a \in prNoted', a \notin prNoted
  PROVE  a \in DOMAIN attempts /\ ~Pushed(TaskOf(a))
<1>1. ASSUME NEW p \in Process, Note(p) \/ PutBack(p)
      PROVE  a \in DOMAIN attempts /\ ~Pushed(TaskOf(a))
  <2>1. a = cur[p] /\ pc[p] \in {"notePr", "noteAgain", "notePutBack"}
    BY <1>1 DEF Note, PutBack, Noting
  <2>2. a \in DOMAIN attempts
    BY <2>1, RunHasClaim DEF InRun, Preparing, Working, Noting
  <2>. QED
    BY <2>1, <2>2 DEF Apart, PlacesApart, ByPr
<1>2. ASSUME NEW p \in Process,
             Start(p) \/ Crash(p) \/ LockLost(p) \/ StartCycle(p) \/ Select(p) \/ Peek(p)
             \/ Claim(p) \/ Preflight(p) \/ PrepareFollowup(p) \/ Refuse(p) \/ CreateBranch(p) \/ Agents(p)
             \/ Followup(p) \/ CheckLease(p)
      PROVE  UNCHANGED prNoted
  BY <1>2 DEF Start, Crash, LockLost, StartCycle, Select, Peek, Claim, Preflight, PrepareFollowup, Refuse,
    CreateBranch, Agents, Followup, CheckLease, Lease
<1>3. ASSUME NEW p \in Process,
             Merge(p) \/ OpenPr(p) \/ MoveOn(p) \/ Cleanup(p) \/ CycleError(p) \/ EndRun(p)
             \/ Heartbeat(p) \/ RecStart(p) \/ RecView(p) \/ RecAct(p) \/ Watchdog(p) \/ UserPause(p)
             \/ Resume(p) \/ ResumeWatch(p) \/ ResetTree(p)
      PROVE  UNCHANGED prNoted
  BY <1>3 DEF Merge, OpenPr, MoveOn, Cleanup, CycleError, EndRun, Heartbeat, RecStart, RecView, RecAct,
    Watchdog, UserPause, Resume, ResumeWatch, ResetTree, Lease
<1>4. ASSUME NEW t \in Task, TaskStep(t) PROVE UNCHANGED prNoted
  BY <1>4 DEF TaskStep, LeaseLapses, PrMerges, PrCloses, ReviewerAsks, Unblock, Confirm
<1>5. ASSUME SweepElsewhere PROVE UNCHANGED prNoted
  BY <1>5 DEF SweepElsewhere
<1>. QED
  BY <1>1, <1>2, <1>3, <1>4, <1>5 DEF Next, ProcessStep, CycleStep

\* Who may change the row of a pushed task: its holder, a claim, a sweep of a lapsed lease,
\* a beat, or a person, for a task that is blocked.
RowKept(t) == state'[t] = state[t] /\ lease'[t] = lease[t] /\ (lapsed'[t] => lapsed[t] \/ LeaseLapses(t))
ByHolder(p, t) == (Refuse(p) \/ EndRun(p) \/ MoveOn(p)) /\ cur[p] # None /\ Mine(p) = t /\ Held(cur[p])
BySweep(t) ==
  \E third : state'[t] \in {Swept(third)[t], "claimed"} /\ (lapsed[t] \/ Swept(third)[t] = "open")

LEMMA PushedRow ==
  ASSUME Types, RunsOwn, Apart, Next, NEW t \in Task, Pushed(t)
  PROVE  RowKept(t) \/ (\E p \in Process : ByHolder(p, t)) \/ BySweep(t) \/ Unblock(t) \/ Confirm(t)
<1>. DEFINE Same == state'[t] = state[t] /\ lease'[t] = lease[t] /\ (lapsed'[t] => lapsed[t])
<1>0. DbTypes /\ RunTypes
  BY DEF Types
<1>1. ASSUME NEW u \in Task, u # t, NEW x, NEW b, MoveTask(u, x, b) PROVE Same
  BY <1>0, <1>1 DEF DbTypes
<1>2. ASSUME NEW third, Sweep(third) PROVE Same \/ BySweep(t)
  BY <1>0, <1>2 DEF DbTypes, Swept, Unlapsed, BySweep
<1>3. ASSUME NEW p \in Process, Peek(p) PROVE Same \/ BySweep(t)
  BY <1>2, <1>3 DEF Peek
<1>4. ASSUME NEW p \in Process, Claim(p) PROVE Same \/ BySweep(t)
  <2>1. ASSUME NEW u \in Task, NEW third, Lease(p, u, third) PROVE Same \/ BySweep(t)
    <3>1. CASE u = t
      BY <1>0, <2>1, <3>1 DEF Lease, FirstOf, Swept, DbTypes, BySweep
    <3>2. CASE u # t
      BY <1>0, <2>1, <3>2 DEF Lease, Swept, Unlapsed, DbTypes, BySweep
    <3>. QED
      BY <3>1, <3>2
  <2>. QED
    BY <1>2, <1>4, <2>1 DEF Claim
<1>5. ASSUME NEW p \in Process, Refuse(p) \/ EndRun(p) \/ MoveOn(p) PROVE Same \/ ByHolder(p, t)
  <2>1. cur[p] \in DOMAIN attempts /\ Mine(p) \in Task /\ cur[p] # None
    BY <1>5, RunHasClaim, AttemptTyped DEF Refuse, EndRun, MoveOn, InRun, Preparing, Working
  <2>2. UNCHANGED db \/ (Held(cur[p]) /\ \E m : Make(m, Mine(p)))
    BY <1>5 DEF Refuse, EndRun, Release, MoveOn, Moved, Refused, Unreachable
  <2>3. CASE Mine(p) = t
    BY <1>5, <2>1, <2>2, <2>3 DEF ByHolder
  <2>4. CASE Mine(p) # t
    BY <1>1, <2>1, <2>2, <2>4
  <2>. QED
    BY <2>3, <2>4
<1>6. ASSUME NEW p \in Process, PutBack(p) PROVE Same
  <2>1. Mine(p) \in Task /\ Mine(p) # t
    BY <1>6, RunHasClaim DEF PutBack, InRun, Preparing, Apart, PlacesApart, ByPr
  <2>. QED
    BY <1>1, <1>6, <2>1 DEF PutBack
<1>7. ASSUME NEW p \in Process, RecAct(p) PROVE Same
  <2>1. rec[p].task \in Task /\ rec[p].task # t
    BY <1>7 DEF RecAct, Types, RecTypes, Apart, RecsApart
  <2>2. UNCHANGED db \/ \E m : Make(m, rec[p].task)
    BY <1>7 DEF RecAct, RecMerged, RecDeclined, RecOpen, RecMove, RecGivesUp
  <2>. QED
    BY <1>1, <2>1, <2>2
<1>8. ASSUME NEW p \in Process, CheckLease(p) \/ Heartbeat(p) PROVE Same
  <2>1. Mine(p) \in Task
    BY <1>8, RunHasClaim DEF CheckLease, Heartbeat, InRun, Working
  <2>. QED
    BY <1>0, <1>8, <2>1 DEF CheckLease, Heartbeat, DbTypes
<1>9. ASSUME NEW u \in Task, LeaseLapses(u) PROVE Same \/ (LeaseLapses(t) /\ UNCHANGED <<state, lease>>)
  BY <1>0, <1>9 DEF LeaseLapses, DbTypes
<1>10. ASSUME NEW u \in Task, Unblock(u) \/ Confirm(u) PROVE Same \/ Unblock(t) \/ Confirm(t)
  BY <1>1, <1>10 DEF Unblock, Confirm
<1>11. ASSUME SweepElsewhere PROVE Same \/ BySweep(t)
  BY <1>2, <1>11 DEF SweepElsewhere
<1>12. ASSUME NEW p \in Process,
              Start(p) \/ Crash(p) \/ LockLost(p) \/ StartCycle(p) \/ Select(p) \/ Preflight(p)
              \/ PrepareFollowup(p) \/ CreateBranch(p) \/ Agents(p) \/ Followup(p) \/ Merge(p) \/ OpenPr(p)
              \/ Note(p) \/ Cleanup(p) \/ CycleError(p) \/ RecStart(p) \/ RecView(p) \/ Watchdog(p)
              \/ UserPause(p) \/ Resume(p) \/ ResumeWatch(p) \/ ResetTree(p)
       PROVE  Same
  BY <1>12 DEF Start, Crash, LockLost, StartCycle, Select, Preflight, PrepareFollowup, CreateBranch, Agents,
    Followup, Merge, OpenPr, Note, Cleanup, CycleError, RecStart, RecView, Watchdog, UserPause, Resume,
    ResumeWatch, ResetTree
<1>13. ASSUME NEW u \in Task, PrMerges(u) \/ PrCloses(u) \/ ReviewerAsks(u) PROVE Same
  BY <1>13 DEF PrMerges, PrCloses, ReviewerAsks
<1>14. Same \/ (LeaseLapses(t) /\ UNCHANGED <<state, lease>>) => RowKept(t)
  BY DEF RowKept
<1>. HIDE DEF Same
<1>. QED
  BY <1>3, <1>4, <1>5, <1>6, <1>7, <1>8, <1>9, <1>10, <1>11, <1>12, <1>13, <1>14
  DEF Next, ProcessStep, CycleStep, TaskStep

LEMMA PushedApartNext ==
  ASSUME Types, RunsOwn, Apart, Next PROVE PushedApart'
<1>. SUFFICES ASSUME NEW t \in Task, Pushed(t)
              PROVE  pr'[t] = "none" /\ state'[t] # "waiting" /\ (AttemptsAt(t) \cap prNoted = {})'
  BY SceneKept DEF PushedApart
<1>0. /\ DbTypes /\ pr \in [Task -> {"none", "open", "merged", "closed"}]
      /\ pr[t] = "none" /\ state[t] # "waiting" /\ AttemptsAt(t) \cap prNoted = {}
  BY DEF Types, OriginTypes, Apart, PushedApart
<1>1. pr'[t] = "none"
  <2>1. ASSUME NEW p \in Process, OpenPr(p) PROVE pr'[t] = "none"
    <3>1. Mine(p) # t
      BY <2>1 DEF OpenPr, Apart, PlacesApart, ByPr
    <3>. QED
      BY <1>0, <2>1, <3>1 DEF OpenPr
  <2>2. ASSUME NEW u \in Task, PrMerges(u) \/ PrCloses(u) PROVE pr'[t] = "none"
    BY <1>0, <2>2 DEF PrMerges, PrCloses
  <2>. QED
    BY <1>0, <2>1, <2>2, OriginSteps DEF Merge
<1>2. state'[t] # "waiting"
  <2>1. CASE RowKept(t)
    BY <1>0, <2>1 DEF RowKept
  <2>2. ASSUME NEW p \in Process, ByHolder(p, t) PROVE state'[t] # "waiting"
    <3>1. CASE Refuse(p) \/ EndRun(p)
      BY <1>0, <2>2, <3>1 DEF ByHolder, Refuse, EndRun, Release, DbTypes, ToState
    <3>2. CASE MoveOn(p)
      <4>1. pc[p] \notin {"submit", "resubmit"}
        BY <2>2 DEF ByHolder, Apart, PlacesApart, ByPr
      <4>2. UNCHANGED state \/ Make(MoveOf(pc[p]), t)
        BY <2>2, <3>2 DEF ByHolder, MoveOn, Moved, Refused, Unreachable
      <4>3. MoveOf(pc[p]) \in {"finish", "flag"}
        BY <4>1 DEF MoveOf
      <4>. QED
        BY <1>0, <4>2, <4>3 DEF DbTypes, ToState
    <3>. QED
      BY <2>2, <3>1, <3>2 DEF ByHolder
  <2>3. CASE BySweep(t)
    BY <1>0, <2>3 DEF BySweep, Swept
  <2>4. CASE Unblock(t) \/ Confirm(t)
    BY <1>0, <2>4 DEF Unblock, Confirm, DbTypes
  <2>. QED
    BY <2>1, <2>2, <2>3, <2>4, PushedRow
<1>3. ASSUME NEW a \in AttemptsAt(t)', a \in prNoted' PROVE FALSE
  <2>1. a \in DOMAIN attempts
    BY <1>3, NotedApart DEF Types, EvidenceTypes
  <2>2. TaskOf(a) = t
    BY <2>1, AttemptsKept DEF AttemptsAt
  <2>. QED
    BY <1>0, <1>3, <2>1, <2>2, NotedApart DEF AttemptsAt
<1>. QED
  BY <1>1, <1>2, <1>3

LEMMA RecsApartNext ==
  ASSUME Types, RunsOwn, Apart, Next PROVE RecsApart'
<1>0. RecTypes /\ RecsApart /\ Policy' = Policy
  BY SceneKept DEF Types, Apart, Policy
<1>. DEFINE Fine(p) == /\ \A t \in rec'[p].todo : ~Pushed(t)
                       /\ rec'[p].task # None => ~Pushed(rec'[p].task)
<1>1. ASSUME UNCHANGED rec, NEW p \in Process PROVE Fine(p)
  BY <1>0, <1>1 DEF RecsApart
<1>2. ASSUME NEW q \in Process, Crash(q) \/ Select(q) \/ RecAct(q),
             NEW p \in Process PROVE rec'[p].todo \subseteq rec[p].todo /\ rec'[p].task \in {None, rec[p].task}
  BY <1>0, <1>2 DEF Crash, Select, FreshHooks, RecAct, NoRec, RecTypes
<1>3. ASSUME NEW q \in Process, RecStart(q), NEW p \in Process
      PROVE  rec'[p].todo \subseteq rec[p].todo \cup {t \in Task : state[t] = "waiting"} /\ rec'[p].task = rec[p].task
  BY <1>0, <1>3 DEF RecStart, RecTypes
<1>4. ASSUME NEW q \in Process, RecView(q), NEW p \in Process
      PROVE  rec'[p].todo \subseteq rec[p].todo /\ rec'[p].task \in {rec[p].task} \cup rec[p].todo
  BY <1>0, <1>4 DEF RecView, RecTypes
<1>5. \A t \in Task : state[t] = "waiting" => ~Pushed(t)
  BY DEF Apart, PushedApart
<1>6. ASSUME NEW q \in Process, Crash(q) \/ Select(q) \/ RecAct(q) \/ RecStart(q) \/ RecView(q), NEW p \in Process
      PROVE  Fine(p)
  <2>1. /\ rec'[p].todo \subseteq rec[p].todo \cup {t \in Task : state[t] = "waiting"}
        /\ rec'[p].task \in {None, rec[p].task} \cup rec[p].todo
    BY <1>2, <1>3, <1>4, <1>6
  <2>. QED
    BY <1>0, <1>5, <2>1 DEF RecsApart
<1>7. ASSUME NEW p \in Process PROVE Fine(p)
  <2>. HIDE DEF Fine
  <2>. QED
    BY <1>1, <1>6, RecSteps
<1>8. ASSUME NEW p \in Process PROVE (\A t \in rec[p].todo : ~Pushed(t))'
  BY <1>0, <1>7 DEF Pushed
<1>9. ASSUME NEW p \in Process PROVE (rec[p].task # None => ~Pushed(rec[p].task))'
  BY <1>0, <1>7 DEF Pushed
<1>. QED
  BY <1>8, <1>9 DEF RecsApart

LEMMA PlacesApartNext ==
  ASSUME Types, RunsOwn, Apart, Next PROVE PlacesApart'
<1>. SUFFICES ASSUME NEW q \in Process, pc'[q] \in ByPr PROVE ~Pushed(attempts'[cur'[q]].task)
  BY SceneKept DEF PlacesApart
<1>0. pc \in [Process -> Place] /\ RunTypes /\ EvidenceTypes
  BY DEF Types
<1>1. ASSUME pc[q] \in ByPr, cur'[q] = cur[q] PROVE ~Pushed(attempts'[cur'[q]].task)
  <2>1. cur[q] \in DOMAIN attempts
    BY <1>1, RunHasClaim DEF ByPr, InRun, Preparing, Working, Noting, Moving
  <2>. QED
    BY <1>1, <2>1, AttemptsKept DEF Apart, PlacesApart
<1>2. CASE pc'[q] = pc[q] /\ cur'[q] = cur[q]
  BY <1>1, <1>2
<1>3. CASE Claim(q)
  <2>a. PICK t \in Task : \E third :
          Lease(q, t, third) /\ cur' = [cur EXCEPT ![q] = Len(attempts) + 1] /\ IsFollowup(t)
    BY <1>0, <1>3 DEF Claim, ByPr
  <2>1. PICK third : Lease(q, t, third) /\ cur' = [cur EXCEPT ![q] = Len(attempts) + 1] /\ IsFollowup(t)
    BY <2>a
  <2>2. attempts'[Len(attempts) + 1] = [task |-> t, by |-> q]
    BY <1>0, <2>1, LeaseAppends, Zenon
  <2>3. ~Pushed(t)
    BY <2>1 DEF IsFollowup, Apart, PushedApart
  <2>. QED
    BY <1>0, <2>1, <2>2, <2>3 DEF RunTypes
<1>4. CASE Agents(q)
  <2>1. Policy[Mine(q)] # "push" /\ UNCHANGED <<attempts, cur>>
    BY <1>0, <1>4 DEF Agents, ByPr
  <2>. QED
    BY <2>1 DEF Pushed
<1>5. CASE PrepareFollowup(q) \/ PutBack(q) \/ Followup(q) \/ OpenPr(q)
  BY <1>0, <1>1, <1>5 DEF PrepareFollowup, PutBack, Followup, OpenPr, ByPr
<1>6. CASE Note(q)
  BY <1>0, <1>1, <1>6 DEF Note, Noting, AfterNote, NoteFailed, ByPr
<1>7. CASE MoveOn(q)
  BY <1>0, <1>7 DEF MoveOn, Moving, AfterMove, MoveFailed, ByPr
<1>8. CASE Start(q) \/ Crash(q) \/ StartCycle(q) \/ Select(q) \/ Peek(q) \/ Preflight(q)
           \/ Refuse(q) \/ CreateBranch(q) \/ CheckLease(q) \/ Merge(q) \/ Cleanup(q) \/ CycleError(q)
           \/ EndRun(q)
  BY <1>0, <1>8 DEF ByPr, Start, Crash, StartCycle, Select, Peek, Preflight, Refuse, CreateBranch, CheckLease,
    Merge, Cleanup, CycleError, EndRun
<1>. QED
  BY <1>2, <1>3, <1>4, <1>5, <1>6, <1>7, <1>8, PlaceSteps DEF CycleStep

\* Owed after the step.
OwedNext(a) == \E why \in Reason : <<a, why>> \in cut'

LEMMA OwedKept ==
  ASSUME Next, NEW a, Owed(a) PROVE OwedNext(a)
BY HistoryKept DEF Owed, OwedNext

\* A run that lands a pushed task under a lease keeps it, or its lease runs out and the
\* landing is owed again.
LEMMA HolderKeeps ==
  ASSUME Types, LeasesMatch, RunsOwn, Apart, Next, NEW p \in Process, pc[p] \in Recording \cup {"merge"},
         Pushed(Mine(p)), Held(cur[p]), ~lapsed[Mine(p)],
         \/ pc'[p] = pc[p] /\ cur'[p] = cur[p]
         \/ Note(p)
         \/ Merge(p)
  PROVE  \/ lease'[Mine(p)] = cur[p] /\ ~lapsed'[Mine(p)] /\ state'[Mine(p)] = state[Mine(p)]
         \/ OwedNext(cur[p])
<1>. DEFINE t == Mine(p)
<1>0. cur[p] \in DOMAIN attempts /\ t \in Task /\ attempts[cur[p]].by = p /\ cur[p] # None /\ pc[p] \in Landing
  <2>1. pc[p] \in InRun
    BY DEF Recording, InRun, Working, Noting, Moving
  <2>2. pc[p] \in Landing
    BY DEF Recording, Landing
  <2>. QED
    BY <2>1, <2>2, RunHasClaim, AttemptTyped
<1>1. state[t] = "claimed" /\ lease[t] = cur[p]
  BY <1>0 DEF LeasesMatch
<1>2. CASE RowKept(t)
  <2>1. CASE LeaseLapses(t)
    <3>1. Cut({cur[p]}, "expired")
      BY <1>0, <1>1, <2>1 DEF LeaseLapses
    <3>. QED
      BY <3>1 DEF OwedNext, Reason
  <2>. QED
    BY <1>1, <1>2, <2>1 DEF RowKept
<1>3. ASSUME NEW q \in Process, ByHolder(q, t) PROVE FALSE
  <2>1. cur[q] = cur[p] /\ q = p
    <3>1. cur[q] = cur[p] /\ cur[q] # None
      BY <1>1, <1>3 DEF ByHolder
    <3>2. pc[q] \in InRun
      BY <1>3 DEF ByHolder, Refuse, EndRun, MoveOn, InRun, Preparing, Working
    <3>. QED
      BY <1>0, <3>1, <3>2, RunHasClaim
  <2>2. ~(Note(p) \/ Merge(p))
    <3>1. CASE Refuse(p) \/ EndRun(p)
      BY <3>1 DEF Refuse, EndRun, Recording
    <3>2. CASE MoveOn(p)
      BY <3>2 DEF MoveOn, Moving, Note, Noting, Merge
    <3>. QED
      BY <1>3, <2>1, <3>1, <3>2 DEF ByHolder
  <2>3. pc'[p] # pc[p]
    <3>1. CASE Refuse(p) \/ EndRun(p)
      BY <3>1 DEF Refuse, EndRun, Types
    <3>2. CASE MoveOn(p)
      BY <3>2 DEF MoveOn, Moving, AfterMove, MoveFailed, Types
    <3>. QED
      BY <1>3, <2>1, <3>1, <3>2 DEF ByHolder
  <2>. QED
    BY <2>2, <2>3
<1>4. ~BySweep(t)
  BY <1>0, <1>1 DEF BySweep, Swept
<1>5. ~Unblock(t) /\ ~Confirm(t)
  BY <1>1 DEF Unblock, Confirm
<1>. QED
  BY <1>0, <1>1, <1>2, <1>3, <1>4, <1>5, PushedRow

LEMMA LandingHeldNext ==
  ASSUME Types, LeasesMatch, RunsOwn, Apart, LandingHeld, Next PROVE LandingHeld'
<1>. DEFINE Good(q, a) == OwedNext(a) \/ (lease'[attempts'[a].task] = a /\ ~lapsed'[attempts'[a].task])
<1>0. pc \in [Process -> Place] /\ RunTypes /\ DbTypes /\ Policy' = Policy
  BY SceneKept DEF Types, Policy
<1>1. ASSUME NEW q \in Process, pc'[q] \in Recording \cup {"merge"}, Policy[attempts'[cur'[q]].task] = "push"
      PROVE  Good(q, cur'[q])
  <2>1. ASSUME pc[q] \in Recording \cup {"merge"}, cur'[q] = cur[q],
               (pc'[q] = pc[q] /\ cur'[q] = cur[q]) \/ Note(q) \/ Merge(q)
        PROVE  Good(q, cur'[q])
    <3>1. cur[q] \in DOMAIN attempts
      BY <2>1, RunHasClaim DEF Recording, InRun, Working, Noting, Moving
    <3>2. attempts'[cur[q]] = attempts[cur[q]]
      BY <3>1, AttemptsKept
    <3>3. Pushed(Mine(q))
      BY <1>1, <2>1, <3>2 DEF Pushed
    <3>4. CASE Owed(cur[q])
      BY <2>1, <3>4, OwedKept
    <3>5. CASE Held(cur[q]) /\ ~lapsed[Mine(q)]
      BY <2>1, <3>2, <3>3, <3>5, HolderKeeps
    <3>. QED
      BY <2>1, <3>3, <3>4, <3>5 DEF LandingHeld
  <2>2. CASE pc'[q] = pc[q] /\ cur'[q] = cur[q]
    BY <1>1, <2>1, <2>2
  <2>3. CASE CheckLease(q)
    <3>1. /\ Held(cur[q]) /\ lapsed' = [lapsed EXCEPT ![Mine(q)] = FALSE] /\ UNCHANGED <<lease, attempts, cur>>
      BY <1>0, <1>1, <2>3 DEF CheckLease, Recording
    <3>2. Mine(q) \in Task
      BY <2>3, RunHasClaim DEF CheckLease, InRun, Working
    <3>. QED
      BY <1>0, <3>1, <3>2 DEF DbTypes
  <2>4. CASE Merge(q)
    BY <2>1, <2>4 DEF Merge
  <2>5. CASE Note(q)
    <3>1. pc[q] = "noteLanded" /\ cur'[q] = cur[q]
      BY <1>0, <1>1, <2>5 DEF Note, Noting, AfterNote, NoteFailed, Recording
    <3>. QED
      BY <2>1, <2>5, <3>1 DEF Recording
  <2>6. CASE MoveOn(q)
    <3>1. pc[q] = "finish" /\ UNCHANGED <<attempts, cur>>
      BY <1>0, <1>1, <2>6 DEF MoveOn, Moving, AfterMove, MoveFailed, Recording
    <3>2. Refused(q, "finish") \/ Unreachable(q, "finish")
      BY <1>0, <1>1, <2>6, <3>1 DEF MoveOn, MoveOf, AfterMove, Recording
    <3>3. CASE Refused(q, "finish")
      BY <1>1, <3>1, <3>3, OwedKept DEF Refused, LandingHeld, Recording, Pushed
    <3>4. CASE Unreachable(q, "finish")
      BY <3>1, <3>4 DEF Unreachable, OwedNext, Reason
    <3>. QED
      BY <3>2, <3>3, <3>4
  <2>7. ASSUME Start(q) \/ Crash(q) \/ StartCycle(q) \/ Select(q) \/ Peek(q) \/ Claim(q)
               \/ Preflight(q) \/ PrepareFollowup(q) \/ Refuse(q) \/ PutBack(q) \/ CreateBranch(q) \/ Agents(q)
               \/ Followup(q) \/ OpenPr(q) \/ Cleanup(q) \/ CycleError(q) \/ EndRun(q)
        PROVE  FALSE
    BY <1>0, <1>1, <2>7 DEF Recording, Start, Crash, StartCycle, Select, Peek, Claim, Preflight,
      PrepareFollowup, Refuse, PutBack, CreateBranch, Agents, Followup, OpenPr, Cleanup, CycleError, EndRun
  <2>. HIDE DEF Good
  <2>. QED
    BY <2>2, <2>3, <2>4, <2>5, <2>6, <2>7, PlaceSteps DEF CycleStep
<1>. QED
  BY <1>0, <1>1 DEF LandingHeld, Pushed, Owed, OwedNext

LEMMA UnpushedOwedNext ==
  ASSUME Types, RunsOwn, UnpushedOwed, Next PROVE UnpushedOwed'
<1>0. main \in [Process -> SUBSET (DOMAIN attempts)] /\ landed \subseteq landed'
  BY LandedKept DEF Types, TreeTypes
<1>1. ASSUME NEW q \in Process, NEW a \in main[q], a \notin landed' PROVE OwedNext(a)
  BY <1>0, <1>1, OwedKept DEF UnpushedOwed
<1>. DEFINE Goal == \A q \in Process : \A a \in main'[q] \ landed' : OwedNext(a)
<1>2. UNCHANGED main => Goal
  BY <1>1
<1>3. ASSUME NEW p \in Process, Preflight(p) \/ CreateBranch(p) PROVE Goal
  <2>1. \A q \in Process : main'[q] \subseteq main[q] \cup landed
    BY <1>0, <1>3 DEF Preflight, CreateBranch
  <2>. QED
    BY <1>0, <1>1, <2>1
<1>4. ASSUME NEW p \in Process, Merge(p) PROVE Goal
  <2>1. \A q \in Process : main'[q] \subseteq main[q] \cup (IF q = p THEN {cur[p]} ELSE {})
    BY <1>0, <1>4 DEF Merge
  <2>2. main'[p] = main[p] \/ cur[p] \in landed' \/ OwedNext(cur[p])
    BY <1>0, <1>4 DEF Merge, OwedNext, Reason
  <2>. QED
    BY <1>1, <2>1, <2>2
<1>5. ASSUME NEW p \in Process, Crash(p) PROVE Goal
  <2>1. \A q \in Process : main'[q] \subseteq main[q] \cup (IF q = p /\ pc[p] = "merge" THEN {cur[p]} ELSE {})
    BY <1>0, <1>5 DEF Crash
  <2>2. pc[p] = "merge" => OwedNext(cur[p])
    BY <1>5 DEF Crash, Landing, OwedNext, Reason
  <2>. QED
    BY <1>1, <2>1, <2>2
<1>6. ASSUME NEW p \in Process,
             Start(p) \/ LockLost(p) \/ StartCycle(p) \/ Select(p) \/ Peek(p) \/ Claim(p)
             \/ PrepareFollowup(p) \/ Refuse(p) \/ PutBack(p) \/ Agents(p) \/ Followup(p) \/ CheckLease(p)
             \/ OpenPr(p)
      PROVE  UNCHANGED main
  BY <1>6 DEF Start, LockLost, StartCycle, Select, Peek, Claim, PrepareFollowup, Refuse, PutBack, Agents,
    Followup, CheckLease, OpenPr
<1>7. ASSUME NEW p \in Process,
             Note(p) \/ MoveOn(p) \/ Cleanup(p) \/ CycleError(p) \/ EndRun(p) \/ Heartbeat(p)
             \/ RecStart(p) \/ RecView(p) \/ RecAct(p) \/ Watchdog(p) \/ UserPause(p) \/ Resume(p)
             \/ ResumeWatch(p) \/ ResetTree(p)
      PROVE  UNCHANGED main
  BY <1>7 DEF Note, MoveOn, Cleanup, CycleError, EndRun, Heartbeat, RecStart, RecView, RecAct, Watchdog,
    UserPause, Resume, ResumeWatch, ResetTree
<1>8. ASSUME NEW t \in Task, TaskStep(t) PROVE UNCHANGED main
  BY <1>8 DEF TaskStep, LeaseLapses, PrMerges, PrCloses, ReviewerAsks, Unblock, Confirm
<1>9. ASSUME SweepElsewhere PROVE UNCHANGED main
  BY <1>9 DEF SweepElsewhere
<1>10. Goal
  <2>. HIDE DEF Goal
  <2>. QED
    BY <1>3, <1>4, <1>5, <1>6, <1>7, <1>8, <1>9, <1>2 DEF Next, ProcessStep, CycleStep
<1>. QED
  BY <1>10 DEF UnpushedOwed, Owed, OwedNext

\* Nobody claims a pushed task that is done, blocked, or held under a lease that has not run out.
LEMMA NotClaimed ==
  ASSUME Types, LeasesMatch, RunsOwn, Next, NEW t \in Task,
         state[t] \in {"done", "blocked"} \/ (state[t] = "claimed" /\ ~lapsed[t]),
         NEW b \in AttemptsAt(t)'
  PROVE  b \in AttemptsAt(t)
<1>0. EvidenceTypes /\ ~lapsed[t]
  BY DEF Types, LeasesMatch
<1>1. CASE UNCHANGED attempts
  BY <1>1 DEF AttemptsAt
<1>2. ASSUME NEW p \in Process, NEW u \in Task, NEW third, Lease(p, u, third) PROVE b \in AttemptsAt(t)
  <2>1. /\ DOMAIN attempts' = DOMAIN attempts \cup {Len(attempts) + 1}
        /\ \A a \in DOMAIN attempts : attempts'[a] = attempts[a]
        /\ attempts'[Len(attempts) + 1] = [task |-> u, by |-> p]
    BY <1>0, <1>2, LeaseAppends, Zenon
  <2>2. u # t
    BY <1>0, <1>2 DEF Lease, FirstOf, Swept
  <2>. QED
    BY <2>1, <2>2 DEF AttemptsAt
<1>. QED
  BY <1>1, <1>2, RowSteps

\* Done and blocked stand for a pushed task, until a person hands it back.
LEMMA SettledStays ==
  ASSUME Types, LeasesMatch, RunsOwn, Apart, Next, NEW t \in Task, Pushed(t), state[t] \in {"done", "blocked"},
         NEW a \in AttemptsAt(t), ~OwedNext(a)
  PROVE  state'[t] \in {"done", "blocked"}
<1>0. DbTypes /\ lease[t] = None /\ ~lapsed[t]
  BY DEF Types, LeasesMatch
<1>1. CASE RowKept(t)
  BY <1>1 DEF RowKept
<1>2. ASSUME NEW p \in Process, ByHolder(p, t) PROVE FALSE
  BY <1>0, <1>2 DEF ByHolder
<1>3. ~BySweep(t)
  BY <1>0 DEF BySweep, Swept
<1>4. ~Unblock(t)
  BY DEF Unblock, OwedNext, Reason
<1>5. CASE Confirm(t)
  BY <1>0, <1>5 DEF Confirm, DbTypes
<1>. QED
  BY <1>1, <1>2, <1>3, <1>4, <1>5, PushedRow

\* A run that has pushed and owes nothing records it: its task is still its own, or done, or
\* blocked for a person.
LEMMA RecordingStays ==
  ASSUME Types, LeasesMatch, RunsOwn, Apart, LandingHeld, Next, NEW p \in Process, pc[p] \in Recording,
         Pushed(Mine(p)), ~OwedNext(cur[p])
  PROVE  \/ state'[Mine(p)] \in {"done", "blocked"}
         \/ lease'[Mine(p)] = cur[p] /\ cur'[p] = cur[p] /\ pc'[p] \in Recording
<1>0. /\ pc \in [Process -> Place] /\ RunTypes /\ DbTypes /\ cur[p] \in DOMAIN attempts /\ Mine(p) \in Task
      /\ Held(cur[p]) /\ ~lapsed[Mine(p)]
  <2>1. ~Owed(cur[p])
    BY OwedKept
  <2>2. pc[p] \in InRun
    BY DEF Recording, InRun, Working, Noting, Moving
  <2>. QED
    BY <2>1, <2>2, RunHasClaim DEF LandingHeld, Types
<1>1. CASE pc'[p] = pc[p] /\ cur'[p] = cur[p]
  BY <1>0, <1>1, HolderKeeps
<1>2. CASE Note(p)
  <2>1. pc'[p] \in Recording /\ cur'[p] = cur[p]
    BY <1>0, <1>2 DEF Note, Noting, AfterNote, NoteFailed, Recording
  <2>. QED
    BY <1>0, <1>2, <2>1, HolderKeeps
<1>3. CASE Crash(p)
  BY <1>3 DEF Crash, Landing, Recording, OwedNext, Reason
<1>4. CASE MoveOn(p)
  <2>1. CASE pc[p] = "finish"
    <3>1. CASE Make("finish", Mine(p))
      BY <1>0, <3>1 DEF ToState, DbTypes
    <3>2. CASE Refused(p, "finish") /\ pc'[p] = "flagLanded" /\ cur'[p] = cur[p]
      BY <1>0, <3>2 DEF Refused, Recording
    <3>3. CASE Unreachable(p, "finish")
      BY <3>3 DEF Unreachable, OwedNext, Reason
    <3>. QED
      BY <1>0, <1>4, <2>1, <3>1, <3>2, <3>3 DEF MoveOn, MoveOf, MoveFailed, Moved
  <2>2. CASE pc[p] = "flagLanded"
    <3>1. CASE Make("flag", Mine(p))
      BY <1>0, <3>1 DEF ToState, DbTypes
    <3>2. ~Refused(p, "flag")
      BY <1>0 DEF Refused, GuardPasses
    <3>3. CASE Unreachable(p, "flag")
      BY <3>3 DEF Unreachable, OwedNext, Reason
    <3>. QED
      BY <1>4, <2>2, <3>1, <3>2, <3>3 DEF MoveOn, MoveOf, Moved
  <2>. QED
    BY <1>4, <2>1, <2>2 DEF MoveOn, Moving, Recording
<1>5. ASSUME Start(p) \/ StartCycle(p) \/ Select(p) \/ Peek(p) \/ Claim(p) \/ Preflight(p) \/ PrepareFollowup(p)
             \/ Refuse(p) \/ PutBack(p) \/ CreateBranch(p) \/ Agents(p) \/ Followup(p) \/ CheckLease(p)
             \/ Merge(p) \/ OpenPr(p) \/ Cleanup(p) \/ CycleError(p) \/ EndRun(p)
      PROVE  FALSE
  BY <1>5 DEF Recording, Start, StartCycle, Select, Peek, Claim, Preflight, PrepareFollowup, Refuse, PutBack,
    CreateBranch, Agents, Followup, CheckLease, Merge, OpenPr, Cleanup, CycleError, EndRun
<1>. QED
  BY <1>1, <1>2, <1>3, <1>4, <1>5, PlaceSteps DEF CycleStep

LEMMA LandedIsLastNext ==
  ASSUME Types, LeasesMatch, RunsOwn, PrsTrue, LandingInv, Next PROVE LandedIsLast'
<1>. USE DEF LandingInv
<1>. DEFINE Last(a) == /\ \A b \in AttemptsAt(attempts[a].task)' : b <= a
                       /\ \/ state'[attempts[a].task] \in {"done", "blocked"}
                          \/ /\ lease'[attempts[a].task] = a
                             /\ \E p \in Process : cur'[p] = a /\ pc'[p] \in Recording
<1>0. landed \subseteq DOMAIN attempts /\ DbTypes /\ Policy' = Policy
  BY SceneKept DEF Types, OriginTypes, Policy
<1>1. ASSUME NEW a \in landed, Pushed(TaskOf(a)), ~OwedNext(a) PROVE Last(a)
  <2>. PICK t \in Task : t = attempts[a].task
    BY <1>0, AttemptTyped
  <2>0. ~Owed(a) /\ a \in AttemptsAt(t) /\ a # None /\ attempts'[a] = attempts[a]
    BY <1>0, <1>1, OwedKept, AttemptTyped, AttemptsKept DEF AttemptsAt
  <2>1. CASE state[t] \in {"done", "blocked"}
    <3>1. state'[t] \in {"done", "blocked"}
      BY <1>1, <2>0, <2>1, SettledStays
    <3>2. \A b \in AttemptsAt(t)' : b \in AttemptsAt(t)
      BY <2>0, <2>1, NotClaimed
    <3>3. \A b \in AttemptsAt(t) : b <= a
      BY <1>1, <2>0 DEF LandedIsLast
    <3>. QED
      BY <2>0, <3>1, <3>2, <3>3 DEF AttemptsAt
  <2>2. ASSUME Held(a), NEW p \in Process, cur[p] = a, pc[p] \in Recording PROVE Last(a)
    <3>1. ~lapsed[t] /\ state[t] = "claimed"
      BY <1>1, <2>0, <2>2 DEF LandingHeld, LeasesMatch
    <3>2. \A b \in AttemptsAt(t)' : b \in AttemptsAt(t)
      BY <2>0, <3>1, NotClaimed
    <3>3. \A b \in AttemptsAt(t) : b <= a
      BY <1>1, <2>0 DEF LandedIsLast
    <3>4. \/ state'[t] \in {"done", "blocked"}
          \/ lease'[t] = a /\ cur'[p] = a /\ pc'[p] \in Recording
      BY <1>1, <2>2, RecordingStays
    <3>. QED
      BY <2>0, <3>2, <3>3, <3>4 DEF AttemptsAt
  <2>. QED
    BY <1>1, <2>0, <2>1, <2>2 DEF LandedIsLast
<1>2. ASSUME NEW a \in landed', a \notin landed, a \in DOMAIN attempts, Pushed(TaskOf(a)), ~OwedNext(a) PROVE Last(a)
  <2>1. PICK p \in Process : Merge(p)
    <3>1. ASSUME NEW t \in Task, PrMerges(t) PROVE FALSE
      <4>1. a = opener[t] /\ pr[t] = "open"
        BY <1>2, <3>1 DEF PrMerges
      <4>2. TaskOf(a) = t
        BY <4>1 DEF PrsTrue
      <4>. QED
        BY <1>2, <4>1, <4>2 DEF Apart, PushedApart
    <3>. QED
      BY <1>2, <3>1, OriginSteps DEF OpenPr, PrCloses
  <2>2. main \in [Process -> SUBSET (DOMAIN attempts)] /\ ~Owed(a)
    BY <1>2, OwedKept DEF Types, TreeTypes
  <2>3. a \in main[p] \cup {cur[p]} /\ UNCHANGED <<db, attempts, cur>>
    BY <1>2, <2>1, <2>2 DEF Merge
  <2>4. a = cur[p]
    BY <1>2, <2>2, <2>3 DEF UnpushedOwed
  <2>5. pc[p] = "merge" /\ pc'[p] \in Recording
    BY <1>2, <2>1, <2>4 DEF Merge, OwedNext, Reason, Recording, Types
  <2>6. Held(a)
    BY <1>2, <2>2, <2>4, <2>5 DEF LandingHeld
  <2>7. TaskOf(a) \in Task /\ a # None
    BY <1>2, AttemptTyped
  <2>8. \A b \in AttemptsAt(TaskOf(a)) : b <= a
    BY <2>6, <2>7 DEF LeaseIsLast
  <2>. QED
    BY <2>3, <2>4, <2>5, <2>6, <2>8 DEF AttemptsAt
<1>3. ASSUME NEW a \in landed' PROVE a \in DOMAIN attempts
  <2>1. ASSUME NEW p \in Process, Merge(p) PROVE a \in DOMAIN attempts
    <3>1. cur[p] \in DOMAIN attempts
      BY <2>1, RunHasClaim DEF Merge, InRun, Working
    <3>. QED
      BY <1>0, <1>3, <2>1, <3>1 DEF Merge, Types, TreeTypes
  <2>2. ASSUME NEW t \in Task, PrMerges(t) PROVE a \in DOMAIN attempts
    BY <1>0, <1>3, <2>2 DEF PrMerges, PrsTrue, Types, OriginTypes
  <2>. QED
    BY <1>0, <1>3, <2>1, <2>2, OriginSteps DEF OpenPr, PrCloses
<1>. SUFFICES ASSUME NEW a \in landed', Policy[attempts'[a].task] = "push", ~OwedNext(a)
              PROVE  /\ \A b \in AttemptsAt(attempts[a].task)' : b <= a
                     /\ \/ state'[attempts'[a].task] \in {"done", "blocked"}
                        \/ /\ lease'[attempts'[a].task] = a
                           /\ \E p \in Process : cur'[p] = a /\ pc'[p] \in Recording
  BY <1>0 DEF LandedIsLast, Pushed, Owed, OwedNext
<1>4. a \in DOMAIN attempts /\ attempts'[a] = attempts[a]
  BY <1>3, AttemptsKept
<1>5. Last(a)
  <2>. HIDE DEF Last
  <2>. QED
    BY <1>1, <1>2, <1>4 DEF Pushed
<1>. QED
  BY <1>4, <1>5 DEF AttemptsAt

\* merge.ts, errors.ts, hooks.ts: an attempt that landed a pushed task is its last that lands,
\* unless its lease ran out, its worker or the database was lost or its push failed while it
\* landed, or a person handed the task back.
THEOREM PushedTasksLandOnce == Spec => []LandsOnce
<1>. DEFINE Inv == WorkerInv /\ LandingInv
<1>1. Init => Inv
  <2>1. Init => LandingInv
    BY DEF Init, LandingInv, Apart, PushedApart, RecsApart, PlacesApart, ByPr, LandingHeld, Recording,
      UnpushedOwed,
      LeaseIsLast, LandedIsLast, AttemptsAt, NoRec
  <2>. QED
    BY <2>1, WorkerInvInit
<1>2. Inv /\ [Next]_<<vars, scene>> => Inv'
  <2>. SUFFICES ASSUME Inv, [Next]_<<vars, scene>> PROVE Inv'
    OBVIOUS
  <2>1. WorkerInv'
    BY WorkerInvNext
  <2>2. CASE Next
    <3>1. Types /\ LeasesMatch /\ RunsOwn /\ PrsTrue /\ LandingInv
      BY DEF WorkerInv, Shaped, WitnessesTrue
    <3>2. Apart'
      BY <2>2, <3>1, PushedApartNext, RecsApartNext, PlacesApartNext DEF LandingInv, Apart
    <3>3. LandingHeld' /\ UnpushedOwed' /\ LeaseIsLast' /\ LandedIsLast'
      BY <2>2, <3>1, LandingHeldNext, UnpushedOwedNext, LeaseIsLastNext, LandedIsLastNext DEF LandingInv
    <3>. QED
      BY <2>1, <3>2, <3>3 DEF LandingInv
  <2>3. CASE UNCHANGED <<vars, scene>>
    BY <2>1, <2>3 DEF LandingInv, Apart, PushedApart, RecsApart, PlacesApart, LandingHeld, UnpushedOwed,
      LeaseIsLast,
      LandedIsLast, AttemptsAt, Pushed, Policy, Owed, vars
  <2>. QED
    BY <2>2, <2>3
<1>3. Inv => LandsOnce
  <2>. SUFFICES ASSUME Inv, NEW a \in landed, NEW b \in landed, a < b, TaskOf(a) = TaskOf(b), Pushed(TaskOf(a)), ~Owed(a)
                PROVE  FALSE
    BY DEF LandsOnce, Pushed, Owed
  <2>1. a \in Nat /\ b \in Nat /\ b \in AttemptsAt(TaskOf(a))
    BY AttemptTyped DEF WorkerInv, Shaped, Types, OriginTypes, AttemptsAt
  <2>2. b <= a
    BY <2>1 DEF LandingInv, LandedIsLast
  <2>. QED
    BY <2>1, <2>2
<1>. QED
  BY <1>1, <1>2, <1>3, PTL DEF Spec

=============================================================================
