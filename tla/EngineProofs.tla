---------------------------- MODULE EngineProofs ----------------------------
(***************************************************************************)
(* The protocols with the database, proved for every number of clients,     *)
(* sessions, writers and tasks.  Each part is proved sound from its own      *)
(* Init and Next; Engine runs one of them and leaves the others as they      *)
(* began, so it keeps what each part keeps.                                  *)
(***************************************************************************)
EXTENDS Engine, DataTheorems, Sequences

----------------------------------------------------------------------------
(* Activation of a lifecycle version                                         *)

\* What each writer's transaction is: a task, and a state of its version to put it in.
TxOK ==
  \A p \in Writer :
    w[p].pc # "idle" => w[p].task \in Task /\ VerOf[p] \in DOMAIN Lc /\ w[p].to \in Lc[VerOf[p]].states

\* A writer shares the project row while its write is made and not committed, and only
\* under the version that is active; the activation's lock excludes them all, and while it
\* holds the task rows it has seen every task there is.
Fenced ==
  /\ share = {p \in Writer : w[p].pc = "commit"}
  /\ \A p \in share : VerOf[p] = active
  /\ excl = (act.pc # "idle")
  /\ excl => share = {} /\ act.to \in DOMAIN Lc
  /\ act.pc = "apply" => act.seen = A!Filed

ActInv ==
  /\ w \in [Writer -> [pc : {"idle", "row", "write", "commit"}, task : Task \cup {None},
                       to : {None} \cup UNION {Lc[v].states : v \in DOMAIN Lc}]]
  /\ act \in [pc : {"idle", "tasks", "apply"}, to : DOMAIN Lc \cup {None}, force : BOOLEAN, seen : SUBSET Task]
  /\ state \in [Task -> {None} \cup UNION {Lc[v].states : v \in DOMAIN Lc}]
  /\ TxOK /\ Fenced /\ ActivationSound

LEMMA ActInit == A!Init => ActInv
<1>. SUFFICES ASSUME A!Init PROVE ActInv
  OBVIOUS
<1>. USE LifecycleAssumption
<1>1. w \in [Writer -> [pc : {"idle", "row", "write", "commit"}, task : Task \cup {None},
                       to : {None} \cup UNION {Lc[v].states : v \in DOMAIN Lc}]]
  BY DEF A!Init, A!NoTx
<1>2. state \in [Task -> {None} \cup UNION {Lc[v].states : v \in DOMAIN Lc}]
  BY DEF A!Init
<1>2a. act \in [pc : {"idle", "tasks", "apply"}, to : DOMAIN Lc \cup {None}, force : BOOLEAN, seen : SUBSET Task]
  BY DEF A!Init, A!NoAct
<1>3. TxOK
  BY DEF A!Init, A!NoTx, TxOK
<1>4. Fenced
  BY DEF A!Init, A!NoTx, A!NoAct, Fenced
<1>5. A!TypeOK
  BY DEF A!Init, A!TypeOK, A!NoAct, A!Version, A!Filed
<1>6. A!StatesOfActive /\ A!LeaseIffLeased
  BY DEF A!Init, A!StatesOfActive, A!LeaseIffLeased, A!Filed
<1>7. A!SoundUnderActive
  BY DEF A!Init, A!SoundUnderActive
<1>. QED
  BY <1>1, <1>2, <1>2a, <1>3, <1>4, <1>5, <1>6, <1>7 DEF ActInv, ActivationSound

LEMMA ActNext == ActInv /\ [A!Next]_activationVars => ActInv'
<1>. SUFFICES ASSUME ActInv, [A!Next]_activationVars PROVE ActInv'
  OBVIOUS
<1>. USE LifecycleAssumption DEF A!Version, ActInv, ActivationSound, A!TypeOK
<1>0. ASSUME UNCHANGED <<active, state, leased>>
      PROVE  A!Filed' = A!Filed /\ A!StatesOfActive' /\ A!LeaseIffLeased' /\ A!SoundUnderActive'
  BY <1>0 DEF A!StatesOfActive, A!LeaseIffLeased, A!SoundUnderActive, A!Sound, A!Filed
<1>1. CASE UNCHANGED activationVars
  BY <1>0, <1>1 DEF activationVars, TxOK, Fenced
<1>2. ASSUME NEW t \in Task, A!Lapse(t) PROVE ActInv'
  BY <1>0, <1>2 DEF A!Lapse, TxOK, Fenced
<1>3. ASSUME NEW p \in Writer, NEW t \in Task, NEW to \in UNION {Lc[v].states : v \in DOMAIN Lc},
             A!Begin(p, t, to)
      PROVE  ActInv'
  <2>1. active \in DOMAIN Lc /\ VerOf[p] = active /\ to \in Lc[active].states
    BY <1>3 DEF A!Begin
  <2>. QED
    BY <1>0, <1>3, <2>1 DEF A!Begin, TxOK, Fenced
<1>4. ASSUME NEW p \in Writer, A!LockRow(p) PROVE ActInv'
  <2>1. w[p].task \in Task
    BY <1>4 DEF A!LockRow, TxOK
  <2>2. UNCHANGED <<active, state, leased, lapsed, share, excl, act>>
    BY <1>4 DEF A!LockRow
  <2>3. w[p].pc = "row" /\ rowOf' \in [Writer -> Task \cup {None}]
    BY <1>4, <2>1 DEF A!LockRow
  <2>4. CASE w' = [w EXCEPT ![p].pc = "write"]
    <3>1. \A q \in Writer : w'[q].task = w[q].task /\ w'[q].to = w[q].to /\ (w'[q].pc = "commit" <=> w[q].pc = "commit")
      BY <2>3, <2>4
    <3>2. \A q \in Writer : w'[q].pc # "idle" => w[q].pc # "idle"
      BY <2>3, <2>4
    <3>3. w' \in [Writer -> [pc : {"idle", "row", "write", "commit"}, task : Task \cup {None},
                       to : {None} \cup UNION {Lc[v].states : v \in DOMAIN Lc}]]
      BY <2>4
    <3>4. TxOK' /\ Fenced'
      BY <1>0, <2>2, <3>1, <3>2 DEF TxOK, Fenced
    <3>. QED
      BY <1>0, <2>2, <2>3, <3>3, <3>4
  <2>5. CASE w' = [w EXCEPT ![p] = A!NoTx]
    BY <1>0, <2>2, <2>3, <2>5 DEF A!NoTx, TxOK, Fenced
  <2>. QED
    BY <1>4, <2>4, <2>5 DEF A!LockRow
<1>5. ASSUME NEW p \in Writer, A!Write(p) PROVE ActInv'
  BY <1>0, <1>5 DEF A!Write, A!Fence, TxOK, Fenced
<1>6. ASSUME NEW p \in Writer, A!VersionMismatch(p) PROVE ActInv'
  BY <1>0, <1>6 DEF A!VersionMismatch, A!Rollback, A!NoTx, TxOK, Fenced
<1>7. ASSUME NEW p \in Writer, A!Commit(p) PROVE ActInv'
  <2>. DEFINE t == w[p].task
              s == [state EXCEPT ![t] = w[p].to]
  <2>1. /\ p \in share /\ VerOf[p] = active /\ ~excl /\ act.pc = "idle"
        /\ t \in Task /\ w[p].to \in Lc[active].states
    BY <1>7 DEF A!Commit, TxOK, Fenced
  <2>2. /\ w' = [w EXCEPT ![p] = A!NoTx] /\ share' = share \ {p}
        /\ rowOf' = [rowOf EXCEPT ![p] = None] /\ UNCHANGED <<active, excl, act>>
    BY <1>7 DEF A!Commit, A!Rollback
  <2>3. TxOK' /\ Fenced'
    BY <2>1, <2>2 DEF A!NoTx, TxOK, Fenced
  <2>4. w' \in [Writer -> [pc : {"idle", "row", "write", "commit"}, task : Task \cup {None},
                       to : {None} \cup UNION {Lc[v].states : v \in DOMAIN Lc}]]
    BY <2>2 DEF A!NoTx
  <2>5. CASE UNCHANGED <<state, leased, lapsed>>
    BY <1>0, <2>2, <2>3, <2>4, <2>5
  <2>6. CASE /\ A!Sound(VerOf[p], s) /\ state' = s
             /\ leased' = IF w[p].to = Lc[VerOf[p]].leased THEN leased \cup {t} ELSE leased \ {t}
             /\ lapsed' = lapsed \ {t}
    <3>1. A!SoundUnderActive'
      BY <2>1, <2>2, <2>6 DEF A!SoundUnderActive, A!Sound
    <3>2. state' \in [Task -> {None} \cup UNION {Lc[v].states : v \in DOMAIN Lc}]
      BY <2>1, <2>6
    <3>3. w[p].to # None /\ A!Filed' = A!Filed \cup {t}
      BY <2>1, <2>6, active \in DOMAIN Lc DEF A!Filed
    <3>4. A!StatesOfActive' /\ A!LeaseIffLeased'
      BY <2>1, <2>2, <2>6, <3>3 DEF A!StatesOfActive, A!LeaseIffLeased, A!Filed
    <3>5. A!TypeOK'
      BY <2>2, <2>6, <3>3
    <3>. QED
      BY <2>2, <2>3, <2>4, <3>1, <3>2, <3>4, <3>5
  <2>. QED
    BY <1>7, <2>5, <2>6 DEF A!Commit
<1>8. ASSUME NEW v \in DOMAIN Lc, NEW force \in BOOLEAN, A!Activate(v, force) PROVE ActInv'
  BY <1>0, <1>8 DEF A!Activate, TxOK, Fenced
<1>9. CASE A!LockTasks
  <2>1. A!Filed \subseteq Task
    BY DEF A!Filed
  <2>. QED
    BY <1>0, <1>9, <2>1 DEF A!LockTasks, TxOK, Fenced
<1>10. CASE A!Deadlock
  <2>1. UNCHANGED <<active, state, leased, lapsed>>
    BY <1>10 DEF A!Deadlock
  <2>2. ASSUME NEW p \in Writer, w[p].pc = "write", A!Rollback(p), UNCHANGED <<act, excl>> PROVE ActInv'
    BY <1>0, <2>1, <2>2 DEF A!Rollback, A!NoTx, TxOK, Fenced
  <2>3. ASSUME act' = A!NoAct, excl' = FALSE, UNCHANGED <<w, rowOf, share>> PROVE ActInv'
    BY <1>0, <2>1, <2>3 DEF A!NoAct, TxOK, Fenced
  <2>. QED
    BY <1>10, <2>2, <2>3 DEF A!Deadlock
<1>11. CASE A!Apply
  <2>1. /\ act' = A!NoAct /\ excl' = FALSE /\ UNCHANGED <<share, rowOf, w>>
        /\ share = {} /\ act.to \in DOMAIN Lc /\ act.seen = A!Filed
    BY <1>11 DEF A!Apply, Fenced
  <2>2. TxOK' /\ Fenced'
    BY <2>1 DEF TxOK, Fenced, A!NoAct
  <2>3. act' \in [pc : {"idle", "tasks", "apply"}, to : DOMAIN Lc \cup {None}, force : BOOLEAN, seen : SUBSET Task]
    BY <2>1 DEF A!NoAct
  <2>4. CASE UNCHANGED <<active, state, leased, lapsed>>
    BY <1>0, <2>1, <2>2, <2>3, <2>4
  <2>5. CASE /\ ~A!Refused(act.to, act.force)
             /\ active' = act.to /\ state' = A!After(act.to)
             /\ leased' = A!LeasesLeft(act.to) /\ lapsed' = lapsed \cap leased'
    <3>1. \A t \in act.seen : A!After(act.to)[t] \in Lc[act.to].states \ {Lc[act.to].leased}
      <4>. SUFFICES ASSUME NEW t \in act.seen PROVE A!After(act.to)[t] \in Lc[act.to].states \ {Lc[act.to].leased}
        OBVIOUS
      <4>1. t \in Task /\ A!After(act.to)[t] # Lc[act.to].leased
        BY <2>5 DEF A!Refused, A!Broken
      <4>2. t \notin A!Unmapped(act.to)
        BY <2>5 DEF A!Refused
      <4>3. \A m \in DOMAIN A!MapFor(act.to) : A!MapFor(act.to)[m] \in Lc[act.to].states
        BY <2>1 DEF A!MapFor
      <4>. QED
        BY <2>1, <4>1, <4>2, <4>3 DEF A!Unmapped, A!After
    <3>2. \A t \in Task \ act.seen : A!After(act.to)[t] = state[t]
      BY DEF A!After
    <3>3. A!Filed' = A!Filed
      BY <2>1, <2>5, <3>1, <3>2 DEF A!Filed
    <3>4. A!StatesOfActive'
      BY <2>1, <2>5, <3>1, <3>3 DEF A!StatesOfActive
    <3>5. leased' = {}
      BY <2>1, <2>5 DEF A!LeasesLeft
    <3>6. A!LeaseIffLeased'
      BY <2>1, <2>5, <3>1, <3>3, <3>5 DEF A!LeaseIffLeased
    <3>7. A!SoundUnderActive'
      BY <2>5 DEF A!Refused, A!Broken, A!SoundUnderActive, A!Sound
    <3>8. state' \in [Task -> {None} \cup UNION {Lc[v].states : v \in DOMAIN Lc}]
      <4>1. A!After(act.to) = [t \in Task |-> A!After(act.to)[t]]
        BY DEF A!After
      <4>2. \A t \in Task : A!After(act.to)[t] \in {None} \cup UNION {Lc[v].states : v \in DOMAIN Lc}
        BY <2>1, <3>1, <3>2
      <4>. HIDE DEF A!After
      <4>. QED
        BY <2>5, <4>1, <4>2
    <3>9. A!TypeOK'
      BY <2>1, <2>3, <2>5, <3>5
    <3>. QED
      BY <2>1, <2>2, <2>3, <3>4, <3>6, <3>7, <3>8, <3>9
  <2>. QED
    BY <1>11, <2>4, <2>5 DEF A!Apply
<1>. QED
  BY <1>1, <1>2, <1>3, <1>4, <1>5, <1>6, <1>7, <1>8, <1>9, <1>10, <1>11 DEF A!Next, A!vars, activationVars

\* upgrade.ts activate and the trigger check_writer: with writes of every version under way,
\* no row slips past the activation in a state the new version lacks, no lease outlives it
\* outside the leased state, and the graph rules hold under the flags in force.
THEOREM ActivationFencesWrites == Spec => []ActivationSound
<1>1. Init => ActInv
  BY ActInit DEF Init
<1>2. ActInv /\ [Next]_<<part, requestVars, lockVars, activationVars, purgeVars, cancelVars, schemaVars>> => ActInv'
  <2>1. [Next]_<<part, requestVars, lockVars, activationVars, purgeVars, cancelVars, schemaVars>>
          => [A!Next]_activationVars
    BY DEF Next
  <2>. QED
    BY <2>1, ActNext
<1>3. ActInv => ActivationSound
  BY DEF ActInv
<1>. QED
  BY <1>1, <1>2, <1>3, PTL DEF Spec

----------------------------------------------------------------------------
(* Session locks                                                             *)

LockTypes ==
  /\ L!TypeOK
  /\ doing \in [Session -> [op : {"idle", "look", "lock", "unlock", "ask"}, key : Key \cup {None},
                            token : L!Token \cup {None}]]
  /\ \A s \in Session : doing[s] = L!Idle \/ (doing[s].op # "idle" /\ doing[s].key \in Key /\ doing[s].token \in L!Token)

\* A backend is behind one connection at most, the server has not ended it while it is, and
\* only such a backend holds a lock.
Backends ==
  /\ \A s \in Session : conn[s] # None => conn[s] \in backends
  /\ \A r, s \in Session : conn[r] # None /\ conn[r] = conn[s] => r = s
  /\ \A k \in Key : lock[k].pid # None => lock[k].pid \in backends

\* What a client knows of its locks: it tracks none it is asking for or giving back, it
\* knows its backend once that one holds a lock, and what it gives back is the lock's last
\* acquisition.
Tracked ==
  /\ \A s \in Session : doing[s].op \in {"lock", "unlock"} => tokens[s][doing[s].key] = None
  /\ \A s \in Session : closed[s] => doing[s] = L!Idle
  /\ \A s \in Session, k \in Key :
       conn[s] # None /\ lock[k].pid = conn[s] =>
         /\ pid[s] = conn[s]
         /\ doing[s].op = "unlock" /\ doing[s].key = k => lock[k].token = doing[s].token
  /\ \A a \in says : conn[a[1]] # None /\ tokens[a[1]][a[2]] = a[3]

LockInv == LockTypes /\ Backends /\ Tracked /\ L!ConfirmedIsHeld /\ L!NoLockLeaked

LEMMA LockInit == L!Init => LockInv
BY LockAssumption DEF L!Init, LockInv, LockTypes, L!TypeOK, L!Token, L!NoLock, L!Idle, Backends, Tracked,
                      L!ConfirmedIsHeld, L!NoLockLeaked

LEMMA LockNext == LockInv /\ [L!Next]_lockVars => LockInv'
<1>. SUFFICES ASSUME LockInv, [L!Next]_lockVars PROVE LockInv'
  OBVIOUS
<1>. USE LockAssumption DEF LockInv, LockTypes, L!TypeOK, L!Token, L!NoLock, L!Idle
<1>0. CASE UNCHANGED lockVars
  BY <1>0 DEF lockVars, Backends, Tracked, L!ConfirmedIsHeld, L!NoLockLeaked
<1>1. ASSUME NEW s \in Session, NEW p \in Pid, L!Connect(s, p) PROVE LockInv'
  <2>1. LockTypes'
    BY <1>1 DEF L!Connect
  <2>2. Backends'
    BY <1>1 DEF L!Connect, Backends
  <2>3. Tracked'
    BY <1>1 DEF L!Connect, Backends, Tracked, L!ConfirmedIsHeld, L!NoLockLeaked
  <2>4. L!ConfirmedIsHeld'
    BY <1>1 DEF L!Connect, Backends, Tracked, L!ConfirmedIsHeld, L!NoLockLeaked
  <2>5. L!NoLockLeaked'
    BY <1>1 DEF L!Connect, Backends, Tracked, L!NoLockLeaked
  <2>. QED
    BY <2>1, <2>2, <2>3, <2>4, <2>5
<1>2. ASSUME NEW s \in Session, L!Disconnect(s) PROVE LockInv'
  <2>1. LockTypes'
    BY <1>2 DEF L!Disconnect
  <2>2. Backends'
    BY <1>2 DEF L!Disconnect, Backends
  <2>3. Tracked'
    BY <1>2 DEF L!Disconnect, Backends, Tracked, L!ConfirmedIsHeld, L!NoLockLeaked
  <2>4. L!ConfirmedIsHeld'
    BY <1>2 DEF L!Disconnect, Backends, Tracked, L!ConfirmedIsHeld, L!NoLockLeaked
  <2>5. L!NoLockLeaked'
    BY <1>2 DEF L!Disconnect, Backends, Tracked, L!NoLockLeaked
  <2>. QED
    BY <2>1, <2>2, <2>3, <2>4, <2>5
<1>3. ASSUME NEW p \in Pid, L!ServerEnds(p) PROVE LockInv'
  <2>1. LockTypes'
    BY <1>3 DEF L!ServerEnds
  <2>2. Backends'
    BY <1>3 DEF L!ServerEnds, Backends
  <2>3. Tracked'
    BY <1>3 DEF L!ServerEnds, Backends, Tracked, L!ConfirmedIsHeld, L!NoLockLeaked
  <2>4. L!ConfirmedIsHeld'
    BY <1>3 DEF L!ServerEnds, Backends, Tracked, L!ConfirmedIsHeld, L!NoLockLeaked
  <2>5. L!NoLockLeaked'
    BY <1>3 DEF L!ServerEnds, Backends, Tracked, L!NoLockLeaked
  <2>. QED
    BY <2>1, <2>2, <2>3, <2>4, <2>5
<1>4. ASSUME NEW s \in Session, NEW k \in Key, L!Try(s, k) PROVE LockInv'
  <2>1. LockTypes'
    BY <1>4 DEF L!Try
  <2>2. Backends'
    BY <1>4 DEF L!Try, Backends
  <2>3. Tracked'
    BY <1>4 DEF L!Try, Backends, Tracked, L!ConfirmedIsHeld, L!NoLockLeaked
  <2>4. L!ConfirmedIsHeld'
    BY <1>4 DEF L!Try, Backends, Tracked, L!ConfirmedIsHeld, L!NoLockLeaked
  <2>5. L!NoLockLeaked'
    BY <1>4 DEF L!Try, Backends, Tracked, L!NoLockLeaked
  <2>. QED
    BY <2>1, <2>2, <2>3, <2>4, <2>5
<1>5. ASSUME NEW s \in Session, L!Look(s) PROVE LockInv'
  <2>1. LockTypes'
    <3>1. L!AfterExec(s) \in [Key -> L!Token \cup {None}]
      BY DEF L!AfterExec
    <3>2. L!TypeOK'
      BY <1>5, <3>1 DEF L!Look, L!Answered
    <3>3. CASE doing' = [doing EXCEPT ![s] = L!Idle]
      BY <3>2, <3>3
    <3>4. CASE doing' = [doing EXCEPT ![s].op = "lock"]
      BY <1>5, <3>2, <3>4 DEF L!Look
    <3>. QED
      BY <1>5, <3>3, <3>4 DEF L!Look, L!Ends
  <2>2. Backends'
    BY <1>5 DEF L!Look, L!Answered, L!AfterExec, L!Ends, Backends
  <2>3. Tracked'
    BY <1>5, SMTT(30) DEF L!Look, L!Answered, L!AfterExec, L!Ends, Backends, Tracked, L!ConfirmedIsHeld,
      L!NoLockLeaked
  <2>4. L!ConfirmedIsHeld'
    BY <1>5 DEF L!Look, L!Answered, L!AfterExec, L!Ends, Backends, Tracked, L!ConfirmedIsHeld, L!NoLockLeaked
  <2>5. L!NoLockLeaked'
    BY <1>5 DEF L!Look, L!Answered, L!AfterExec, L!Ends, Backends, Tracked, L!NoLockLeaked
  <2>. QED
    BY <2>1, <2>2, <2>3, <2>4, <2>5
<1>6. ASSUME NEW s \in Session, L!Lock(s) PROVE LockInv'
  <2>1. LockTypes'
    BY <1>6 DEF L!Lock, L!Answered, L!AfterExec, L!Ends
  <2>2. Backends'
    BY <1>6 DEF L!Lock, L!Answered, L!AfterExec, L!Ends, Backends
  <2>3. Tracked'
    BY <1>6 DEF L!Lock, L!Answered, L!AfterExec, L!Ends, Backends, Tracked, L!ConfirmedIsHeld, L!NoLockLeaked
  <2>4. L!ConfirmedIsHeld'
    BY <1>6 DEF L!Lock, L!Answered, L!AfterExec, L!Ends, Backends, Tracked, L!ConfirmedIsHeld, L!NoLockLeaked
  <2>5. L!NoLockLeaked'
    BY <1>6 DEF L!Lock, L!Answered, L!AfterExec, L!Ends, Backends, Tracked, L!NoLockLeaked
  <2>. QED
    BY <2>1, <2>2, <2>3, <2>4, <2>5
<1>7. ASSUME NEW s \in Session, NEW k \in Key, NEW t \in L!Token, L!Release(s, k, t) PROVE LockInv'
  <2>1. LockTypes'
    BY <1>7 DEF L!Release, L!Mine
  <2>2. Backends'
    BY <1>7 DEF L!Release, L!Mine, Backends
  <2>3. Tracked'
    BY <1>7 DEF L!Release, L!Mine, Backends, Tracked, L!ConfirmedIsHeld, L!NoLockLeaked
  <2>4. L!ConfirmedIsHeld'
    BY <1>7 DEF L!Release, L!Mine, Backends, Tracked, L!ConfirmedIsHeld, L!NoLockLeaked
  <2>5. L!NoLockLeaked'
    BY <1>7 DEF L!Release, L!Mine, Backends, Tracked, L!NoLockLeaked
  <2>. QED
    BY <2>1, <2>2, <2>3, <2>4, <2>5
<1>8. ASSUME NEW s \in Session, L!Unlock(s) PROVE LockInv'
  <2>1. LockTypes'
    BY <1>8 DEF L!Unlock, L!Answered, L!AfterExec, L!Ends, L!Freed
  <2>2. Backends'
    BY <1>8 DEF L!Unlock, L!Answered, L!AfterExec, L!Ends, L!Freed, Backends
  <2>3. Tracked'
    BY <1>8 DEF L!Unlock, L!Answered, L!AfterExec, L!Ends, L!Freed, Backends, Tracked, L!ConfirmedIsHeld,
      L!NoLockLeaked
  <2>4. L!ConfirmedIsHeld'
    BY <1>8 DEF L!Unlock, L!Answered, L!AfterExec, L!Ends, L!Freed, Backends, Tracked, L!ConfirmedIsHeld,
      L!NoLockLeaked
  <2>5. L!NoLockLeaked'
    BY <1>8 DEF L!Unlock, L!Answered, L!AfterExec, L!Ends, L!Freed, Backends, Tracked, L!NoLockLeaked
  <2>. QED
    BY <2>1, <2>2, <2>3, <2>4, <2>5
<1>9. ASSUME NEW s \in Session, NEW k \in Key, NEW t \in L!Token, L!Ask(s, k, t) PROVE LockInv'
  <2>1. LockTypes'
    BY <1>9 DEF L!Ask, L!Mine
  <2>2. Backends'
    BY <1>9 DEF L!Ask, L!Mine, Backends
  <2>3. Tracked'
    BY <1>9 DEF L!Ask, L!Mine, Backends, Tracked, L!ConfirmedIsHeld, L!NoLockLeaked
  <2>4. L!ConfirmedIsHeld'
    BY <1>9 DEF L!Ask, L!Mine, Backends, Tracked, L!ConfirmedIsHeld, L!NoLockLeaked
  <2>5. L!NoLockLeaked'
    BY <1>9 DEF L!Ask, L!Mine, Backends, Tracked, L!NoLockLeaked
  <2>. QED
    BY <2>1, <2>2, <2>3, <2>4, <2>5
<1>10. ASSUME NEW s \in Session, L!Confirm(s) PROVE LockInv'
  <2>1. LockTypes'
    BY <1>10 DEF L!Confirm, L!Answered, L!AfterExec, L!Ends, L!Confirms
  <2>2. Backends'
    BY <1>10 DEF L!Confirm, L!Answered, L!AfterExec, L!Ends, L!Confirms, Backends
  <2>3. Tracked'
    BY <1>10 DEF L!Confirm, L!Answered, L!AfterExec, L!Ends, L!Confirms, Backends, Tracked, L!ConfirmedIsHeld,
      L!NoLockLeaked
  <2>4. L!ConfirmedIsHeld'
    <3>. DEFINE k == doing[s].key
                t == doing[s].token
    <3>1. conn[s] # None /\ ~closed[s] /\ UNCHANGED <<conn, lock>>
      BY <1>10 DEF L!Confirm, L!Answered, Tracked
    <3>2. ASSUME L!Confirms(s, k, t) PROVE lock[k].pid = conn[s] /\ lock[k].token = t
      BY <1>10, <3>1, <3>2 DEF L!Confirm, L!Confirms, L!AfterExec, Tracked, L!NoLockLeaked
    <3>3. CASE L!Confirms(s, k, t)
      <4>1. says' = says \cup {<<s, k, t>>}
        BY <1>10, <3>3 DEF L!Confirm
      <4>. QED
        BY <3>1, <3>2, <3>3, <4>1 DEF L!ConfirmedIsHeld
    <3>4. CASE ~L!Confirms(s, k, t)
      BY <1>10, <3>1, <3>4 DEF L!Confirm, L!ConfirmedIsHeld
    <3>. QED
      BY <3>3, <3>4
  <2>5. L!NoLockLeaked'
    BY <1>10 DEF L!Confirm, L!Answered, L!AfterExec, L!Ends, L!Confirms, Backends, Tracked, L!NoLockLeaked
  <2>. QED
    BY <2>1, <2>2, <2>3, <2>4, <2>5
<1>11. ASSUME NEW s \in Session, L!Fails(s) PROVE LockInv'
  <2>1. /\ UNCHANGED <<conn, lock, backends, pid, closed, used, says>>
        /\ doing' = [doing EXCEPT ![s] = L!Idle]
    BY <1>11 DEF L!Fails, L!Ends
  <2>2. doing[s].key \in Key /\ doing[s].token \in L!Token
    BY <1>11 DEF L!Fails
  <2>3. CASE UNCHANGED tokens /\ (conn[s] = None \/ doing[s].op # "unlock")
    BY <2>1, <2>3 DEF Backends, Tracked, L!ConfirmedIsHeld, L!NoLockLeaked
  <2>4. CASE doing[s].op = "unlock" /\ conn[s] # None /\ tokens' = [tokens EXCEPT ![s][doing[s].key] = doing[s].token]
    <3>1. LockTypes'
      BY <2>1, <2>2, <2>4
    <3>2. Backends'
      BY <2>1 DEF Backends
    <3>3. Tracked'
      <4>1. \A r \in Session : doing'[r].op \in {"lock", "unlock"} => r # s /\ doing'[r] = doing[r] /\ tokens'[r] = tokens[r]
        BY <2>1, <2>4
      <4>2. \A r \in Session : closed'[r] => doing'[r] = L!Idle
        BY <2>1 DEF Tracked
      <4>3. \A a \in says : a \in Session \X Key \X L!Token /\ ~(a[1] = s /\ a[2] = doing[s].key)
        BY <2>2, <2>4 DEF Tracked
      <4>4. \A a \in says : conn[a[1]] # None /\ tokens'[a[1]][a[2]] = a[3]
        BY <2>4, <4>3 DEF Tracked
      <4>. QED
        BY <2>1, <4>1, <4>2, <4>4 DEF Tracked
    <3>4. L!ConfirmedIsHeld'
      BY <2>1 DEF L!ConfirmedIsHeld
    <3>5. L!NoLockLeaked'
      BY <2>1, <2>2, <2>4 DEF Backends, Tracked, L!NoLockLeaked
    <3>. QED
      BY <3>1, <3>2, <3>3, <3>4, <3>5
  <2>. QED
    BY <1>11, <2>3, <2>4 DEF L!Fails, L!TracksIt
<1>12. ASSUME NEW s \in Session, L!AnswerLost(s) PROVE LockInv'
  <2>1. LockTypes'
    BY <1>12 DEF L!AnswerLost, L!Ends, L!Freed
  <2>2. Backends'
    BY <1>12 DEF L!AnswerLost, L!Ends, L!Freed, Backends
  <2>3. Tracked'
    BY <1>12 DEF L!AnswerLost, L!Ends, L!Freed, Backends, Tracked, L!ConfirmedIsHeld, L!NoLockLeaked
  <2>4. L!ConfirmedIsHeld'
    BY <1>12 DEF L!AnswerLost, L!Ends, L!Freed, Backends, Tracked, L!ConfirmedIsHeld, L!NoLockLeaked
  <2>5. L!NoLockLeaked'
    BY <1>12 DEF L!AnswerLost, L!Ends, L!Freed, Backends, Tracked, L!NoLockLeaked
  <2>. QED
    BY <2>1, <2>2, <2>3, <2>4, <2>5
<1>13. ASSUME NEW s \in Session, L!Close(s) PROVE LockInv'
  <2>1. LockTypes'
    BY <1>13 DEF L!Close
  <2>2. Backends'
    BY <1>13 DEF L!Close, Backends
  <2>3. Tracked'
    BY <1>13 DEF L!Close, Backends, Tracked, L!ConfirmedIsHeld, L!NoLockLeaked
  <2>4. L!ConfirmedIsHeld'
    BY <1>13 DEF L!Close, Backends, Tracked, L!ConfirmedIsHeld, L!NoLockLeaked
  <2>5. L!NoLockLeaked'
    BY <1>13 DEF L!Close, Backends, Tracked, L!NoLockLeaked
  <2>. QED
    BY <2>1, <2>2, <2>3, <2>4, <2>5
<1>. QED
  BY <1>0, <1>1, <1>2, <1>3, <1>4, <1>5, <1>6, <1>7, <1>8, <1>9, <1>10, <1>11, <1>12, <1>13 DEF L!Next, L!vars,
    lockVars

\* session.ts: a client told that it holds a lock holds it until its connection goes, through
\* reconnects, reused process ids and answers lost on the way; and no lock on a live
\* connection is left that nobody would release.
THEOREM ConfirmedLocksAreHeld == Spec => []LocksTrue
<1>1. Init => LockInv
  BY LockInit DEF Init
<1>2. LockInv /\ [Next]_<<part, requestVars, lockVars, activationVars, purgeVars, cancelVars, schemaVars>> => LockInv'
  <2>1. [Next]_<<part, requestVars, lockVars, activationVars, purgeVars, cancelVars, schemaVars>>
          => [L!Next]_lockVars
    BY DEF Next
  <2>. QED
    BY <2>1, LockNext
<1>3. LockInv => LocksTrue
  BY DEF LockInv, LockTypes, LocksTrue
<1>. QED
  BY <1>1, <1>2, <1>3, PTL DEF Spec

----------------------------------------------------------------------------
(* Repeated requests                                                         *)

RequestTypes ==
  /\ events \subseteq {R!EventOf(c, x) : c \in Client, x \in Item}
  /\ tx \in [Client -> {R!NoTx} \cup [st : {"open", "inserted"}, item : Item]]
  /\ lost \subseteq [of : Client, st : {"open", "inserted"}, item : Item]
  /\ pc \in [Client -> {"lookup", "act", "running", "second", "caught", "done"}]
  /\ held \in [Client -> {"none", "unavailable", "refused", "error"}]
  /\ reply \in [Client -> R!Promise!Reply]

\* A transaction acts on a task of its call that no write has taken, and no other one is on.
RowsLocked ==
  /\ \A c \in Client : tx[c] # R!NoTx => tx[c].item \in R!Free \cap CallOf[c].items
  /\ \A l \in lost : l.item \in R!Free \cap CallOf[l.of].items
  /\ \A c, d \in Client : tx[c] # R!NoTx /\ tx[d] # R!NoTx /\ tx[c].item = tx[d].item => c = d
  /\ \A l, m \in lost : l.item = m.item => l = m
  /\ \A c \in Client, l \in lost : tx[c] # R!NoTx => tx[c].item # l.item

\* One transaction at most has inserted its event, under an id that no write has used.
InsertedAlone ==
  /\ \A c \in Client : tx[c].st = "inserted" => R!Prior(CallOf[c].id) = {}
  /\ \A l \in lost : l.st = "inserted" => R!Prior(CallOf[l.of].id) = {}
  /\ \A c, d \in Client : tx[c].st = "inserted" /\ tx[d].st = "inserted" => c = d
  /\ \A l, m \in lost : l.st = "inserted" /\ m.st = "inserted" => l = m
  /\ \A c \in Client, l \in lost : ~(tx[c].st = "inserted" /\ l.st = "inserted")

\* An id has one event, and a task one write.
OneWriteEach ==
  /\ \A e, f \in events : e.id = f.id => e = f
  /\ \A e, f \in events : e.item = f.item => e = f

\* A caller has an answer once its call is done; one about to be told that its write was
\* refused named a task that another write has taken, so its id never makes that write.
CallsTrue ==
  /\ \A c \in Client : pc[c] # "done" => reply[c] = R!NoReply
  /\ \A c \in Client : tx[c] # R!NoTx => pc[c] = "running"
  /\ \A c \in Client : held[c] = "refused" => CallOf[c].named /\ CallOf[c].items \cap R!Free = {}
  /\ \A c \in Client : held[c] = "refused" /\ pc[c] = "caught" =>
       \A e \in R!Prior(CallOf[c].id) : e.sig # CallOf[c].sig
  /\ \A c \in Client : held[c] # "none" => pc[c] \in {"second", "caught", "done"}

RequestInv == RequestTypes /\ RowsLocked /\ InsertedAlone /\ OneWriteEach /\ CallsTrue

LEMMA RequestInit == R!Init => RequestInv /\ R!Promise!Init
<1>. SUFFICES ASSUME R!Init PROVE RequestInv /\ R!Promise!Init
  OBVIOUS
<1>1. RequestTypes
  BY DEF R!Init, RequestTypes, R!NoTx, R!NoReply, R!Promise!Reply
<1>2. RowsLocked /\ InsertedAlone /\ OneWriteEach /\ CallsTrue
  BY DEF R!Init, RowsLocked, InsertedAlone, OneWriteEach, CallsTrue, R!NoTx, R!NoReply
<1>3. R!Promise!Init
  BY DEF R!Init, R!Promise!Init, R!NoReply, R!Written, R!Prior
<1>. QED
  BY <1>1, <1>2, <1>3 DEF RequestInv

LEMMA PriorWritten ==
  ASSUME OneWriteEach
  PROVE  /\ \A i \in Id : R!Prior(i) = {} => R!Written[i] = None
         /\ \A e \in events : e.id \in Id => R!Written[e.id] = [sig |-> e.sig, item |-> e.item]
<1>1. \A i \in Id : R!Prior(i) = {} => R!Written[i] = None
  BY DEF R!Written
<1>2. ASSUME NEW e \in events, e.id \in Id PROVE R!Written[e.id] = [sig |-> e.sig, item |-> e.item]
  <2>1. e \in R!Prior(e.id) /\ \A f \in R!Prior(e.id) : f = e
    BY DEF R!Prior, OneWriteEach
  <2>2. (CHOOSE f \in R!Prior(e.id) : TRUE) = e
    BY <2>1
  <2>. QED
    BY <1>2, <2>1, <2>2 DEF R!Written
<1>. QED
  BY <1>1, <1>2

\* A step that leaves the events alone and answers one caller, truly, is the promise's Tell.
LEMMA TellsTrue ==
  ASSUME RequestInv, UNCHANGED events,
         NEW c \in Client, NEW r \in R!Promise!Reply, pc[c] # "done",
         reply' = [reply EXCEPT ![c] = r],
         r.kind = "ok" => \E e \in R!Prior(CallOf[c].id) : e.sig = CallOf[c].sig /\ r.item = e.item,
         r.kind = "refused" => \A e \in R!Prior(CallOf[c].id) : e.sig # CallOf[c].sig
  PROVE  R!Promise!Next
<1>. USE RequestAssumption
<1>1. R!Written' = R!Written
  BY DEF R!Written, R!Prior
<1>2. ASSUME NEW e \in R!Prior(CallOf[c].id)
      PROVE  /\ R!Written[CallOf[c].id] # None
             /\ R!Written[CallOf[c].id].sig = e.sig /\ R!Written[CallOf[c].id].item = e.item
  <2>1. e \in events /\ e.id = CallOf[c].id /\ e.id \in Id
    BY DEF R!Prior
  <2>2. R!Written[e.id] = [sig |-> e.sig, item |-> e.item]
    BY <2>1, PriorWritten DEF RequestInv
  <2>3. PICK d \in Client, x \in Item : e = R!EventOf(d, x)
    BY <2>1 DEF RequestInv, RequestTypes
  <2>4. [sig |-> e.sig, item |-> e.item] \in [sig : {CallOf[g].sig : g \in Client}, item : Item]
    BY <2>3 DEF R!EventOf
  <2>. QED
    BY <2>1, <2>2, <2>4
<1>5. R!Prior(CallOf[c].id) = {} => R!Written[CallOf[c].id] = None
  BY PriorWritten DEF RequestInv
<1>6. r.kind = "ok" => /\ R!Written[CallOf[c].id] # None /\ R!Written[CallOf[c].id].sig = CallOf[c].sig
                       /\ r.item = R!Written[CallOf[c].id].item
  BY <1>2
<1>7. r.kind = "refused" => ~(R!Written[CallOf[c].id] # None /\ R!Written[CallOf[c].id].sig = CallOf[c].sig)
  <2>1. CASE R!Prior(CallOf[c].id) = {}
    BY <1>5, <2>1
  <2>2. CASE R!Prior(CallOf[c].id) # {}
    BY <1>2, <2>2
  <2>. QED
    BY <2>1, <2>2
<1>8. reply[c].kind = "none"
  BY DEF RequestInv, CallsTrue, R!NoReply
<1>9. R!Promise!Tell(c, r)
  BY <1>1, <1>6, <1>7, <1>8 DEF R!Promise!Tell, R!Promise!Made
<1>. QED
  BY <1>9 DEF R!Promise!Next

LEMMA QuietIsKept ==
  ASSUME UNCHANGED <<events, reply>>
  PROVE  UNCHANGED R!Promise!vars
BY DEF R!Promise!vars, R!Written, R!Prior

LEMMA RequestStep ==
  ASSUME RequestInv, NEW c \in Client,
         R!Lookup(c) \/ R!Act(c) \/ R!Insert(c) \/ R!Conflict(c) \/ R!Drop(c) \/ R!Second(c)
           \/ R!LookupFails(c) \/ R!Caught(c)
  PROVE  RequestInv' /\ [R!Promise!Next]_(R!Promise!vars)
<1>. USE RequestAssumption DEF RequestInv
<1>0. events' = events /\ R!Free' = R!Free /\ OneWriteEach'
  BY DEF R!Lookup, R!Act, R!Insert, R!Conflict, R!Drop, R!Second, R!LookupFails, R!Caught, R!Free, OneWriteEach
<1>1. CASE R!Lookup(c)
  <2>1. RequestTypes'
    BY <1>1, <1>0 DEF R!Lookup, R!Finish, R!Replayed, R!Told, RequestTypes, R!NoTx, R!Promise!Reply, R!Prior,
      R!EventOf
  <2>2. RowsLocked'
    BY <1>1, <1>0 DEF R!Lookup, R!Finish, R!Replayed, R!Told, RequestTypes, RowsLocked, R!NoTx, R!Locked
  <2>3. InsertedAlone'
    BY <1>1, <1>0 DEF R!Lookup, R!Finish, R!Replayed, R!Told, RequestTypes, InsertedAlone, R!NoTx, R!Prior
  <2>4. CallsTrue'
    BY <1>1, <1>0 DEF R!Lookup, R!Finish, R!Replayed, R!Told, RequestTypes, CallsTrue, R!NoTx, R!NoReply,
      R!Prior
  <2>5. [R!Promise!Next]_(R!Promise!vars)
    <3>1. CASE UNCHANGED reply
      BY <1>0, <3>1, QuietIsKept
    <3>2. ASSUME NEW e \in R!Prior(CallOf[c].id), R!Finish(c, R!Replayed(c, e)) PROVE R!Promise!Next
      <4>1. R!Replayed(c, e) \in R!Promise!Reply /\ R!Replayed(c, e).kind # "refused"
        BY DEF RequestTypes, R!Replayed, R!Promise!Reply, R!Told, R!Prior, R!EventOf
      <4>2. R!Replayed(c, e).kind = "ok" => e.sig = CallOf[c].sig /\ R!Replayed(c, e).item = e.item
        BY DEF R!Replayed, R!Told
      <4>3. pc[c] # "done" /\ reply' = [reply EXCEPT ![c] = R!Replayed(c, e)]
        BY <1>1, <3>2 DEF R!Lookup, R!Finish
      <4>. QED
        BY <1>0, <4>1, <4>2, <4>3, TellsTrue
    <3>. QED
      BY <1>1, <3>1, <3>2 DEF R!Lookup
  <2>. QED
    BY <1>0, <2>1, <2>2, <2>3, <2>4, <2>5
<1>2. CASE R!Act(c)
  <2>1. RequestTypes'
    BY <1>2, <1>0, SMTT(30) DEF R!Act, R!Finish, R!Told, RequestTypes, R!NoTx, R!Promise!Reply, R!Prior,
      R!EventOf
  <2>2. RowsLocked'
    BY <1>2, <1>0 DEF R!Act, R!Finish, R!Told, RequestTypes, RowsLocked, R!NoTx, R!Locked
  <2>3. InsertedAlone'
    BY <1>2, <1>0 DEF R!Act, R!Finish, R!Told, RequestTypes, InsertedAlone, R!NoTx, R!Prior
  <2>4. CallsTrue'
    BY <1>2, <1>0 DEF R!Act, R!Finish, R!Told, RequestTypes, CallsTrue, R!NoTx, R!NoReply, R!Prior
  <2>5. [R!Promise!Next]_(R!Promise!vars)
    <3>1. CASE UNCHANGED reply
      BY <1>0, <3>1, QuietIsKept
    <3>2. ASSUME R!Finish(c, R!Told("nothing")) PROVE R!Promise!Next
      <4>1. R!Told("nothing") \in R!Promise!Reply /\ R!Told("nothing").kind = "nothing" /\ "nothing" # "ok"
        BY DEF RequestTypes, R!Promise!Reply, R!Told
      <4>2. pc[c] # "done" /\ reply' = [reply EXCEPT ![c] = R!Told("nothing")]
        BY <1>2, <3>2 DEF R!Act, R!Finish
      <4>3. "nothing" = "refused" => \A e \in R!Prior(CallOf[c].id) : e.sig # CallOf[c].sig
        BY <1>2 DEF R!Act, CallsTrue
      <4>. QED
        BY <1>0, <4>1, <4>2, <4>3, TellsTrue
    <3>. QED
      BY <1>2, <3>1, <3>2 DEF R!Act
  <2>. QED
    BY <1>0, <2>1, <2>2, <2>3, <2>4, <2>5
<1>3. CASE R!Insert(c)
  <2>1. RequestTypes'
    BY <1>3, <1>0, SMTT(30) DEF R!Insert, R!EventsLockFree, R!Unused, RequestTypes, R!NoTx, R!Promise!Reply,
      R!Prior, R!EventOf
  <2>2. RowsLocked'
    BY <1>3, <1>0 DEF R!Insert, R!EventsLockFree, R!Unused, RequestTypes, RowsLocked, R!NoTx, R!Locked
  <2>3. InsertedAlone'
    BY <1>3, <1>0 DEF R!Insert, R!EventsLockFree, R!Unused, RequestTypes, InsertedAlone, R!NoTx, R!Prior
  <2>4. CallsTrue'
    BY <1>3, <1>0, SMTT(30) DEF R!Insert, R!EventsLockFree, R!Unused, RequestTypes, CallsTrue, R!NoTx,
      R!NoReply, R!Prior
  <2>5. [R!Promise!Next]_(R!Promise!vars)
    BY <1>3, <1>0, QuietIsKept DEF R!Insert
  <2>. QED
    BY <1>0, <2>1, <2>2, <2>3, <2>4, <2>5
<1>4. CASE R!Conflict(c)
  <2>1. RequestTypes'
    BY <1>4, <1>0 DEF R!Conflict, RequestTypes, R!NoTx, R!Promise!Reply, R!Prior, R!EventOf
  <2>2. RowsLocked'
    BY <1>4, <1>0 DEF R!Conflict, RequestTypes, RowsLocked, R!NoTx, R!Locked
  <2>3. InsertedAlone'
    BY <1>4, <1>0 DEF R!Conflict, RequestTypes, InsertedAlone, R!NoTx, R!Prior
  <2>4. CallsTrue'
    BY <1>4, <1>0 DEF R!Conflict, RequestTypes, CallsTrue, R!NoTx, R!NoReply, R!Prior
  <2>5. [R!Promise!Next]_(R!Promise!vars)
    BY <1>4, <1>0, QuietIsKept DEF R!Conflict
  <2>. QED
    BY <1>0, <2>1, <2>2, <2>3, <2>4, <2>5
<1>5. CASE R!Drop(c)
  <2>1. RequestTypes'
    BY <1>5, <1>0 DEF R!Drop, RequestTypes, R!NoTx, R!Promise!Reply, R!Prior, R!EventOf
  <2>2. RowsLocked'
    BY <1>5, <1>0 DEF R!Drop, RequestTypes, RowsLocked, R!NoTx, R!Locked
  <2>3. InsertedAlone'
    BY <1>5, <1>0 DEF R!Drop, RequestTypes, InsertedAlone, R!NoTx, R!Prior
  <2>4. CallsTrue'
    BY <1>5, <1>0 DEF R!Drop, RequestTypes, CallsTrue, R!NoTx, R!NoReply, R!Prior
  <2>5. [R!Promise!Next]_(R!Promise!vars)
    BY <1>5, <1>0, QuietIsKept DEF R!Drop
  <2>. QED
    BY <1>0, <2>1, <2>2, <2>3, <2>4, <2>5
<1>6. CASE R!Second(c)
  <2>1. RequestTypes'
    BY <1>6, <1>0 DEF R!Second, R!Finish, R!Replayed, R!Told, RequestTypes, R!NoTx, R!Promise!Reply, R!Prior,
      R!EventOf
  <2>2. RowsLocked'
    BY <1>6, <1>0 DEF R!Second, R!Finish, R!Replayed, R!Told, RequestTypes, RowsLocked, R!NoTx, R!Locked
  <2>3. InsertedAlone'
    BY <1>6, <1>0 DEF R!Second, R!Finish, R!Replayed, R!Told, RequestTypes, InsertedAlone, R!NoTx, R!Prior
  <2>4. CallsTrue'
    BY <1>6, <1>0 DEF R!Second, R!Finish, R!Replayed, R!Told, RequestTypes, CallsTrue, R!NoTx, R!NoReply,
      R!Prior
  <2>5. [R!Promise!Next]_(R!Promise!vars)
    <3>1. CASE UNCHANGED reply
      BY <1>0, <3>1, QuietIsKept
    <3>2. ASSUME NEW e \in R!Prior(CallOf[c].id), R!Finish(c, R!Replayed(c, e)) PROVE R!Promise!Next
      <4>1. R!Replayed(c, e) \in R!Promise!Reply /\ R!Replayed(c, e).kind # "refused"
        BY DEF RequestTypes, R!Replayed, R!Promise!Reply, R!Told, R!Prior, R!EventOf
      <4>2. R!Replayed(c, e).kind = "ok" => e.sig = CallOf[c].sig /\ R!Replayed(c, e).item = e.item
        BY DEF R!Replayed, R!Told
      <4>3. pc[c] # "done" /\ reply' = [reply EXCEPT ![c] = R!Replayed(c, e)]
        BY <1>6, <3>2 DEF R!Second, R!Finish
      <4>. QED
        BY <1>0, <4>1, <4>2, <4>3, TellsTrue
    <3>. QED
      BY <1>6, <3>1, <3>2 DEF R!Second
  <2>. QED
    BY <1>0, <2>1, <2>2, <2>3, <2>4, <2>5
<1>7. CASE R!LookupFails(c)
  <2>1. RequestTypes'
    BY <1>7, <1>0 DEF R!LookupFails, R!Finish, R!Told, RequestTypes, R!NoTx, R!Promise!Reply, R!Prior, R!EventOf
  <2>2. RowsLocked'
    BY <1>7, <1>0 DEF R!LookupFails, R!Finish, R!Told, RequestTypes, RowsLocked, R!NoTx, R!Locked
  <2>3. InsertedAlone'
    BY <1>7, <1>0 DEF R!LookupFails, R!Finish, R!Told, RequestTypes, InsertedAlone, R!NoTx, R!Prior
  <2>4. CallsTrue'
    BY <1>7, <1>0 DEF R!LookupFails, R!Finish, R!Told, RequestTypes, CallsTrue, R!NoTx, R!NoReply, R!Prior
  <2>5. [R!Promise!Next]_(R!Promise!vars)
    <3>1. CASE UNCHANGED reply
      BY <1>0, <3>1, QuietIsKept
    <3>2. ASSUME R!Finish(c, R!Told("error")) PROVE R!Promise!Next
      <4>1. R!Told("error") \in R!Promise!Reply /\ R!Told("error").kind = "error" /\ "error" # "ok"
        BY DEF RequestTypes, R!Promise!Reply, R!Told
      <4>2. pc[c] # "done" /\ reply' = [reply EXCEPT ![c] = R!Told("error")]
        BY <1>7, <3>2 DEF R!LookupFails, R!Finish
      <4>3. "error" = "refused" => \A e \in R!Prior(CallOf[c].id) : e.sig # CallOf[c].sig
        BY <1>7 DEF R!LookupFails, CallsTrue
      <4>. QED
        BY <1>0, <4>1, <4>2, <4>3, TellsTrue
    <3>. QED
      BY <1>7, <3>1, <3>2 DEF R!LookupFails
  <2>. QED
    BY <1>0, <2>1, <2>2, <2>3, <2>4, <2>5
<1>8. CASE R!Caught(c)
  <2>1. RequestTypes'
    BY <1>8, <1>0 DEF R!Caught, R!Finish, R!Told, RequestTypes, R!NoTx, R!Promise!Reply, R!Prior, R!EventOf
  <2>2. RowsLocked'
    BY <1>8, <1>0 DEF R!Caught, R!Finish, R!Told, RequestTypes, RowsLocked, R!NoTx, R!Locked
  <2>3. InsertedAlone'
    BY <1>8, <1>0 DEF R!Caught, R!Finish, R!Told, RequestTypes, InsertedAlone, R!NoTx, R!Prior
  <2>4. CallsTrue'
    BY <1>8, <1>0 DEF R!Caught, R!Finish, R!Told, RequestTypes, CallsTrue, R!NoTx, R!NoReply, R!Prior
  <2>5. [R!Promise!Next]_(R!Promise!vars)
    <3>1. CASE UNCHANGED reply
      BY <1>0, <3>1, QuietIsKept
    <3>2. ASSUME R!Finish(c, R!Told(held[c])) PROVE R!Promise!Next
      <4>1. R!Told(held[c]) \in R!Promise!Reply /\ R!Told(held[c]).kind = held[c] /\ held[c] # "ok"
        BY DEF RequestTypes, R!Promise!Reply, R!Told
      <4>2. pc[c] # "done" /\ reply' = [reply EXCEPT ![c] = R!Told(held[c])]
        BY <1>8, <3>2 DEF R!Caught, R!Finish
      <4>3. held[c] = "refused" => \A e \in R!Prior(CallOf[c].id) : e.sig # CallOf[c].sig
        BY <1>8 DEF R!Caught, CallsTrue
      <4>. QED
        BY <1>0, <4>1, <4>2, <4>3, TellsTrue
    <3>. QED
      BY <1>8, <3>1, <3>2 DEF R!Caught
  <2>. QED
    BY <1>0, <2>1, <2>2, <2>3, <2>4, <2>5
<1>. QED
  BY <1>1, <1>2, <1>3, <1>4, <1>5, <1>6, <1>7, <1>8

\* A commit, the client's own or one at the server after its client is gone, is the promise's
\* one Write of its id.
LEMMA CommitWrites ==
  ASSUME RequestInv, NEW c \in Client, NEW x \in Item,
         x \in R!Free \cap CallOf[c].items, R!Prior(CallOf[c].id) = {},
         events' = events \cup {R!EventOf(c, x)}
  PROVE  /\ OneWriteEach'
         /\ \A d \in Client : held[d] = "refused" =>
              CallOf[d].items \cap R!Free' = {} /\ ~(CallOf[d].id = CallOf[c].id /\ CallOf[d].sig = CallOf[c].sig)
         /\ R!Free' = R!Free \ {x}
         /\ UNCHANGED reply \/ reply' = [reply EXCEPT ![c] = [kind |-> "ok", item |-> x]] => R!Promise!Next
<1>. USE RequestAssumption DEF RequestInv
<1>. DEFINE e == R!EventOf(c, x)
<1>1. e.id = CallOf[c].id /\ e.sig = CallOf[c].sig /\ e.item = x
  BY DEF R!EventOf
<1>. HIDE DEF e
<1>2. \A f \in events : f.id # CallOf[c].id /\ f.item # x
  BY DEF R!Prior, R!Free
<1>3. OneWriteEach'
  BY <1>1, <1>2 DEF OneWriteEach, e
<1>4. R!Free' = R!Free \ {x}
  BY <1>1 DEF R!Free, e
<1>5. \A d \in Client : held[d] = "refused" =>
        CallOf[d].items \cap R!Free' = {} /\ ~(CallOf[d].id = CallOf[c].id /\ CallOf[d].sig = CallOf[c].sig)
  BY <1>4 DEF CallsTrue
<1>6. R!Written' = [R!Written EXCEPT ![CallOf[c].id] = [sig |-> CallOf[c].sig, item |-> x]]
  <2>1. \A i \in Id : i # CallOf[c].id => R!Prior(i)' = R!Prior(i)
    BY <1>1 DEF R!Prior, e
  <2>2. R!Prior(CallOf[c].id)' = {e}
    BY <1>1, <1>2 DEF R!Prior, e
  <2>3. (CHOOSE f \in {e} : TRUE) = e
    OBVIOUS
  <2>4. R!Written'[CallOf[c].id] = [sig |-> CallOf[c].sig, item |-> x]
    BY <1>1, <2>2, <2>3 DEF R!Written
  <2>5. \A i \in Id : i # CallOf[c].id => R!Written'[i] = R!Written[i]
    BY <2>1 DEF R!Written
  <2>6. R!Written = [i \in Id |-> R!Written[i]] /\ R!Written' = [i \in Id |-> R!Written'[i]]
    BY DEF R!Written
  <2>. QED
    BY <2>4, <2>5, <2>6
<1>7. R!Written[CallOf[c].id] = None
  BY PriorWritten
<1>8. \A i \in Id : R!Written[i] # None => R!Written[i].item # x
  <2>. SUFFICES ASSUME NEW i \in Id, R!Written[i] # None PROVE R!Written[i].item # x
    OBVIOUS
  <2>1. PICK f \in R!Prior(i) : TRUE
    BY PriorWritten
  <2>2. f \in events /\ f.id = i
    BY <2>1 DEF R!Prior
  <2>3. R!Written[i] = [sig |-> f.sig, item |-> f.item]
    BY <2>2, PriorWritten
  <2>. QED
    BY <1>2, <2>2, <2>3
<1>9. UNCHANGED reply \/ reply' = [reply EXCEPT ![c] = [kind |-> "ok", item |-> x]] => R!Promise!Write(c, x)
  BY <1>6, <1>7, <1>8 DEF R!Promise!Write
<1>. QED
  BY <1>3, <1>4, <1>5, <1>9 DEF R!Promise!Next

LEMMA CommitStep ==
  ASSUME RequestInv, NEW c \in Client, R!Commit(c)
  PROVE  RequestInv' /\ R!Promise!Next
<1>. USE RequestAssumption DEF RequestInv
<1>. DEFINE x == tx[c].item
<1>1. /\ x \in Item /\ x \in R!Free \cap CallOf[c].items /\ R!Prior(CallOf[c].id) = {}
      /\ tx[c].st = "inserted" /\ tx[c] # R!NoTx /\ pc[c] = "running"
  <2>1. tx[c].st = "inserted" /\ tx[c] # R!NoTx
    BY DEF R!Commit, R!NoTx
  <2>2. x \in Item
    BY <2>1 DEF RequestTypes
  <2>3. R!Prior(CallOf[c].id) = {}
    BY <2>1 DEF InsertedAlone
  <2>4. x \in R!Free \cap CallOf[c].items
    BY <2>1 DEF RowsLocked
  <2>. QED
    BY <2>1, <2>2, <2>3, <2>4 DEF CallsTrue
<1>2. /\ events' = events \cup {R!EventOf(c, x)} /\ tx' = [tx EXCEPT ![c] = R!NoTx]
      /\ reply' = [reply EXCEPT ![c] = [kind |-> "ok", item |-> x]] /\ pc' = [pc EXCEPT ![c] = "done"]
      /\ UNCHANGED <<lost, held>>
  BY DEF R!Commit, R!Finish
<1>3. /\ OneWriteEach' /\ R!Free' = R!Free \ {x} /\ R!Promise!Next
      /\ \A d \in Client : held[d] = "refused" =>
           CallOf[d].items \cap R!Free' = {} /\ ~(CallOf[d].id = CallOf[c].id /\ CallOf[d].sig = CallOf[c].sig)
  BY <1>1, <1>2, CommitWrites
<1>. HIDE DEF x
<1>4. RequestTypes'
  BY <1>1, <1>2 DEF RequestTypes, R!Promise!Reply
<1>5. RowsLocked'
  BY <1>1, <1>2, <1>3 DEF RowsLocked, RequestTypes, R!NoTx, x
<1>6. InsertedAlone'
  BY <1>1, <1>2 DEF InsertedAlone, RequestTypes, R!NoTx, x
<1>7. CallsTrue'
  <2>1. \A d \in Client : R!Prior(CallOf[d].id)' \subseteq R!Prior(CallOf[d].id) \cup {R!EventOf(c, x)}
    BY <1>2 DEF R!Prior
  <2>2. \A d \in Client : held[d] = "refused" =>
          \A e \in R!Prior(CallOf[d].id)' : e \in R!Prior(CallOf[d].id) \/ e.sig # CallOf[d].sig
    BY <1>2, <1>3 DEF R!Prior, R!EventOf
  <2>. QED
    BY <1>1, <1>2, <1>3, <2>2 DEF CallsTrue, RequestTypes, R!NoTx, R!Prior
<1>. QED
  BY <1>3, <1>4, <1>5, <1>6, <1>7

LEMMA EndLostStep ==
  ASSUME RequestInv, NEW l \in lost, R!EndLost(l)
  PROVE  RequestInv' /\ [R!Promise!Next]_(R!Promise!vars)
<1>. USE RequestAssumption DEF RequestInv
<1>. DEFINE c == l.of  x == l.item
<1>1. lost' = lost \ {l} /\ UNCHANGED <<tx, held, pc, reply>>
  BY DEF R!EndLost
<1>2. CASE UNCHANGED events
  <2>1. RequestTypes' /\ OneWriteEach'
    BY <1>1, <1>2 DEF RequestTypes, OneWriteEach
  <2>2. RowsLocked'
    BY <1>1, <1>2 DEF RowsLocked, R!Free
  <2>3. InsertedAlone' /\ CallsTrue'
    BY <1>1, <1>2 DEF InsertedAlone, CallsTrue, R!Prior, R!Free
  <2>. QED
    BY <1>1, <1>2, <2>1, <2>2, <2>3, QuietIsKept
<1>3. CASE l.st = "inserted" /\ events' = events \cup {R!EventOf(c, x)}
  <2>1. c \in Client /\ x \in Item /\ x \in R!Free \cap CallOf[c].items /\ R!Prior(CallOf[c].id) = {}
    <3>1. c \in Client /\ x \in Item
      BY DEF RequestTypes
    <3>2. R!Prior(CallOf[c].id) = {}
      BY <1>3 DEF InsertedAlone
    <3>. QED
      BY <3>1, <3>2 DEF RowsLocked
  <2>2. /\ OneWriteEach' /\ R!Free' = R!Free \ {x} /\ R!Promise!Next
        /\ \A d \in Client : held[d] = "refused" =>
             CallOf[d].items \cap R!Free' = {} /\ ~(CallOf[d].id = CallOf[c].id /\ CallOf[d].sig = CallOf[c].sig)
    BY <1>1, <1>3, <2>1, CommitWrites
  <2>3. RequestTypes'
    BY <1>1, <1>3, <2>1 DEF RequestTypes
  <2>4. RowsLocked'
    BY <1>1, <1>3, <2>2 DEF RowsLocked, RequestTypes, R!NoTx
  <2>5. InsertedAlone'
    BY <1>1, <1>3 DEF InsertedAlone, RequestTypes
  <2>6. CallsTrue'
    <3>1. \A d \in Client : held[d] = "refused" =>
            \A e \in R!Prior(CallOf[d].id)' : e \in R!Prior(CallOf[d].id) \/ e.sig # CallOf[d].sig
      BY <1>3, <2>2 DEF R!Prior, R!EventOf
    <3>. QED
      BY <1>1, <2>2, <3>1 DEF CallsTrue, RequestTypes, R!NoTx, R!Prior
  <2>. QED
    BY <2>2, <2>3, <2>4, <2>5, <2>6
<1>. QED
  BY <1>2, <1>3 DEF R!EndLost

LEMMA RequestNext ==
  RequestInv /\ [R!Next]_requestVars => RequestInv' /\ [R!Promise!Next]_(R!Promise!vars)
<1>. SUFFICES ASSUME RequestInv, [R!Next]_requestVars
              PROVE  RequestInv' /\ [R!Promise!Next]_(R!Promise!vars)
  OBVIOUS
<1>1. CASE UNCHANGED requestVars
  <2>1. RequestInv'
    BY <1>1 DEF requestVars, RequestInv, RequestTypes, RowsLocked, InsertedAlone, OneWriteEach, CallsTrue,
      R!Free, R!Prior
  <2>2. UNCHANGED R!Promise!vars
    BY <1>1, QuietIsKept DEF requestVars
  <2>. QED
    BY <2>1, <2>2
<1>2. CASE R!Next
  BY <1>2, RequestStep, CommitStep, EndLostStep DEF R!Next
<1>. QED
  BY <1>1, <1>2

\* requests.ts once around tx.ts, called by retryUnavailable: for every set of callers and
\* request ids, however connections drop, transactions are rerun and commits land late, the
\* system implements OnceOnly: one write for an id, one answer to whoever repeats it.
THEOREM RepeatedRequestsActOnce == Spec => KeepsPromise
<1>1. Init => RequestInv /\ R!Promise!Init
  BY RequestInit DEF Init
<1>2. RequestInv /\ [Next]_<<part, requestVars, lockVars, activationVars, purgeVars, cancelVars, schemaVars>>
        => RequestInv' /\ [R!Promise!Next]_(R!Promise!vars)
  <2>1. [Next]_<<part, requestVars, lockVars, activationVars, purgeVars, cancelVars, schemaVars>>
          => [R!Next]_requestVars
    BY DEF Next
  <2>. QED
    BY <2>1, RequestNext
<1>. QED
  BY <1>1, <1>2, PTL DEF Spec, KeepsPromise, R!KeepsPromise, R!Promise!Spec

----------------------------------------------------------------------------
(* Purging a project                                                         *)

PurgeTypes ==
  /\ P!TypeOK
  /\ kind \in [PurgeWriter -> {"none", "move", "create", "edge"}]
  /\ on \in [PurgeWriter -> P!Tasks \cup {None}]
  /\ row \in [P!Tasks -> PurgeWriter \cup {"purge", None}]
  /\ graph \in PurgeWriter \cup {"purge", None} /\ pexcl \in {"purge", None}

\* What a writer holds tells how far it is.
WriterLocks ==
  /\ \A x \in PurgeWriter : wpc[x] \in {"graph", "row"} \/ kind[x] = "edge" => on[x] \in P!Tasks
  /\ \A t \in P!Tasks, x \in PurgeWriter : row[t] = x => wpc[x] \in {"project", "commit"}
  /\ \A x \in PurgeWriter : graph = x => wpc[x] \in {"row", "project", "commit"}
  /\ \A x \in PurgeWriter : x \in pshare <=> wpc[x] = "commit"

\* So does what purge holds; by the time it asks for the project's row it has the row of
\* every task that was there, and no writer shares the project's row once it has that.
PurgeLocks ==
  /\ \A t \in P!Tasks : row[t] = "purge" => ppc \in {"rows", "project", "delete", "events"}
  /\ graph = "purge" => ppc # "graph"
  /\ pexcl = "purge" <=> ppc \in {"delete", "events"}
  /\ pexcl = "purge" => pshare = {}
  /\ project <=> ppc # "done"
  /\ project => Old \subseteq rows
  /\ ppc = "rows" => \A t \in Old : t \in todo \/ row[t] = "purge"
  /\ ppc = "rows" => \A t \in todo : row[t] # "purge"
  /\ ppc \in {"project", "delete", "events"} => \A t \in Old : row[t] = "purge"
  /\ ppc = "events" => todo = rows
  /\ ~project => pshare = {}

PurgeInv == PurgeTypes /\ WriterLocks /\ PurgeLocks /\ P!NothingLeft

LEMMA PurgeInit == P!Init => PurgeInv
BY PurgeAssumption DEF P!Init, PurgeInv, PurgeTypes, P!TypeOK, P!Tasks, WriterLocks, PurgeLocks, P!NothingLeft

LEMMA PurgeNext == PurgeInv /\ [P!Next]_purgeVars => PurgeInv'
<1>. SUFFICES ASSUME PurgeInv, [P!Next]_purgeVars PROVE PurgeInv'
  OBVIOUS
<1>. USE PurgeAssumption DEF PurgeInv, PurgeTypes, P!TypeOK, P!Tasks
<1>0. CASE UNCHANGED purgeVars
  BY <1>0 DEF purgeVars, WriterLocks, PurgeLocks, P!NothingLeft
<1>1. ASSUME NEW x \in PurgeWriter, NEW k \in {"move", "create", "edge"}, NEW t \in P!Tasks \cup {None}, P!Begin(x, k, t) PROVE PurgeInv'
  <2>1. PurgeTypes'
    BY <1>1 DEF P!Begin
  <2>2. WriterLocks'
    BY <1>1 DEF P!Begin, WriterLocks
  <2>3. PurgeLocks'
    BY <1>1 DEF P!Begin, WriterLocks, PurgeLocks
  <2>4. P!NothingLeft'
    BY <1>1 DEF P!Begin, WriterLocks, PurgeLocks, P!NothingLeft
  <2>. QED
    BY <2>1, <2>2, <2>3, <2>4
<1>2. ASSUME NEW x \in PurgeWriter, P!LockGraph(x) PROVE PurgeInv'
  <2>1. PurgeTypes'
    BY <1>2 DEF P!LockGraph
  <2>2. WriterLocks'
    BY <1>2 DEF P!LockGraph, WriterLocks
  <2>3. PurgeLocks'
    BY <1>2 DEF P!LockGraph, WriterLocks, PurgeLocks
  <2>4. P!NothingLeft'
    BY <1>2 DEF P!LockGraph, WriterLocks, PurgeLocks, P!NothingLeft
  <2>. QED
    BY <2>1, <2>2, <2>3, <2>4
<1>3. ASSUME NEW x \in PurgeWriter, P!LockRow(x) PROVE PurgeInv'
  <2>0. on[x] \in P!Tasks
    BY <1>3 DEF P!LockRow, WriterLocks
  <2>1. PurgeTypes'
    <3>1. CASE on[x] \in rows
      BY <1>3, <2>0, <3>1 DEF P!LockRow
    <3>2. CASE on[x] \notin rows
      <4>1. /\ wpc' = [wpc EXCEPT ![x] = "gone"] /\ graph' = (IF graph = x THEN None ELSE graph)
            /\ row' = [t \in P!Tasks |-> IF row[t] = x THEN None ELSE row[t]]
            /\ pshare' = pshare \ {x} /\ pexcl' = (IF pexcl = x THEN None ELSE pexcl)
            /\ UNCHANGED <<rows, log, project, kind, on, ppc, todo, aborts>>
        BY <1>3, <3>2 DEF P!LockRow, P!Freed
      <4>2. row' \in [P!Tasks -> PurgeWriter \cup {"purge", None}]
        BY <4>1
      <4>. QED
        BY <4>1, <4>2
    <3>. QED
      BY <3>1, <3>2
  <2>2. WriterLocks'
    BY <1>3 DEF P!LockRow, P!Freed, WriterLocks
  <2>3. PurgeLocks'
    BY <1>3 DEF P!LockRow, P!Freed, WriterLocks, PurgeLocks
  <2>4. P!NothingLeft'
    BY <1>3 DEF P!LockRow, P!Freed, WriterLocks, PurgeLocks, P!NothingLeft
  <2>. QED
    BY <2>1, <2>2, <2>3, <2>4
<1>4. ASSUME NEW x \in PurgeWriter, P!ShareProject(x) PROVE PurgeInv'
  <2>1. PurgeTypes'
    BY <1>4 DEF P!ShareProject, P!Freed
  <2>2. WriterLocks'
    BY <1>4 DEF P!ShareProject, P!Freed, WriterLocks
  <2>3. PurgeLocks'
    BY <1>4 DEF P!ShareProject, P!Freed, WriterLocks, PurgeLocks
  <2>4. P!NothingLeft'
    BY <1>4 DEF P!ShareProject, P!Freed, WriterLocks, PurgeLocks, P!NothingLeft
  <2>. QED
    BY <2>1, <2>2, <2>3, <2>4
<1>5. ASSUME NEW x \in PurgeWriter, P!Commit(x) PROVE PurgeInv'
  <2>1. PurgeTypes'
    BY <1>5 DEF P!Commit, P!Freed
  <2>2. WriterLocks'
    BY <1>5 DEF P!Commit, P!Freed, WriterLocks
  <2>3. PurgeLocks'
    BY <1>5 DEF P!Commit, P!Freed, WriterLocks, PurgeLocks
  <2>4. P!NothingLeft'
    BY <1>5 DEF P!Commit, P!Freed, WriterLocks, PurgeLocks, P!NothingLeft
  <2>. QED
    BY <2>1, <2>2, <2>3, <2>4
<1>6. CASE P!PurgeGraph
  <2>1. PurgeTypes'
    BY <1>6 DEF P!PurgeGraph, P!Step, P!After, P!UnchangedByPurge, P!P
  <2>2. WriterLocks'
    BY <1>6 DEF P!PurgeGraph, P!Step, P!After, P!UnchangedByPurge, P!P, WriterLocks
  <2>3. PurgeLocks'
    BY <1>6 DEF P!PurgeGraph, P!Step, P!After, P!UnchangedByPurge, P!P, WriterLocks, PurgeLocks
  <2>4. P!NothingLeft'
    BY <1>6 DEF P!PurgeGraph, P!Step, P!After, P!UnchangedByPurge, P!P, WriterLocks, PurgeLocks, P!NothingLeft
  <2>. QED
    BY <2>1, <2>2, <2>3, <2>4
<1>7. CASE P!PurgeLook
  <2>1. PurgeTypes'
    BY <1>7 DEF P!PurgeLook, P!Step, P!After, P!UnchangedByPurge, P!P
  <2>2. WriterLocks'
    BY <1>7 DEF P!PurgeLook, P!Step, P!After, P!UnchangedByPurge, P!P, WriterLocks
  <2>3. PurgeLocks'
    BY <1>7 DEF P!PurgeLook, P!Step, P!After, P!UnchangedByPurge, P!P, WriterLocks, PurgeLocks
  <2>4. P!NothingLeft'
    BY <1>7 DEF P!PurgeLook, P!Step, P!After, P!UnchangedByPurge, P!P, WriterLocks, PurgeLocks, P!NothingLeft
  <2>. QED
    BY <2>1, <2>2, <2>3, <2>4
<1>8. CASE P!PurgeRow
  <2>1. PurgeTypes'
    BY <1>8 DEF P!PurgeRow, P!Step, P!After, P!UnchangedByPurge, P!P
  <2>2. WriterLocks'
    BY <1>8 DEF P!PurgeRow, P!Step, P!After, P!UnchangedByPurge, P!P, WriterLocks
  <2>3. PurgeLocks'
    BY <1>8 DEF P!PurgeRow, P!Step, P!After, P!UnchangedByPurge, P!P, WriterLocks, PurgeLocks
  <2>4. P!NothingLeft'
    BY <1>8 DEF P!PurgeRow, P!Step, P!After, P!UnchangedByPurge, P!P, WriterLocks, PurgeLocks, P!NothingLeft
  <2>. QED
    BY <2>1, <2>2, <2>3, <2>4
<1>9. CASE P!PurgeProject
  <2>1. PurgeTypes'
    BY <1>9 DEF P!PurgeProject, P!Step, P!After, P!UnchangedByPurge, P!P
  <2>2. WriterLocks'
    BY <1>9 DEF P!PurgeProject, P!Step, P!After, P!UnchangedByPurge, P!P, WriterLocks
  <2>3. PurgeLocks'
    BY <1>9 DEF P!PurgeProject, P!Step, P!After, P!UnchangedByPurge, P!P, WriterLocks, PurgeLocks
  <2>4. P!NothingLeft'
    BY <1>9 DEF P!PurgeProject, P!Step, P!After, P!UnchangedByPurge, P!P, WriterLocks, PurgeLocks, P!NothingLeft
  <2>. QED
    BY <2>1, <2>2, <2>3, <2>4
<1>10. CASE P!PurgeDelete
  <2>1. PurgeTypes'
    BY <1>10 DEF P!PurgeDelete, P!Step, P!After, P!UnchangedByPurge, P!P
  <2>2. WriterLocks'
    BY <1>10 DEF P!PurgeDelete, P!Step, P!After, P!UnchangedByPurge, P!P, WriterLocks
  <2>3. PurgeLocks'
    BY <1>10 DEF P!PurgeDelete, P!Step, P!After, P!UnchangedByPurge, P!P, WriterLocks, PurgeLocks
  <2>4. P!NothingLeft'
    BY <1>10 DEF P!PurgeDelete, P!Step, P!After, P!UnchangedByPurge, P!P, WriterLocks, PurgeLocks, P!NothingLeft
  <2>. QED
    BY <2>1, <2>2, <2>3, <2>4
<1>11. CASE P!PurgeEvents
  <2>1. PurgeTypes'
    BY <1>11 DEF P!PurgeEvents, P!Step, P!After, P!UnchangedByPurge, P!P, P!Freed
  <2>2. WriterLocks'
    BY <1>11 DEF P!PurgeEvents, P!Step, P!After, P!UnchangedByPurge, P!P, P!Freed, WriterLocks
  <2>3. PurgeLocks'
    BY <1>11 DEF P!PurgeEvents, P!Step, P!After, P!UnchangedByPurge, P!P, P!Freed, WriterLocks, PurgeLocks
  <2>4. P!NothingLeft'
    BY <1>11 DEF P!PurgeEvents, P!Step, P!After, P!UnchangedByPurge, P!P, P!Freed, WriterLocks, PurgeLocks,
      P!NothingLeft
  <2>. QED
    BY <2>1, <2>2, <2>3, <2>4
<1>12. ASSUME NEW x \in P!Actors, P!Victim(x) PROVE PurgeInv'
  <2>1. /\ aborts < MaxAborts /\ aborts' = aborts + 1
        /\ graph' = (IF graph = x THEN None ELSE graph)
        /\ row' = [t \in P!Tasks |-> IF row[t] = x THEN None ELSE row[t]]
        /\ pshare' = pshare \ {x} /\ pexcl' = (IF pexcl = x THEN None ELSE pexcl)
        /\ UNCHANGED <<rows, log, project, kind, on>>
    BY <1>12 DEF P!Victim, P!Freed
  <2>2. \A t \in P!Tasks : row'[t] = (IF row[t] = x THEN None ELSE row[t])
    BY <2>1
  <2>3. CASE x = "purge"
    <3>1. ppc' = "graph" /\ todo' = {} /\ UNCHANGED wpc
      BY <1>12, <2>3 DEF P!Victim, P!P
    <3>2. ppc \in {"graph", "rows", "project", "delete"}
      BY <1>12, <2>3 DEF P!Victim, P!P, P!WaitsOn
    <3>3. PurgeTypes' /\ WriterLocks'
      BY <2>1, <2>2, <2>3, <3>1 DEF WriterLocks
    <3>4. PurgeLocks' /\ P!NothingLeft'
      BY <2>1, <2>2, <2>3, <3>1, <3>2 DEF PurgeLocks, P!NothingLeft
    <3>. QED
      BY <3>3, <3>4
  <2>4. CASE x \in PurgeWriter
    <3>1. UNCHANGED <<ppc, todo>>
      BY <1>12, <2>4 DEF P!Victim, P!P
    <3>2. /\ wpc' \in [PurgeWriter -> {"idle", "graph", "row", "project", "commit", "done", "gone"}]
          /\ \A y \in PurgeWriter \ {x} : wpc'[y] = wpc[y]
          /\ wpc'[x] \in {"graph", "row", "project"}
          /\ wpc'[x] = "graph" => kind[x] = "edge"
          /\ wpc'[x] = "row" => on[x] # None
      BY <1>12, <2>4 DEF P!Victim, P!P
    <3>3. PurgeTypes'
      BY <2>1, <2>4, <3>1, <3>2
    <3>4. WriterLocks'
      BY <2>1, <2>2, <2>4, <3>2 DEF WriterLocks
    <3>5. PurgeLocks' /\ P!NothingLeft'
      BY <2>1, <2>2, <2>4, <3>1, <3>2 DEF PurgeLocks, P!NothingLeft
    <3>. QED
      BY <3>3, <3>4, <3>5
  <2>. QED
    BY <2>3, <2>4 DEF P!Actors, P!P
<1>. HIDE DEF PurgeInv, PurgeTypes
<1>13. CASE P!Next
  BY <1>1, <1>2, <1>3, <1>4, <1>5, <1>6, <1>7, <1>8, <1>9, <1>10, <1>11, <1>12, <1>13 DEF P!Next
<1>. QED
  BY <1>0, <1>13

\* Who waits for whom, as a set Q of actors each waiting for another of them would have it:
\* none is in it that holds the last lock it needs, so none that waits for those, and so on
\* down the order of the locks: project, rows, graph.
LEMMA WaitsInOrder == PurgeInv => P!WaitsOnNewOnly
<1>. SUFFICES ASSUME PurgeInv,
                     NEW Q \in SUBSET P!Actors, Q # {},
                     \A x \in Q : \E y \in Q : <<x, y>> \in P!WaitsOn,
                     ~(ppc = "delete" /\ \E t \in rows \ Old : row[t] \in PurgeWriter)
              PROVE  FALSE
  BY DEF P!WaitsOnNewOnly, P!Stuck, P!Acyclic
<1>. USE PurgeAssumption DEF PurgeInv
<1>1. \A t \in rows : ppc = "delete" => row[t] \in {None, "purge"}
  BY DEF PurgeTypes, PurgeLocks, P!TypeOK, P!Tasks
<1>2. \A x, y : <<x, y>> \in P!WaitsOn =>
        \/ x \in PurgeWriter /\ wpc[x] = "graph" /\ y = graph /\ graph # None
        \/ x \in PurgeWriter /\ wpc[x] = "row" /\ y = row[on[x]] /\ row[on[x]] # None
        \/ x \in PurgeWriter /\ wpc[x] = "project" /\ pexcl # None /\ y = "purge"
        \/ x = "purge" /\ ppc = "graph" /\ y = graph /\ graph # None
        \/ x = "purge" /\ ppc = "rows" /\ todo # {} /\ y = row[P!Min(todo)] /\ row[P!Min(todo)] # None
        \/ x = "purge" /\ ppc = "project" /\ y \in pshare
  BY <1>1 DEF P!WaitsOn, P!P
<1>3. todo # {} => P!Min(todo) \in todo /\ P!Min(todo) \in P!Tasks
  <2>1. \A t \in P!Tasks : t \in Nat
    BY DEF P!Tasks
  <2>2. todo \subseteq P!Tasks
    BY DEF PurgeTypes, P!TypeOK
  <2>. QED
    BY <2>1, <2>2, LeastNatural DEF P!Min
<1>4. \A x \in Q : x \in PurgeWriter => wpc[x] \in {"graph", "row", "project"}
  BY <1>2
<1>5. "purge" \in Q => ppc \in {"graph", "rows", "project"}
  BY <1>2
<1>6. \A x \in Q : x \in PurgeWriter => wpc[x] # "project"
  <2>. SUFFICES ASSUME NEW x \in Q, x \in PurgeWriter, wpc[x] = "project" PROVE FALSE
    OBVIOUS
  <2>1. PICK y \in Q : <<x, y>> \in P!WaitsOn
    OBVIOUS
  <2>2. y = "purge" /\ pexcl # None
    BY <1>2, <2>1
  <2>. QED
    BY <1>5, <2>2 DEF PurgeTypes, PurgeLocks
<1>7. "purge" \in Q => ppc = "graph"
  <2>1. ASSUME NEW y \in Q, <<"purge", y>> \in P!WaitsOn, ppc \in {"rows", "project"} PROVE FALSE
    <3>1. CASE ppc = "rows" /\ todo # {} /\ y = row[P!Min(todo)] /\ row[P!Min(todo)] # None
      <4>1. y # "purge"
        BY <1>3, <3>1 DEF PurgeLocks
      <4>. QED
        BY <1>3, <1>4, <1>6, <3>1, <4>1 DEF PurgeTypes, WriterLocks
    <3>2. CASE ppc = "project" /\ y \in pshare
      BY <1>4, <3>2 DEF PurgeTypes, P!TypeOK, WriterLocks
    <3>. QED
      BY <1>2, <2>1, <3>1, <3>2
  <2>. QED
    BY <1>5, <2>1
<1>8. \A x \in Q : x \in PurgeWriter => wpc[x] # "row"
  <2>. SUFFICES ASSUME NEW x \in Q, x \in PurgeWriter, wpc[x] = "row" PROVE FALSE
    OBVIOUS
  <2>1. PICK y \in Q : y = row[on[x]] /\ y # None
    BY <1>2
  <2>2. on[x] \in P!Tasks
    BY DEF WriterLocks
  <2>3. y = "purge" => FALSE
    BY <1>7, <2>1, <2>2 DEF PurgeLocks
  <2>. QED
    BY <1>4, <1>6, <2>1, <2>2, <2>3 DEF PurgeTypes, WriterLocks
<1>9. \A x \in Q : \E y \in Q : y = graph
  <2>. SUFFICES ASSUME NEW x \in Q PROVE \E y \in Q : y = graph
    OBVIOUS
  <2>1. PICK y \in Q : <<x, y>> \in P!WaitsOn
    OBVIOUS
  <2>2. CASE x = "purge"
    BY <1>2, <1>7, <2>1, <2>2
  <2>3. CASE x \in PurgeWriter
    <3>1. wpc[x] = "graph" /\ x # "purge"
      BY <1>4, <1>6, <1>8, <2>3
    <3>. QED
      BY <1>2, <2>1, <3>1
  <2>. QED
    BY <2>2, <2>3 DEF P!Actors, P!P
<1>10. graph \in Q
  BY <1>9
<1>11. graph # "purge"
  BY <1>7, <1>10 DEF PurgeLocks
<1>. QED
  BY <1>4, <1>6, <1>8, <1>10, <1>11 DEF P!Actors, P!P, WriterLocks

\* bundle.ts purge: for every number of writers and tasks, a purge leaves no row and no event
\* behind, and comes to wait in a circle with writers only over a task filed since it read
\* which rows to lock.
THEOREM PurgesLeaveNothing == Spec => []PurgesWhole
<1>1. Init => PurgeInv
  BY PurgeInit DEF Init
<1>2. PurgeInv /\ [Next]_<<part, requestVars, lockVars, activationVars, purgeVars, cancelVars, schemaVars>> => PurgeInv'
  <2>1. [Next]_<<part, requestVars, lockVars, activationVars, purgeVars, cancelVars, schemaVars>>
          => [P!Next]_purgeVars
    BY DEF Next
  <2>. QED
    BY <2>1, PurgeNext
<1>3. PurgeInv => PurgesWhole
  BY WaitsInOrder DEF PurgeInv, PurgeTypes, PurgesWhole
<1>. QED
  BY <1>1, <1>2, <1>3, PTL DEF Spec

----------------------------------------------------------------------------
(* The schemas                                                               *)

\* The floors of a run of migrations have a greatest one.
LEMMA FloorsBounded ==
  ASSUME NEW s \in S!Schemas
  PROVE  \A n \in Nat : 1..n \subseteq DOMAIN Floor[s] => \E b \in Nat : \A m \in 1..n : Floor[s][m] <= b
<1>. DEFINE Ok(n) == 1..n \subseteq DOMAIN Floor[s] => \E b \in Nat : \A m \in 1..n : Floor[s][m] <= b
            T == {n \in Nat : ~Ok(n)}
<1>. SUFFICES ASSUME T # {} PROVE FALSE
  OBVIOUS
<1>1. PICK n \in T : \A m \in T : n <= m
  <2>1. T \in SUBSET Nat
    OBVIOUS
  <2>. HIDE DEF T
  <2>. QED
    BY <2>1, LeastNatural
<1>2. n \in Nat /\ 1..n \subseteq DOMAIN Floor[s] /\ ~\E b \in Nat : \A m \in 1..n : Floor[s][m] <= b
  OBVIOUS
<1>3. n # 0
  BY <1>2
<1>4. n - 1 \in Nat /\ n - 1 \notin T
  <2>1. n - 1 \in Nat /\ ~(n <= n - 1)
    BY <1>2, <1>3
  <2>. HIDE DEF T
  <2>. QED
    BY <1>1, <2>1
<1>5. PICK b \in Nat : \A m \in 1..(n - 1) : Floor[s][m] <= b
  BY <1>2, <1>3, <1>4
<1>6. n \in DOMAIN Floor[s] /\ Floor[s][n] \in Nat
  BY <1>2, <1>3, SchemaAssumption DEF S!Schemas
<1>7. \A m \in 1..n : m \in DOMAIN Floor[s] /\ Floor[s][m] \in Nat
  BY <1>2, SchemaAssumption DEF S!Schemas
<1>8. PICK top \in Nat : b <= top /\ Floor[s][n] <= top
  <2>1. b + Floor[s][n] \in Nat /\ b <= b + Floor[s][n] /\ Floor[s][n] <= b + Floor[s][n]
    BY <1>6
  <2>. QED
    BY <2>1
<1>9. ASSUME NEW m \in 1..n PROVE Floor[s][m] <= top
  <2>1. CASE m = n
    BY <1>8, <2>1
  <2>2. CASE m # n
    <3>1. m \in 1..(n - 1)
      <4>1. n \in Nat
        BY <1>2
      <4>. HIDE DEF T
      <4>. QED
        BY <2>2, <4>1
    <3>. QED
      BY <1>5, <1>7, <1>8, <3>1
  <2>. QED
    BY <2>1, <2>2
<1>. QED
  BY <1>2, <1>9

LEMMA MaxFloor ==
  ASSUME NEW s \in S!Schemas, NEW n \in Nat, 1..n \subseteq DOMAIN Floor[s]
  PROVE  /\ S!Floors(s, 1..n) \in SUBSET Nat
         /\ S!Max(S!Floors(s, 1..n)) \in S!Floors(s, 1..n)
         /\ \A m \in S!Floors(s, 1..n) : S!Max(S!Floors(s, 1..n)) >= m
<1>1. \A m \in 1..n : Floor[s][m] \in Nat
  BY SchemaAssumption DEF S!Schemas
<1>2. PICK b \in Nat : \A m \in 1..n : Floor[s][m] <= b
  BY FloorsBounded
<1>3. S!Floors(s, 1..n) \in SUBSET Nat /\ S!Floors(s, 1..n) # {}
  BY <1>1 DEF S!Floors
<1>4. \A m \in S!Floors(s, 1..n) : m <= b + 1
  BY <1>1, <1>2 DEF S!Floors
<1>5. \E x \in S!Floors(s, 1..n) : \A m \in S!Floors(s, 1..n) : x >= m
  <2>1. b + 1 \in Nat
    OBVIOUS
  <2>. QED
    BY <1>3, <1>4, <2>1, GreatestNatural
<1>. QED
  BY <1>3, <1>5 DEF S!Max

\* A schema with a run of migrations applied admits what their floors ask.
Upto(s, n) == [applied |-> 1..n, min |-> IF n = 0 THEN 0 ELSE S!Max(S!Floors(s, 1..n))]

\* migrate: running what this code carries and the schema lacks extends the run.
LEMMA MigratedUpto ==
  ASSUME NEW s \in S!Schemas, NEW n \in Nat, NEW c \in Nat, n < c,
         1..c \subseteq DOMAIN Floor[s]
  PROVE  S!Migrated(s, (1..c) \ (1..n), Upto(s, n)) = Upto(s, c)
<1>. DEFINE ms == (1..c) \ (1..n)
            old == Upto(s, n).min
            X == {old} \cup S!Floors(s, ms)
            M == S!Max(S!Floors(s, 1..c))
<1>1. 1..n \subseteq DOMAIN Floor[s] /\ (1..n) \cup ms = 1..c
  OBVIOUS
<1>2. /\ S!Floors(s, 1..c) \in SUBSET Nat /\ M \in S!Floors(s, 1..c) /\ \A m \in S!Floors(s, 1..c) : M >= m
      /\ S!Floors(s, 1..n) \in SUBSET Nat
      /\ S!Max(S!Floors(s, 1..n)) \in S!Floors(s, 1..n)
      /\ \A m \in S!Floors(s, 1..n) : S!Max(S!Floors(s, 1..n)) >= m
  BY <1>1, MaxFloor
<1>3. S!Floors(s, 1..c) = S!Floors(s, 1..n) \cup S!Floors(s, ms) /\ 1 \in S!Floors(s, ms)
  BY <1>1 DEF S!Floors
<1>4. old = (IF n = 0 THEN 0 ELSE S!Max(S!Floors(s, 1..n)))
  BY DEF Upto
<1>5. n = 0 => S!Floors(s, 1..n) = {1}
  BY DEF S!Floors
<1>. HIDE DEF M, ms, old
<1>6. old \in Nat /\ old <= M
  BY <1>2, <1>3, <1>4
<1>7. X \in SUBSET Nat /\ \A m \in X : M >= m
  BY <1>2, <1>3, <1>6
<1>8. M \in X
  <2>1. CASE M \in S!Floors(s, ms)
    BY <2>1
  <2>2. CASE M \notin S!Floors(s, ms)
    <3>1. M \in S!Floors(s, 1..n) /\ n # 0
      BY <1>2, <1>3, <1>5, <2>2
    <3>2. old >= M
      BY <1>2, <1>4, <3>1
    <3>. QED
      BY <1>2, <1>6, <3>2
  <2>. QED
    BY <2>1, <2>2
<1>9. S!Max(X) = M
  <2>. HIDE DEF X
  <2>1. S!Max(X) \in X /\ \A m \in X : S!Max(X) >= m
    BY <1>7, <1>8 DEF S!Max
  <2>2. S!Max(X) \in Nat /\ M \in Nat /\ S!Max(X) >= M /\ M >= S!Max(X)
    BY <1>7, <1>8, <2>1
  <2>. QED
    BY <2>2
<1>10. S!Raised(s, old, ms) = M
  BY <1>9 DEF S!Raised
<1>11. S!Migrated(s, ms, Upto(s, n)) = [applied |-> (1..n) \cup ms, min |-> S!Raised(s, old, ms)]
  BY DEF S!Migrated, Upto, old
<1>. QED
  <2>1. c # 0
    OBVIOUS
  <2>2. Upto(s, c) = [applied |-> 1..c, min |-> M]
    BY <2>1 DEF Upto, M
  <2>3. S!Migrated(s, ms, Upto(s, n)) = Upto(s, c)
    BY <1>1, <1>10, <1>11, <2>2
  <2>. QED
    BY <2>3 DEF ms

\* Each schema is at the end of a run of migrations, Shreni's only on the engine's.
DbOK(d) ==
  /\ d = [s \in S!Schemas |-> d[s]]
  /\ \A s \in S!Schemas : \E n \in Nat : 1..n \subseteq DOMAIN Floor[s] /\ d[s] = Upto(s, n)
  /\ d["taskgraph"].applied = {} => d["shreni"].applied = {}

PlacesOK ==
  /\ server \in {"absent", "stopped", "starting", "up"} /\ made \in BOOLEAN
  /\ locked \in [S!Locks -> Proc \cup {None}]
  /\ at \in [Proc -> S!Place] /\ cmd \in [Proc -> S!Command] /\ runs \in [Proc -> 0..MaxCommands]
  /\ raced \subseteq Proc

Carries(p, s, d) == S!Carried(p, s) \subseteq d[s].applied

\* What a process has seen to on its way to the worker: the engine's migrations before it
\* turns to Shreni's, and both before it starts.
Prepared(p) ==
  /\ at[p] \in {"shreni", "shreni.tx", "shreni.up"} => Carries(p, "taskgraph", db)
  /\ at[p] \in {"worker", "working", "writing", "wrote"} => \A s \in S!Schemas : Carries(p, s, db)

SchemaInv ==
  /\ PlacesOK /\ DbOK(db) /\ \A d \in copies : DbOK(d)
  /\ \A p \in Proc : at[p] = "shreni.up" => db["taskgraph"].applied # {}
  /\ \A p, q \in Proc : at[q] = "restore" /\ at[p] \in S!Connected => p \in raced
  /\ \A p \in Proc \ raced : Prepared(p)

\* What one step of process p does, as far as the invariant needs it.  The database is left
\* as it is, a migration adds to it, or a restore puts a copy in its place.
Kept(p) == db' = db /\ copies' \subseteq copies \cup {db}
Ran(p, s) ==
  /\ at[p] = S!Up(s) /\ copies' = copies /\ Carries(p, s, db')
  /\ db' = IF S!Lacks(p, s) = {} THEN db ELSE [db EXCEPT ![s] = S!Migrated(s, S!Lacks(p, s), @)]
Restored(p) ==
  /\ at[p] = "restore" /\ at'[p] = "idle" /\ copies' = copies
  /\ db' \in copies /\ \A q \in Proc : at[q] \notin S!InTx

Arrives(p) ==
  /\ at'[p] = "restore" /\ at[p] # "restore" => ~S!OtherSessions(p)
  /\ at'[p] = "worker" /\ at[p] # "worker" =>
       \/ \A s \in S!Schemas : Carries(p, s, db')
       \/ at[p] \in {"shreni.tx", "shreni.up"} /\ Carries(p, "shreni", db')
  /\ at'[p] \in {"working", "writing", "wrote"} => at[p] \in {"worker", "working", "writing", "wrote"}
  /\ at'[p] = "shreni" /\ at[p] # "shreni" => Carries(p, "taskgraph", db')
  /\ at'[p] = "shreni.tx" => at[p] \in {"shreni", "shreni.tx"}
  /\ at'[p] = "shreni.up" /\ at[p] # "shreni.up" => at[p] = "shreni.tx" /\ db["taskgraph"].applied # {}

StepOf(p) ==
  /\ \A q \in Proc \ {p} : at'[q] = at[q]
  /\ Arrives(p)
  /\ Kept(p) \/ (\E s \in S!Schemas : Ran(p, s)) \/ Restored(p)

LEMMA SchemaInit == S!Init => SchemaInv
<1>. SUFFICES ASSUME S!Init PROVE SchemaInv
  OBVIOUS
<1>. USE SchemaAssumption DEF S!Schemas
<1>1. PICK old \in Left :
        db = [s \in S!Schemas |-> IF old[s] = 0 THEN S!Empty[s]
                                  ELSE [applied |-> 1..old[s], min |-> S!Max(S!Floors(s, 1..old[s]))]]
  BY DEF S!Init
<1>2. \A s \in S!Schemas : db[s] = Upto(s, old[s])
  <2>. SUFFICES ASSUME NEW s \in S!Schemas PROVE db[s] = Upto(s, old[s])
    OBVIOUS
  <2>1. CASE old[s] = 0
    <3>1. db[s] = [applied |-> {}, min |-> 0] /\ 1..0 = {}
      BY <1>1, <2>1 DEF S!Empty
    <3>. QED
      BY <2>1, <3>1 DEF Upto
  <2>2. CASE old[s] # 0
    BY <1>1, <2>2 DEF Upto
  <2>. QED
    BY <2>1, <2>2
<1>3. DbOK(db)
  <2>1. db["taskgraph"].applied = {} => old["taskgraph"] = 0
    <3>1. old["taskgraph"] \in Nat /\ db["taskgraph"].applied = 1..old["taskgraph"]
      BY <1>2 DEF Upto
    <3>2. old["taskgraph"] # 0 => 1 \in 1..old["taskgraph"]
      BY <3>1
    <3>. QED
      BY <3>1, <3>2
  <2>2. old["shreni"] = 0 => db["shreni"].applied = {}
    BY <1>2 DEF Upto
  <2>3. db = [s \in S!Schemas |-> db[s]]
    BY <1>1
  <2>. QED
    BY <1>2, <2>1, <2>2, <2>3 DEF DbOK
<1>4. PlacesOK
  BY DEF S!Init, PlacesOK, S!Locks, S!Place, S!Command
<1>. QED
  BY <1>3, <1>4 DEF S!Init, SchemaInv, Prepared, S!Connected, S!InTx

LEMMA SchemaPlaces ==
  ASSUME SchemaInv, S!Next
  PROVE  PlacesOK'
<1>. USE SchemaAssumption DEF SchemaInv, PlacesOK, S!Place, S!Connected, S!InTx, S!Goto, S!End, S!Passed, S!Found,
                              S!data, S!rest
<1>0. raced' \subseteq Proc
  BY DEF S!Next, S!Overtaken
<1>a. ASSUME NEW p \in Proc, S!Drop(p) PROVE locked' \in [S!Locks -> Proc \cup {None}]
  BY <1>a DEF S!Drop
<1>b. ASSUME NEW p \in Proc, NEW l \in S!Locks, S!Take(p, l) PROVE locked' \in [S!Locks -> Proc \cup {None}]
  BY <1>b DEF S!Take
<1>1. CASE S!ServerUp
  BY <1>0, <1>1 DEF S!ServerUp
<1>2. ASSUME NEW p \in Proc, NEW c \in S!Command, S!Begin(p, c) PROVE PlacesOK'
  BY <1>0, <1>2 DEF S!Begin, S!Command
<1>3. ASSUME NEW p \in Proc, S!Connects(p) PROVE PlacesOK'
  BY <1>0, <1>3 DEF S!Connects
<1>4. ASSUME NEW p \in Proc, S!StartServer(p) PROVE PlacesOK'
  BY <1>0, <1>4 DEF S!StartServer
<1>5. ASSUME NEW p \in Proc, S!CreateDatabase(p) PROVE PlacesOK'
  BY <1>0, <1>5 DEF S!CreateDatabase
<1>6. ASSUME NEW p \in Proc, S!Fresh(p) \/ S!Gate(p) \/ S!OpenMigrate(p) \/ S!Dump(p) PROVE PlacesOK'
  BY <1>0, <1>6 DEF S!Fresh, S!Gate, S!OpenMigrate, S!Dump
<1>7. ASSUME NEW p \in Proc, S!Fail(p) PROVE PlacesOK'
  BY <1>0, <1>a, <1>7 DEF S!Fail
<1>8. ASSUME NEW p \in Proc, NEW s \in S!Schemas, S!LockSchema(p, s) \/ S!LockMigrator(p, s) PROVE PlacesOK'
  BY <1>0, <1>b, <1>8 DEF S!LockSchema, S!LockMigrator, S!Tx, S!Up, S!Locks
<1>9. ASSUME NEW p \in Proc, NEW s \in S!Schemas, S!Newer(p, s) \/ S!Migrate(p, s) PROVE PlacesOK'
  BY <1>0, <1>a, <1>9 DEF S!Newer, S!Migrate, S!After
<1>10. ASSUME NEW p \in Proc, S!OpenClient(p) \/ S!Need(p) \/ S!WriteRow(p) \/ S!Commit(p) PROVE PlacesOK'
  BY <1>0, <1>10 DEF S!OpenClient, S!Need, S!WriteRow, S!Commit
<1>11. ASSUME NEW p \in Proc, S!LookForSessions(p) \/ S!Restore(p) PROVE PlacesOK'
  BY <1>0, <1>11 DEF S!LookForSessions, S!Restore
<1>. QED
  BY <1>1, <1>2, <1>3, <1>4, <1>5, <1>6, <1>7, <1>8, <1>9, <1>10, <1>11 DEF S!Next

LEMMA SchemaStep ==
  ASSUME SchemaInv, S!Next
  PROVE  (UNCHANGED <<db, copies, at>>) \/ \E p \in Proc : StepOf(p)
<1>. USE DEF SchemaInv, PlacesOK, StepOf, Arrives
<1>0. CASE S!ServerUp
  BY <1>0 DEF S!ServerUp, S!data
<1>1. ASSUME NEW p \in Proc, \E c \in S!Command : S!Begin(p, c) PROVE StepOf(p)
  BY <1>1 DEF S!Begin, S!Goto, S!Command, S!data, S!rest, Kept
<1>2. ASSUME NEW p \in Proc, S!Connects(p) PROVE StepOf(p)
  BY <1>2 DEF S!Connects, S!Found, S!Goto, S!End, S!data, S!rest, Kept
<1>3. ASSUME NEW p \in Proc, S!StartServer(p) PROVE StepOf(p)
  BY <1>3 DEF S!StartServer, S!Goto, S!data, S!rest, Kept
<1>4. ASSUME NEW p \in Proc, S!CreateDatabase(p) PROVE StepOf(p)
  BY <1>4 DEF S!CreateDatabase, S!Found, S!Goto, S!End, S!data, S!rest, Kept
<1>5. ASSUME NEW p \in Proc, S!Fresh(p) PROVE StepOf(p)
  BY <1>5 DEF S!Fresh, S!Goto, S!data, S!rest, Kept
<1>6. ASSUME NEW p \in Proc, S!Gate(p) PROVE StepOf(p)
  BY <1>6 DEF S!Gate, S!Passed, S!Goto, S!End, S!data, S!rest, Kept, S!PendingFor, S!Lacks, Carries
<1>7. ASSUME NEW p \in Proc, S!OpenMigrate(p) PROVE StepOf(p)
  BY <1>7 DEF S!OpenMigrate, S!Passed, S!Goto, S!data, S!rest, Kept, S!PendingFor, S!Lacks, Carries
<1>8. ASSUME NEW p \in Proc, S!Dump(p) PROVE StepOf(p)
  BY <1>8 DEF S!Dump, S!Goto, S!End, S!data, S!rest, Kept
<1>9. ASSUME NEW p \in Proc, S!Fail(p) PROVE StepOf(p)
  BY <1>9 DEF S!Fail, S!Goto, S!End, S!Drop, S!data, S!rest, Kept
<1>10. ASSUME NEW p \in Proc, S!OpenClient(p) PROVE StepOf(p)
  BY <1>10 DEF S!OpenClient, S!Goto, S!data, S!rest, Kept
<1>11. ASSUME NEW p \in Proc, S!Need(p) PROVE StepOf(p)
  BY <1>11 DEF S!Need, S!Goto, S!data, S!rest, Kept
<1>12. ASSUME NEW p \in Proc, S!WriteRow(p) PROVE StepOf(p)
  BY <1>12 DEF S!WriteRow, S!Goto, S!data, S!rest, Kept
<1>13. ASSUME NEW p \in Proc, S!Commit(p) PROVE StepOf(p)
  BY <1>13 DEF S!Commit, S!Goto, S!data, S!rest, Kept
<1>14. ASSUME NEW p \in Proc, S!LookForSessions(p) PROVE StepOf(p)
  BY <1>14 DEF S!LookForSessions, S!Goto, S!data, S!rest, Kept
<1>20. ASSUME NEW p \in Proc, NEW s \in S!Schemas, S!LockSchema(p, s) PROVE StepOf(p)
  BY <1>20 DEF S!LockSchema, S!Goto, S!Tx, S!Schemas, S!data, Kept
<1>21. ASSUME NEW p \in Proc, NEW s \in S!Schemas, S!LockMigrator(p, s) PROVE StepOf(p)
  BY <1>21 DEF S!LockMigrator, S!Goto, S!Tx, S!Up, S!Schemas, S!data, Kept
<1>22. ASSUME NEW p \in Proc, NEW s \in S!Schemas, S!Newer(p, s) PROVE StepOf(p)
  BY <1>22 DEF S!Newer, S!After, S!Passed, S!Goto, S!Tx, S!Schemas, S!data, S!Lacks, Carries, Kept
<1>23. ASSUME NEW p \in Proc, NEW s \in S!Schemas, S!Migrate(p, s) PROVE StepOf(p)
  <2>1. db' = (IF S!Lacks(p, s) = {} THEN db ELSE [db EXCEPT ![s] = S!Migrated(s, S!Lacks(p, s), @)])
    BY <1>23 DEF S!Migrate
  <2>2. Carries(p, s, db')
    <3>1. CASE S!Lacks(p, s) = {}
      BY <2>1, <3>1 DEF S!Lacks, Carries
    <3>2. CASE S!Lacks(p, s) # {}
      <4>1. db'[s] = S!Migrated(s, S!Lacks(p, s), db[s])
        BY <2>1, <3>2 DEF DbOK
      <4>. QED
        BY <4>1 DEF S!Migrated, S!Lacks, Carries
    <3>. QED
      BY <3>1, <3>2
  <2>3. Ran(p, s)
    BY <1>23, <2>1, <2>2 DEF S!Migrate, Ran
  <2>. QED
    BY <1>23, <2>2, <2>3 DEF S!Migrate, S!After, S!Passed, S!Goto, S!Up, S!Schemas
<1>24. ASSUME NEW p \in Proc, S!Restore(p) PROVE StepOf(p)
  BY <1>24 DEF S!Restore, S!End, S!Goto, Kept, Restored
<1>. QED
  BY <1>0, <1>1, <1>2, <1>3, <1>4, <1>5, <1>6, <1>7, <1>8, <1>9, <1>10, <1>11, <1>12, <1>13, <1>14, <1>20,
    <1>21, <1>22, <1>23, <1>24 DEF S!Next

LEMMA SchemaNext == SchemaInv /\ [S!Next]_schemaVars => SchemaInv'
<1>. SUFFICES ASSUME SchemaInv, [S!Next]_schemaVars PROVE SchemaInv'
  OBVIOUS
<1>1. CASE UNCHANGED schemaVars
  BY <1>1 DEF schemaVars, SchemaInv, PlacesOK, Prepared
<1>2. CASE S!Next
  <2>1. PlacesOK'
    BY <1>2, SchemaPlaces
  <2>2. \A p \in Proc : p \in raced /\ at[p] # "idle" => p \in raced'
    BY <1>2 DEF S!Next, S!Overtaken
  <2>3. \A p, q \in Proc : at[q] = "restore" /\ at[p] \notin S!Connected /\ (at'[p] \in S!Connected \/ at[p] = "worker")
          => p \in raced'
    BY <1>2 DEF S!Next, S!Overtaken
  <2>4. CASE UNCHANGED <<db, copies, at>>
    <3>1. \A p, q \in Proc : at'[q] = "restore" /\ at'[p] \in S!Connected => p \in raced'
      BY <2>2, <2>4 DEF SchemaInv, S!Connected, S!InTx
    <3>2. \A p \in Proc \ raced' : Prepared(p)'
      BY <2>2, <2>4 DEF SchemaInv, Prepared
    <3>. QED
      BY <2>1, <2>4, <3>1, <3>2 DEF SchemaInv
  <2>5. ASSUME NEW p \in Proc, StepOf(p) PROVE SchemaInv'
    <3>. USE DEF SchemaInv
    <3>1. /\ DbOK(db') /\ \A d \in copies' : DbOK(d)
          /\ Restored(p) \/ \A s \in S!Schemas : db[s].applied \subseteq db'[s].applied
      <4>1. CASE Kept(p)
        BY <4>1 DEF Kept
      <4>2. CASE Restored(p)
        BY <4>2 DEF Restored
      <4>3. ASSUME NEW s \in S!Schemas, Ran(p, s), S!Lacks(p, s) # {}
            PROVE  DbOK(db') /\ \A r \in S!Schemas : db[r].applied \subseteq db'[r].applied
        <5>. DEFINE c == Code[p][s]
        <5>1. PICK n \in Nat : 1..n \subseteq DOMAIN Floor[s] /\ db[s] = Upto(s, n)
          BY DEF DbOK
        <5>2. c \in Nat /\ 1..c \subseteq DOMAIN Floor[s]
          BY SchemaAssumption DEF S!Schemas
        <5>3. S!Lacks(p, s) = (1..c) \ (1..n)
          BY <5>1 DEF S!Lacks, S!Carried, Upto
        <5>4. n < c
          BY <4>3, <5>1, <5>2, <5>3
        <5>5. db' = [db EXCEPT ![s] = Upto(s, c)]
          BY <4>3, <5>1, <5>2, <5>3, <5>4, MigratedUpto DEF Ran
        <5>6. db'[s] = Upto(s, c) /\ \A r \in S!Schemas \ {s} : db'[r] = db[r]
          BY <5>5 DEF DbOK
        <5>7. \A r \in S!Schemas : db[r].applied \subseteq db'[r].applied
          <6>1. db[s].applied = 1..n /\ db'[s].applied = 1..c
            BY <5>1, <5>6 DEF Upto
          <6>2. 1..n \subseteq 1..c
            BY <5>2, <5>4
          <6>. QED
            BY <5>6, <6>1, <6>2
        <5>8. db' = [r \in S!Schemas |-> db'[r]]
          BY <5>5 DEF DbOK
        <5>9. \A r \in S!Schemas : \E k \in Nat : 1..k \subseteq DOMAIN Floor[r] /\ db'[r] = Upto(r, k)
          BY <5>2, <5>6 DEF DbOK
        <5>10. db'["taskgraph"].applied = {} => db'["shreni"].applied = {}
          <6>1. CASE s = "taskgraph"
            <7>1. 1 \in db'["taskgraph"].applied
              BY <5>2, <5>4, <5>6, <6>1 DEF Upto
            <7>. QED
              BY <7>1
          <6>2. CASE s = "shreni"
            BY <4>3, <5>7, <6>2 DEF Ran, S!Up, S!Schemas
          <6>. QED
            BY <6>1, <6>2 DEF S!Schemas
        <5>. QED
          BY <5>7, <5>8, <5>9, <5>10 DEF DbOK
      <4>4. CASE \E s \in S!Schemas : Ran(p, s)
        <5>1. PICK s \in S!Schemas : Ran(p, s)
          BY <4>4
        <5>2. copies' = copies
          BY <5>1 DEF Ran
        <5>3. CASE S!Lacks(p, s) = {}
          BY <5>1, <5>2, <5>3 DEF Ran
        <5>4. CASE S!Lacks(p, s) # {}
          BY <4>3, <5>1, <5>2, <5>4
        <5>. QED
          BY <5>3, <5>4
      <4>. QED
        BY <2>5, <4>1, <4>2, <4>4 DEF StepOf
    <3>2. \A q \in Proc : at'[q] = "shreni.up" => db'["taskgraph"].applied # {}
      <4>1. CASE Restored(p)
        BY <2>5, <4>1 DEF StepOf, Arrives, Restored, S!InTx
      <4>2. CASE \A s \in S!Schemas : db[s].applied \subseteq db'[s].applied
        BY <2>5, <4>2 DEF StepOf, Arrives, S!Schemas
      <4>. QED
        BY <3>1, <4>1, <4>2
    <3>3. \A r, q \in Proc : at'[q] = "restore" /\ at'[r] \in S!Connected => r \in raced'
      <4>. SUFFICES ASSUME NEW r \in Proc, NEW q \in Proc, at'[q] = "restore", at'[r] \in S!Connected
                    PROVE  r \in raced'
        OBVIOUS
      <4>1. CASE at[q] = "restore"
        BY <2>2, <2>3, <4>1 DEF S!Connected, S!InTx
      <4>2. CASE at[q] # "restore"
        <5>1. q = p /\ ~S!OtherSessions(p) /\ r # p
          BY <2>5, <4>2 DEF StepOf, Arrives, S!Connected, S!InTx
        <5>. QED
          BY <2>5, <5>1 DEF StepOf, S!OtherSessions
      <4>. QED
        BY <4>1, <4>2
    <3>4. ASSUME NEW r \in Proc \ raced' PROVE Prepared(r)'
      <4>1. at[r] # "idle" => r \notin raced
        BY <2>2
      <4>2. Restored(p) => at'[r] \notin {"shreni", "shreni.tx", "shreni.up", "worker", "working", "writing", "wrote"}
        <5>. SUFFICES ASSUME Restored(p), at'[r] \in {"shreni", "shreni.tx", "shreni.up", "worker", "working", "writing", "wrote"}
                      PROVE  FALSE
          OBVIOUS
        <5>1. r # p /\ at[r] = at'[r] /\ at[p] = "restore"
          BY <2>5 DEF StepOf, Restored
        <5>2. CASE at[r] = "worker"
          BY <2>3, <5>1, <5>2 DEF S!Connected, S!InTx
        <5>3. CASE at[r] # "worker"
          BY <2>2, <4>1, <5>1, <5>3 DEF S!Connected, S!InTx
        <5>. QED
          BY <5>2, <5>3
      <4>3. CASE \A s \in S!Schemas : db[s].applied \subseteq db'[s].applied
        <5>1. \A s \in S!Schemas : Carries(r, s, db) => Carries(r, s, db')
          BY <4>3 DEF Carries
        <5>2. CASE r # p
          BY <2>5, <4>1, <5>1, <5>2 DEF StepOf, Prepared, S!Schemas
        <5>3. CASE r = p
          <6>1. at'[r] \in {"shreni", "shreni.tx", "shreni.up"} => Carries(r, "taskgraph", db')
            BY <2>5, <4>1, <5>1, <5>3 DEF StepOf, Arrives, Prepared, S!Schemas
          <6>2. at'[r] \in {"worker", "working", "writing", "wrote"} => \A s \in S!Schemas : Carries(r, s, db')
            BY <2>5, <4>1, <5>1, <5>3 DEF StepOf, Arrives, Prepared, S!Schemas
          <6>. QED
            BY <6>1, <6>2 DEF Prepared
        <5>. QED
          BY <5>2, <5>3
      <4>. QED
        BY <3>1, <4>2, <4>3 DEF Prepared
    <3>. QED
      BY <2>1, <3>1, <3>2, <3>3, <3>4
  <2>. QED
    BY <1>2, <2>4, <2>5, SchemaStep
<1>. QED
  BY <1>1, <1>2

LEMMA UptoIsSound ==
  ASSUME NEW s \in S!Schemas, NEW n \in Nat, 1..n \subseteq DOMAIN Floor[s]
  PROVE  /\ Upto(s, n).applied \subseteq Nat /\ Upto(s, n).min \in Nat
         /\ Upto(s, n).applied # {} => /\ Upto(s, n).applied = 1..S!Max(Upto(s, n).applied)
                                       /\ Upto(s, n).min = S!Max(S!Floors(s, Upto(s, n).applied))
<1>1. Upto(s, n).applied = 1..n /\ Upto(s, n).min = IF n = 0 THEN 0 ELSE S!Max(S!Floors(s, 1..n))
  BY DEF Upto
<1>2. S!Max(S!Floors(s, 1..n)) \in Nat
  BY MaxFloor
<1>3. 1..n # {} => n # 0 /\ S!Max(1..n) = n
  <2>1. n # 0 => n \in 1..n /\ \A m \in 1..n : n >= m
    OBVIOUS
  <2>2. ASSUME NEW x \in 1..n, \A m \in 1..n : x >= m PROVE x = n
    BY <2>2
  <2>3. n = 0 => 1..n = {}
    OBVIOUS
  <2>. QED
    BY <2>1, <2>2, <2>3 DEF S!Max
<1>. QED
  BY <1>1, <1>2, <1>3

LEMMA SchemaInvSound == SchemaInv => SchemasSound
<1>. SUFFICES ASSUME SchemaInv PROVE SchemasSound
  OBVIOUS
<1>. USE DEF SchemaInv
<1>1. \A s \in S!Schemas : /\ db[s].applied \subseteq Nat /\ db[s].min \in Nat
                           /\ db[s].applied # {} => /\ db[s].applied = 1..S!Max(db[s].applied)
                                                    /\ db[s].min = S!Max(S!Floors(s, db[s].applied))
  BY UptoIsSound DEF DbOK
<1>2. S!TypeOK
  BY <1>1 DEF S!TypeOK, PlacesOK
<1>3. S!SchemaSound
  BY <1>1 DEF S!SchemaSound, DbOK
<1>4. S!StartsMigrated
  BY DEF S!StartsMigrated, Prepared, Carries
<1>. QED
  BY <1>2, <1>3, <1>4 DEF SchemasSound

LEMMA SchemaFence ==
  ASSUME SchemaInv, S!Next
  PROVE  \A p \in Proc : at[p] # "wrote" /\ at'[p] = "wrote" /\ p \notin raced =>
           /\ Triggers \in db["taskgraph"].applied
           /\ Code[p]["taskgraph"] >= S!Max(S!Floors("taskgraph", db["taskgraph"].applied))
<1>. SUFFICES ASSUME NEW p \in Proc, at[p] # "wrote", at'[p] = "wrote", p \notin raced
              PROVE  /\ Triggers \in db["taskgraph"].applied
                     /\ Code[p]["taskgraph"] >= S!Max(S!Floors("taskgraph", db["taskgraph"].applied))
  OBVIOUS
<1>1. S!WriteRow(p)
  <2>. USE DEF SchemaInv, PlacesOK, S!Goto, S!End, S!Passed, S!Found
  <2>1. ASSUME NEW q \in Proc, NEW c \in S!Command, S!Begin(q, c) PROVE FALSE
    BY <2>1 DEF S!Begin, S!Command
  <2>2. ASSUME NEW q \in Proc, NEW s \in S!Schemas,
               S!LockSchema(q, s) \/ S!Newer(q, s) \/ S!LockMigrator(q, s) \/ S!Migrate(q, s)
        PROVE  FALSE
    BY <2>2 DEF S!LockSchema, S!Newer, S!LockMigrator, S!Migrate, S!Tx, S!Up, S!After
  <2>3. ASSUME NEW q \in Proc,
               \/ S!Connects(q) \/ S!StartServer(q) \/ S!CreateDatabase(q) \/ S!Fresh(q)
               \/ S!Gate(q) \/ S!OpenMigrate(q) \/ S!Dump(q) \/ S!Fail(q)
        PROVE  FALSE
    BY <2>3 DEF S!Connects, S!StartServer, S!CreateDatabase, S!Fresh, S!Gate, S!OpenMigrate, S!Dump, S!Fail
  <2>4. ASSUME NEW q \in Proc,
               S!OpenClient(q) \/ S!Need(q) \/ S!Commit(q) \/ S!LookForSessions(q) \/ S!Restore(q)
        PROVE  FALSE
    BY <2>4 DEF S!OpenClient, S!Need, S!Commit, S!LookForSessions, S!Restore
  <2>5. ASSUME NEW q \in Proc, S!WriteRow(q), q # p PROVE FALSE
    BY <2>5 DEF S!WriteRow
  <2>6. S!ServerUp => FALSE
    BY DEF S!ServerUp
  <2>. QED
    BY <2>1, <2>2, <2>3, <2>4, <2>5, <2>6 DEF S!Next
<1>2. at[p] = "writing" /\ S!Admits(p)
  BY <1>1 DEF S!WriteRow, S!Goto, SchemaInv, PlacesOK
<1>3. Triggers \in db["taskgraph"].applied
  BY <1>2, SchemaAssumption DEF SchemaInv, Prepared, Carries, S!Carried, S!Schemas
<1>4. S!SchemaSound
  BY SchemaInvSound DEF SchemasSound
<1>5. db["taskgraph"].min = S!Max(S!Floors("taskgraph", db["taskgraph"].applied))
  BY <1>3, <1>4 DEF S!SchemaSound, S!Schemas
<1>. QED
  BY <1>2, <1>3, <1>5 DEF S!Admits

LEMMA SchemaKept == Spec => []SchemaInv
<1>1. Init => SchemaInv
  BY SchemaInit DEF Init
<1>2. SchemaInv /\ [Next]_<<part, requestVars, lockVars, activationVars, purgeVars, cancelVars, schemaVars>> => SchemaInv'
  <2>1. [Next]_<<part, requestVars, lockVars, activationVars, purgeVars, cancelVars, schemaVars>>
          => [S!Next]_schemaVars
    BY DEF Next
  <2>. QED
    BY <2>1, SchemaNext
<1>. QED
  BY <1>1, <1>2, PTL DEF Spec

\* migrate.ts, db.ts: through migrations of any number of releases at once, failures and
\* restores, each schema holds an unbroken run of migrations, admits exactly the writers their
\* floors ask for, and no worker starts on one that lacks what its code carries.
THEOREM SchemasStaySound == Spec => []SchemasSound
BY SchemaKept, SchemaInvSound, PTL

\* 0002_triggers.ts, client.ts need: no row goes in behind the version fence.
THEOREM RowsAreFenced == Spec => WritesFenced
<1>1. SchemaInv /\ [Next]_<<part, requestVars, lockVars, activationVars, purgeVars, cancelVars, schemaVars>>
        => [\A p \in Proc : at[p] # "wrote" /\ at'[p] = "wrote" /\ p \notin raced =>
              /\ Triggers \in db["taskgraph"].applied
              /\ Code[p]["taskgraph"] >= S!Max(S!Floors("taskgraph", db["taskgraph"].applied))]_(S!vars)
  <2>1. [Next]_<<part, requestVars, lockVars, activationVars, purgeVars, cancelVars, schemaVars>>
          => [S!Next]_(S!vars)
    BY DEF Next, schemaVars, S!vars
  <2>. QED
    BY <2>1, SchemaFence
<1>. QED
  BY <1>1, SchemaKept, PTL DEF Spec, WritesFenced, S!WritesFenced

----------------------------------------------------------------------------
(* Cancelling with dependants                                                *)

\* Cancel's graph operators are those of Digraph.
LEMMA CancelGraph ==
  ASSUME NEW N, NEW E
  PROVE  /\ C!Acyclic(N, E) <=> Acyclic(N, E)
         /\ \A x, y : C!Reaches(N, E, x, y) <=> Reaches(N, E, x, y)
  BY DEF C!Acyclic, Acyclic, C!Reaches, Reaches, C!ClosedUnder, ClosedUnder

\* An order of a finite set lists all of it, once.
LEMMA OrdersList ==
  ASSUME NEW X, IsFiniteSet(X), NEW s \in C!Orders(X)
  PROVE  s \in Seq(X) /\ Listed(s) = X /\ Distinct(s)
<1>1. C!Cardinality(X) = Cardinality(X) /\ Cardinality(X) \in Nat
  BY FS_CardinalityType DEF C!Cardinality, Cardinality
<1>2. s \in [1 .. Cardinality(X) -> X] /\ \A i, j \in 1 .. Len(s) : i # j => s[i] # s[j]
  BY <1>1 DEF C!Orders
<1>3. Len(s) = Cardinality(X)
  BY <1>1, <1>2
<1>. QED
  BY <1>2, <1>3, Permutes

\* What a command that no one disturbs has of its set: it is closed under children, and under
\* those who wait when waits are not dropped; each of it is cancelled, or on one of the two
\* lists once; and until a move of the pass succeeds, each task it put off is still waited on.
Passing ==
  /\ Listed(pass) \cup Listed(pending) \subseteq inSet \cap live
  /\ Distinct(pass) /\ Distinct(pending) /\ Listed(pass) \cap Listed(pending) = {}
  /\ \A c \in live : parent[c] \in inSet => c \in inSet
  /\ ~dropDeps => \A d \in deps : d[2] \in inSet /\ d[1] \in live => d[1] \in inSet
  /\ ~moved => \A t \in Listed(pending) : C!Children(t) # {} \/ (~dropDeps /\ C!Waiting(t) # {})

Undisturbed ==
  /\ claimed = {}
  /\ step = "look" => live = CancelTask /\ pending = <<>>
  /\ step = "cancel" => Passing
  /\ step # "stopped"
  /\ step = "stuck" => C!Tangled /\ ~dropDeps

CancelInv ==
  /\ C!TypeOK /\ acts \in Nat
  /\ parent \in [CancelTask -> CancelTask \cup {None}] /\ deps \subseteq CancelTask \X CancelTask
  /\ Acyclic(CancelTask, C!EdgesOf(parent))
  /\ step = "look" => pending = <<>>
  /\ step = "cancel" => inSet \cap live \subseteq Listed(pass) \cup Listed(pending)
  /\ step = "done" => inSet \cap live = {}
  /\ acts = 0 => Undisturbed

LEMMA CancelInit == Init => CancelInv
<1>. SUFFICES ASSUME Init PROVE CancelInv
  OBVIOUS
<1>1. C!TypeOK /\ acts = 0 /\ acts \in Nat /\ step = "look" /\ pending = <<>> /\ claimed = {} /\ live = CancelTask
  <2>1. /\ acts = 0 /\ step = "look" /\ pending = <<>> /\ pass = <<>> /\ moved = FALSE /\ inSet = {}
        /\ claimed = {} /\ live = CancelTask
    BY DEF Init, C!Init
  <2>2. pending \in Seq(CancelTask) /\ pass \in Seq(CancelTask)
    BY <2>1
  <2>. QED
    BY <2>1, <2>2 DEF C!TypeOK
<1>2. /\ parent \in [CancelTask -> CancelTask \cup {None}] /\ deps \subseteq CancelTask \X CancelTask
      /\ Acyclic(CancelTask, C!EdgesOf(parent))
  <2>1. CASE part = "cancel"
    BY <2>1, CancelAssumption, CancelGraph DEF Init, C!Init, C!Legal
  <2>2. CASE part # "cancel"
    <3>1. parent = [t \in CancelTask |-> None] /\ deps = {}
      BY <2>2 DEF Init
    <3>2. C!EdgesOf(parent) = {}
      BY <3>1 DEF C!EdgesOf
    <3>. QED
      BY <3>1, <3>2 DEF Acyclic
  <2>. QED
    BY <2>1, <2>2
<1>3. Undisturbed
  BY <1>1 DEF Undisturbed
<1>. QED
  BY <1>1, <1>2, <1>3 DEF CancelInv

\* A task's container is what an edge leads to.
LEMMA ParentEdges ==
  ASSUME CancelInv
  PROVE  /\ C!EdgesOf(parent) \subseteq CancelTask \X CancelTask
         /\ \A c \in CancelTask : parent[c] # None => <<c, parent[c]>> \in C!EdgesOf(parent)
  BY DEF CancelInv, C!EdgesOf

\* Looking takes a set closed under children, and is refused when it is not under waits.
LEMMA LookStep ==
  ASSUME CancelInv, C!Look
  PROVE  CancelInv'
<1>. DEFINE Edges == C!EdgesOf(parent)
            Set == {root} \cup (C!Below(root) \cap live)
<1>1. step = "look" /\ root \in live /\ live \subseteq CancelTask /\ inSet' = Set /\ moved' = FALSE
  BY DEF CancelInv, C!Look, C!TypeOK
<1>2. UNCHANGED <<parent, deps, live, claimed, root, dropDeps, acts, pending>> /\ pending = <<>>
  BY <1>1 DEF CancelInv, C!Look, C!graph
<1>3. Set \in SUBSET CancelTask /\ Set \subseteq live /\ IsFiniteSet(Set)
  <2>1. Set \in SUBSET CancelTask /\ Set \subseteq live
    BY <1>1 DEF C!Below
  <2>. QED
    BY <2>1, CancelAssumption, FS_Subset
<1>4. C!EdgesOf(parent)' = C!EdgesOf(parent)
  BY <1>2 DEF C!EdgesOf
<1>5. CASE step' = "refused" /\ pass' = pass
  <2>1. C!TypeOK'
    BY <1>1, <1>2, <1>3, <1>5 DEF CancelInv, C!TypeOK
  <2>2. (acts = 0 => Undisturbed)'
    BY <1>2, <1>5 DEF CancelInv, Undisturbed
  <2>. QED
    BY <1>2, <1>4, <1>5, <2>1, <2>2 DEF CancelInv
<1>6. CASE step' = "cancel" /\ pass' \in C!Orders(Set) /\ (dropDeps \/ C!Outside(Set) = {})
  <2>1. pass' \in Seq(Set) /\ Listed(pass') = Set /\ Distinct(pass')
    <3>. HIDE DEF Set
    <3>. QED
      BY <1>3, <1>6, OrdersList
  <2>2. pass' \in Seq(CancelTask)
    BY <1>3, <2>1
  <2>3. Listed(pending) = {} /\ Distinct(pending)
    BY <1>2, EmptyList
  <2>4. C!TypeOK'
    BY <1>1, <1>2, <1>3, <1>6, <2>2 DEF CancelInv, C!TypeOK
  <2>5. ASSUME acts = 0, NEW c \in live, parent[c] \in Set PROVE c \in Set
    <3>1. c \in CancelTask /\ parent[c] \in CancelTask /\ parent[c] # None
      BY <1>1, <1>3, <2>5, CancelAssumption
    <3>2. <<c, parent[c]>> \in Edges
      BY <3>1, ParentEdges
    <3>3. Reaches(CancelTask, Edges, parent[c], root)
      <4>1. CASE parent[c] = root
        BY <4>1, ReachesRefl
      <4>2. CASE parent[c] \in C!Below(root)
        BY <4>2, CancelGraph DEF C!Below, C!Above
      <4>. QED
        BY <2>5, <4>1, <4>2
    <3>4. Reaches(CancelTask, Edges, c, parent[c])
      BY <3>2, ReachesRefl, ReachesStep
    <3>5. Reaches(CancelTask, Edges, c, root)
      BY <3>3, <3>4, ReachesTrans
    <3>6. c # root => c \in C!Below(root)
      BY <1>1, <3>1, <3>5, CancelGraph DEF C!Below, C!Above
    <3>. QED
      BY <3>6
  <2>6. ASSUME ~dropDeps, NEW d \in deps, d[2] \in Set, d[1] \in live PROVE d[1] \in Set
    BY <1>6, <2>6 DEF C!Outside
  <2>7. (acts = 0 => Undisturbed)'
    <3>. SUFFICES ASSUME acts = 0 PROVE Undisturbed'
      BY <1>2
    <3>1. Passing'
      <4>. HIDE DEF Set
      <4>1. (Listed(pass) \cup Listed(pending) \subseteq inSet \cap live)'
        BY <1>1, <1>2, <1>3, <2>1, <2>3
      <4>2. (Distinct(pass) /\ Distinct(pending) /\ Listed(pass) \cap Listed(pending) = {})'
        BY <1>2, <2>1, <2>3
      <4>3. (\A c \in live : parent[c] \in inSet => c \in inSet)'
        BY <1>1, <1>2, <2>5
      <4>4. (~dropDeps => \A d \in deps : d[2] \in inSet /\ d[1] \in live => d[1] \in inSet)'
        BY <1>1, <1>2, <2>6
      <4>5. (\A t \in Listed(pending) : C!Children(t) # {} \/ (~dropDeps /\ C!Waiting(t) # {}))'
        BY <1>2, <2>3
      <4>. QED
        BY <4>1, <4>2, <4>3, <4>4, <4>5 DEF Passing
    <3>2. claimed = {}
      BY DEF CancelInv, Undisturbed
    <3>. QED
      BY <1>2, <1>6, <3>1, <3>2 DEF Undisturbed
  <2>8. (inSet \cap live \subseteq Listed(pass) \cup Listed(pending))'
    BY <1>1, <1>2, <2>1
  <2>. QED
    BY <1>2, <1>4, <1>6, <2>4, <2>7, <2>8 DEF CancelInv
<1>. QED
  BY <1>5, <1>6 DEF C!Look

\* One move cancels the first of the pass, puts it off, or stops; undisturbed, it never stops.
LEMMA MoveStep ==
  ASSUME CancelInv, C!MoveOne
  PROVE  CancelInv'
<1>. DEFINE t == Head(pass)
<1>1. /\ step = "cancel" /\ pass # <<>> /\ pass' = Tail(pass)
      /\ UNCHANGED <<parent, claimed, root, dropDeps, inSet, acts>>
  BY DEF C!MoveOne
<1>2. /\ t \in CancelTask /\ t \in Listed(pass) /\ pass' \in Seq(CancelTask)
      /\ Listed(pass) = {t} \cup Listed(pass')
      /\ Distinct(pass) => Distinct(pass') /\ t \notin Listed(pass')
  BY <1>1, HeadTail DEF CancelInv, C!TypeOK
<1>3. C!EdgesOf(parent)' = C!EdgesOf(parent)
  BY <1>1 DEF C!EdgesOf
<1>4. acts = 0 => Undisturbed /\ Passing /\ claimed = {} /\ t \in live /\ t \in inSet
  BY <1>1, <1>2 DEF CancelInv, Undisturbed, Passing
<1>. HIDE DEF t
<1>5. CASE /\ t \in live /\ t \notin claimed /\ live' = live \ {t} /\ deps' \subseteq deps
           /\ moved' = TRUE /\ UNCHANGED <<pending, step>>
  <2>1. C!TypeOK'
    BY <1>1, <1>2, <1>5 DEF CancelInv, C!TypeOK
  <2>2. (inSet \cap live \subseteq Listed(pass) \cup Listed(pending))'
    BY <1>1, <1>2, <1>5 DEF CancelInv
  <2>3. acts = 0 => Passing'
    <3>. SUFFICES ASSUME acts = 0 PROVE Passing'
      OBVIOUS
    <3>1. (Listed(pass) \cup Listed(pending) \subseteq inSet \cap live)'
      BY <1>1, <1>2, <1>4, <1>5 DEF Passing
    <3>2. (Distinct(pass) /\ Distinct(pending) /\ Listed(pass) \cap Listed(pending) = {})'
      BY <1>1, <1>2, <1>4, <1>5 DEF Passing
    <3>3. (\A c \in live : parent[c] \in inSet => c \in inSet)'
      BY <1>1, <1>4, <1>5 DEF Passing
    <3>4. (~dropDeps => \A d \in deps : d[2] \in inSet /\ d[1] \in live => d[1] \in inSet)'
      BY <1>1, <1>4, <1>5 DEF Passing
    <3>. QED
      BY <1>5, <3>1, <3>2, <3>3, <3>4 DEF Passing
  <2>4. (acts = 0 => Undisturbed)'
    BY <1>1, <1>4, <1>5, <2>3 DEF Undisturbed
  <2>. QED
    BY <1>1, <1>3, <1>5, <2>1, <2>2, <2>4 DEF CancelInv
<1>6. CASE /\ t \in live /\ (C!Children(t) # {} \/ (~dropDeps /\ C!Waiting(t) # {}))
           /\ pending' = Append(pending, t) /\ UNCHANGED <<live, deps, moved, step>>
  <2>0. pending \in Seq(CancelTask)
    BY DEF CancelInv, C!TypeOK
  <2>1. /\ pending' \in Seq(CancelTask) /\ Listed(pending') = Listed(pending) \cup {t}
        /\ Distinct(pending) /\ t \notin Listed(pending) => Distinct(pending')
    BY <1>2, <1>6, <2>0, Appended
  <2>2. C!TypeOK'
    BY <1>1, <1>2, <1>6, <2>1 DEF CancelInv, C!TypeOK
  <2>3. (inSet \cap live \subseteq Listed(pass) \cup Listed(pending))'
    BY <1>1, <1>2, <1>6, <2>1 DEF CancelInv
  <2>4. acts = 0 => Passing'
    <3>. SUFFICES ASSUME acts = 0 PROVE Passing'
      OBVIOUS
    <3>1. (Listed(pass) \cup Listed(pending) \subseteq inSet \cap live)'
      BY <1>1, <1>2, <1>4, <1>6, <2>1 DEF Passing
    <3>2. t \notin Listed(pending)
      BY <1>2, <1>4 DEF Passing
    <3>3. (Distinct(pass) /\ Distinct(pending) /\ Listed(pass) \cap Listed(pending) = {})'
      BY <1>2, <1>4, <2>1, <3>2 DEF Passing
    <3>4. (\A c \in live : parent[c] \in inSet => c \in inSet)'
      BY <1>1, <1>4, <1>6 DEF Passing
    <3>5. (~dropDeps => \A d \in deps : d[2] \in inSet /\ d[1] \in live => d[1] \in inSet)'
      BY <1>1, <1>4, <1>6 DEF Passing
    <3>6. (~moved => \A u \in Listed(pending) : C!Children(u) # {} \/ (~dropDeps /\ C!Waiting(u) # {}))'
      <4>. SUFFICES ASSUME ~moved', NEW u \in Listed(pending')
                    PROVE  (C!Children(u) # {} \/ (~dropDeps /\ C!Waiting(u) # {}))'
        OBVIOUS
      <4>1. C!Children(u) # {} \/ (~dropDeps /\ C!Waiting(u) # {})
        BY <1>4, <1>6, <2>1 DEF Passing
      <4>2. C!Children(u)' = C!Children(u) /\ C!Waiting(u)' = C!Waiting(u) /\ dropDeps' = dropDeps
        BY <1>1, <1>6 DEF C!Children, C!Waiting
      <4>. QED
        BY <4>1, <4>2
    <3>. QED
      BY <3>1, <3>3, <3>4, <3>5, <3>6 DEF Passing
  <2>5. (acts = 0 => Undisturbed)'
    BY <1>1, <1>4, <1>6, <2>4 DEF Undisturbed
  <2>. QED
    BY <1>1, <1>3, <1>6, <2>2, <2>3, <2>5 DEF CancelInv
<1>7. CASE /\ acts # 0 /\ step' = "stopped" /\ UNCHANGED <<live, deps, moved, pending>>
  <2>1. C!TypeOK'
    BY <1>1, <1>2, <1>7 DEF CancelInv, C!TypeOK
  <2>. QED
    BY <1>1, <1>3, <1>7, <2>1 DEF CancelInv
<1>8. ASSUME t \in live, C!Children(t) # {} \/ (~dropDeps /\ C!Waiting(t) # {}), acts = 0
      PROVE  C!Children(t) \subseteq inSet /\ (C!Children(t) # {} \/ C!Waiting(t) \subseteq inSet)
  <2>1. C!Children(t) \subseteq inSet
    BY <1>4, <1>8 DEF C!Children, Passing
  <2>2. ~dropDeps => C!Waiting(t) \subseteq inSet
    BY <1>4, <1>8 DEF C!Waiting, Passing
  <2>. QED
    BY <1>8, <2>1, <2>2
<1>9. \/ /\ t \in live /\ t \notin claimed /\ C!Children(t) = {} /\ (dropDeps \/ C!Waiting(t) = {})
         /\ live' = live \ {t}
         /\ deps' = IF dropDeps THEN {d \in deps : d[2] # t \/ d[1] \notin live} ELSE deps
         /\ moved' = TRUE /\ UNCHANGED <<pending, step>>
      \/ /\ t \in live \ claimed /\ (C!Children(t) # {} \/ (~dropDeps /\ C!Waiting(t) # {}))
         /\ IF C!Children(t) \subseteq inSet /\ (C!Children(t) # {} \/ C!Waiting(t) \subseteq inSet)
            THEN pending' = Append(pending, t) /\ UNCHANGED step
            ELSE step' = "stopped" /\ UNCHANGED pending
         /\ UNCHANGED <<live, deps, moved>>
      \/ /\ t \notin live \/ t \in claimed
         /\ step' = "stopped" /\ UNCHANGED <<live, deps, moved, pending>>
  BY DEF C!MoveOne, t
<1>. QED
  BY <1>4, <1>5, <1>6, <1>7, <1>8, <1>9

\* The end of a pass in which nothing moved: every task left is waited on by one that is left,
\* so the tasks left hold a circle.
LEMMA StuckIsTangled ==
  ASSUME CancelInv, Passing, step = "cancel", pass = <<>>, pending # <<>>, ~moved
  PROVE  C!Tangled /\ ~dropDeps
<1>. DEFINE Q == Listed(pending)
            Waits == IF dropDeps THEN C!EdgesOf(parent) ELSE C!EdgesOf(parent) \cup deps
<1>1. Q = inSet \cap live /\ Q \in SUBSET CancelTask /\ Q # {}
  <2>1. Listed(pass) = {}
    BY EmptyList
  <2>2. Q \subseteq inSet \cap live /\ inSet \cap live \subseteq Q
    BY <2>1 DEF CancelInv, Passing
  <2>3. pending \in Seq(CancelTask) /\ inSet \subseteq CancelTask
    BY DEF CancelInv, C!TypeOK
  <2>4. Head(pending) \in Q
    BY <2>3, HeadTail
  <2>. QED
    BY <2>2, <2>3, <2>4
<1>2. Waits \subseteq CancelTask \X CancelTask
  BY ParentEdges DEF CancelInv
<1>3. ASSUME NEW t \in Q PROVE \E c \in Q : <<c, t>> \in Waits
  <2>1. t \in CancelTask /\ t # None /\ t \in inSet
    BY <1>1, CancelAssumption
  <2>2. CASE C!Children(t) # {}
    <3>1. PICK c \in live : parent[c] = t
      BY <2>2 DEF C!Children
    <3>2. c \in Q
      BY <1>1, <2>1, <3>1 DEF Passing
    <3>3. <<c, t>> \in C!EdgesOf(parent)
      BY <1>1, <2>1, <3>1, <3>2, ParentEdges
    <3>. QED
      BY <3>2, <3>3
  <2>3. CASE ~dropDeps /\ C!Waiting(t) # {}
    <3>1. PICK d \in deps : d[2] = t /\ d[1] \in live
      BY <2>3 DEF C!Waiting
    <3>2. d[1] \in Q
      BY <1>1, <2>1, <2>3, <3>1 DEF Passing
    <3>3. d = <<d[1], t>>
      BY <3>1 DEF CancelInv
    <3>4. <<d[1], t>> \in Waits
      BY <2>3, <3>1, <3>3
    <3>. QED
      BY <3>2, <3>4
  <2>. QED
    BY <2>2, <2>3 DEF Passing
<1>4. ~Acyclic(CancelTask, Waits)
  <2>. SUFFICES ASSUME Acyclic(CancelTask, Waits) PROVE FALSE
    OBVIOUS
  <2>. HIDE DEF Q, Waits
  <2>1. \E t \in Q : \A c \in Q : <<c, t>> \notin Waits
    BY <1>1, <1>2, CancelAssumption, HasSource
  <2>. QED
    BY <1>3, <2>1
<1>5. ~dropDeps
  BY <1>4 DEF CancelInv
<1>. QED
  BY <1>4, <1>5, CancelGraph DEF C!Tangled

LEMMA PassStep ==
  ASSUME CancelInv, C!NextPass
  PROVE  CancelInv'
<1>1. /\ step = "cancel" /\ pass = <<>> /\ pass' = pending /\ pending' = <<>> /\ moved' = FALSE
      /\ step' = IF pending = <<>> THEN "done" ELSE IF moved THEN "cancel" ELSE "stuck"
      /\ UNCHANGED <<parent, deps, live, claimed, root, dropDeps, inSet, acts>>
  BY DEF C!NextPass, C!Again, C!graph
<1>2. C!EdgesOf(parent)' = C!EdgesOf(parent)
  BY <1>1 DEF C!EdgesOf
<1>3. pending' \in Seq(CancelTask) /\ pass' \in Seq(CancelTask)
  BY <1>1 DEF CancelInv, C!TypeOK
<1>4. C!TypeOK'
  BY <1>1, <1>3 DEF CancelInv, C!TypeOK
<1>5. Listed(pass) = {} /\ Listed(pending') = {} /\ Distinct(pending')
  BY <1>1, EmptyList
<1>6. (step = "cancel" => inSet \cap live \subseteq Listed(pass) \cup Listed(pending))'
  BY <1>1, <1>5 DEF CancelInv
<1>7. (step = "done" => inSet \cap live = {})'
  BY <1>1, <1>5, EmptyList DEF CancelInv
<1>8. (acts = 0 => Undisturbed)'
  <2>. SUFFICES ASSUME acts = 0 PROVE Undisturbed'
    BY <1>1
  <2>1. Undisturbed /\ Passing
    BY <1>1 DEF CancelInv, Undisturbed
  <2>2. Passing'
    <3>1. (Listed(pass) \cup Listed(pending) \subseteq inSet \cap live)'
      BY <1>1, <1>5, <2>1 DEF Passing
    <3>2. (Distinct(pass) /\ Distinct(pending) /\ Listed(pass) \cap Listed(pending) = {})'
      BY <1>1, <1>5, <2>1 DEF Passing
    <3>3. (\A c \in live : parent[c] \in inSet => c \in inSet)'
      BY <1>1, <2>1 DEF Passing
    <3>4. (~dropDeps => \A d \in deps : d[2] \in inSet /\ d[1] \in live => d[1] \in inSet)'
      BY <1>1, <2>1 DEF Passing
    <3>5. (\A t \in Listed(pending) : C!Children(t) # {} \/ (~dropDeps /\ C!Waiting(t) # {}))'
      BY <1>5
    <3>. QED
      BY <3>1, <3>2, <3>3, <3>4, <3>5 DEF Passing
  <2>3. step' = "stuck" => (C!Tangled /\ ~dropDeps)'
    <3>. SUFFICES ASSUME step' = "stuck" PROVE (C!Tangled /\ ~dropDeps)'
      OBVIOUS
    <3>1. C!Tangled /\ ~dropDeps
      BY <1>1, <2>1, StuckIsTangled
    <3>2. C!Tangled' = C!Tangled
      BY <1>1, <1>2 DEF C!Tangled
    <3>. QED
      BY <1>1, <3>1, <3>2
  <2>4. step' \in {"done", "cancel", "stuck"}
    BY <1>1
  <2>. QED
    BY <1>1, <2>1, <2>2, <2>3, <2>4 DEF Undisturbed
<1>. QED
  BY <1>1, <1>2, <1>4, <1>6, <1>7, <1>8 DEF CancelInv

LEMMA CancelNext == CancelInv /\ [C!Next]_cancelVars => CancelInv'
<1>. SUFFICES ASSUME CancelInv, [C!Next]_cancelVars PROVE CancelInv'
  OBVIOUS
<1>1. CASE C!Others
  <2>1. /\ acts' = acts + 1 /\ step = "cancel" /\ live' \subseteq live /\ claimed' \subseteq live'
        /\ UNCHANGED <<parent, root, dropDeps, pending, pass, moved, step, inSet>>
    BY <1>1 DEF C!Others, CancelInv, C!TypeOK
  <2>2. deps' \subseteq CancelTask \X CancelTask
    BY <1>1 DEF C!Others, CancelInv, C!TypeOK
  <2>3. C!EdgesOf(parent)' = C!EdgesOf(parent)
    BY <2>1 DEF C!EdgesOf
  <2>4. C!TypeOK'
    BY <2>1 DEF CancelInv, C!TypeOK
  <2>5. acts' \in Nat /\ acts' # 0
    BY <2>1 DEF CancelInv
  <2>. QED
    BY <2>1, <2>2, <2>3, <2>4, <2>5 DEF CancelInv
<1>2. CASE UNCHANGED cancelVars
  BY <1>2 DEF cancelVars, CancelInv, C!TypeOK, C!EdgesOf, Undisturbed, Passing, C!Tangled, C!Children, C!Waiting
<1>. QED
  BY <1>1, <1>2, LookStep, MoveStep, PassStep DEF C!Next

\* by-hand.ts cancelByHand, for every finite forest of tasks and every order of the moves of
\* others: when it ends, all it set out to cancel is cancelled; undisturbed it is never stopped
\* part way, and it is stuck only on tasks that wait on each other in a circle.
THEOREM CancelsEndWhole == Spec => []CancelsWhole
<1>1. Init => CancelInv
  BY CancelInit
<1>2. CancelInv /\ [Next]_<<part, requestVars, lockVars, activationVars, purgeVars, cancelVars, schemaVars>> => CancelInv'
  <2>1. [Next]_<<part, requestVars, lockVars, activationVars, purgeVars, cancelVars, schemaVars>>
          => [C!Next]_cancelVars
    BY DEF Next
  <2>. QED
    BY <2>1, CancelNext
<1>3. CancelInv => CancelsWhole
  BY DEF CancelInv, Undisturbed, CancelsWhole, C!CancelsWhole
<1>. QED
  BY <1>1, <1>2, <1>3, PTL DEF Spec

=============================================================================
