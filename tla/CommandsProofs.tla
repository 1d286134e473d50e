--------------------------- MODULE CommandsProofs ---------------------------
(***************************************************************************)
(* What the commands keep, proved for any number of processes, people,      *)
(* launchers, files, reviews, runs and crashes.  Each part is proved from   *)
(* its own Init and Next; Commands runs one of them and leaves the others   *)
(* as they began, so it keeps what each part keeps.                         *)
(***************************************************************************)
EXTENDS Commands, DataTheorems, Sequences

----------------------------------------------------------------------------
(* Starting and stopping the worker                                          *)

Points == {"idle", "own", "break", "signal", "wipe", "done"} \cup O!Waiting \cup O!Inside
Sights == Proc \cup {None} \cup (O!Actor \X O!Waiting)
Jobs == [pc : Points, for : Proc \cup {None}, sees : Sights]

OwnTypes == O!TypeOK /\ job \in [O!Actor -> Jobs]

Acting(a) == job[a].pc \notin {"idle", "done"}

\* Whoever acts does so for a process that was born; a worker acts for itself, and while it does
\* it lives; a command does not own; what stop is about to clear was not alive.
Claimants ==
  /\ \A a \in O!Actor :
       /\ Acting(a) => job[a].for \in Proc /\ os[job[a].for] # "unborn"
       /\ job[a].pc = "break" => job[a].sees \in O!Actor \X O!Waiting
  /\ \A p \in Proc :
       /\ os[p] = "unborn" => job[p].pc = "idle"
       /\ Acting(p) => job[p].for = p /\ os[p] = "worker" /\ job[p].pc \notin {"signal", "wipe"}
  /\ \A c \in Cmd :
       /\ job[c].pc \notin {"own", "release", "drop"}
       /\ job[c].pc = "break" => job[c].sees[2] = "claim"
       /\ job[c].pc = "wipe" => job[c].sees \in Proc /\ os[job[c].sees] \in {"dead", "other"}
  /\ pidfile # None => os[pidfile] # "unborn"

\* A worker owns the Kshetra until its release has the lock, tries to break an old lock included.
Owns(p) == job[p].pc \in {"own", "release"} \/ (job[p].pc = "break" /\ job[p].sees[2] = "release")

\* An old lock is nobody's.
OldIsLeft == old => lock # None /\ job[lock].pc \notin O!Inside

\* Until a wrong file is removed, who is inside has the lock, who is about to write has seen
\* that nobody else owns, and who owns or is about to is the one worker.pid names.
OneInside ==
  ~spoiled =>
    /\ \A a \in O!Actor : job[a].pc \in O!Inside => lock = a
    /\ \A a \in O!Actor : job[a].pc = "write" => \A p \in Proc : Owns(p) => p = job[a].for
    /\ \A p \in Proc : Owns(p) \/ (job[p].pc = "unlock" /\ job[p].sees = job[p].for) => pidfile = p

OwnInv == OwnTypes /\ Claimants /\ OldIsLeft /\ OneInside

LEMMA OwnInit == O!Init => OwnInv
<1>. SUFFICES ASSUME O!Init PROVE OwnInv
  OBVIOUS
<1>. USE ProcessAssumption DEF Jobs, Points, Sights, O!Init, O!Idle, O!Job, O!Actor, O!Waiting, O!Inside
<1>1. OwnTypes
  BY DEF OwnTypes, O!TypeOK
<1>2. Claimants
  BY DEF Claimants, Acting
<1>3. OldIsLeft /\ OneInside
  BY DEF OldIsLeft, OneInside, Owns
<1>. QED
  BY <1>1, <1>2, <1>3 DEF OwnInv

LEMMA JobMoves ==
  ASSUME OwnTypes, NEW a \in O!Actor, NEW pc1 \in Points, NEW sees1 \in Sights
  PROVE  /\ [job EXCEPT ![a].pc = pc1] \in [O!Actor -> Jobs]
         /\ [job EXCEPT ![a].pc = pc1, ![a].sees = sees1] \in [O!Actor -> Jobs]
         /\ [job[a] EXCEPT !.sees = sees1, !.pc = pc1] \in Jobs
BY DEF OwnTypes, Jobs

LEMMA OwnNext == OwnInv /\ [O!Next]_ownershipVars => OwnInv'
<1>. SUFFICES ASSUME OwnInv, [O!Next]_ownershipVars PROVE OwnInv'
  OBVIOUS
<1>. USE ProcessAssumption DEF OwnInv, Jobs, Points, Sights, O!Actor, O!Waiting, O!Inside
<1>0. CASE UNCHANGED ownershipVars
  BY <1>0 DEF ownershipVars, OwnTypes, O!TypeOK, Claimants, Acting, OldIsLeft, OneInside, Owns
<1>1. ASSUME NEW a \in O!Actor, O!Acquire(a) PROVE OwnInv'
  <2>1. /\ job[a].pc \in O!Waiting /\ lock = None /\ lock' = a /\ old' = FALSE /\ UNCHANGED <<pidfile, os, spoiled>>
    BY <1>1 DEF O!Acquire, O!MayAcquire, OwnTypes, O!TypeOK
  <2>2. OwnTypes'
    <3>1. job' \in [O!Actor -> Jobs]
      <4>. HIDE DEF Jobs
      <4>. QED
        BY <1>1, JobMoves DEF O!Acquire
    <3>. QED
      BY <2>1, <3>1 DEF OwnTypes, O!TypeOK
  <2>3. /\ job'[a].pc = IF job[a].pc = "claim" THEN "in" ELSE "drop"
        /\ job'[a].for = job[a].for /\ job'[a].sees = job[a].sees
        /\ \A b \in O!Actor \ {a} : job'[b] = job[b]
    BY <1>1, <2>1 DEF O!Acquire, O!MayAcquire, OwnTypes
  <2>4. Claimants'
    BY <2>1, <2>3 DEF Claimants, Acting, OwnTypes, O!TypeOK
  <2>5. OldIsLeft'
    BY <2>1, <2>3 DEF Claimants, Acting, OldIsLeft, OwnTypes, O!TypeOK
  <2>6. OneInside'
    BY <2>1, <2>3 DEF Claimants, Acting, OldIsLeft, OneInside, Owns, OwnTypes, O!TypeOK
  <2>. QED
    BY <2>2, <2>4, <2>5, <2>6
<1>2. ASSUME NEW a \in O!Actor, O!FindsOld(a) PROVE OwnInv'
  <2>1. /\ job[a].pc \in O!Waiting /\ lock \in O!Actor /\ UNCHANGED <<pidfile, lock, old, os, spoiled>>
    BY <1>2 DEF O!FindsOld, OwnTypes, O!TypeOK
  <2>2. OwnTypes'
    <3>1. job' \in [O!Actor -> Jobs]
      <4>1. "break" \in Points /\ <<lock, job[a].pc>> \in Sights
        BY <2>1
      <4>. HIDE DEF Jobs, Points, Sights
      <4>. QED
        BY <1>2, <4>1, JobMoves DEF O!FindsOld
    <3>. QED
      BY <2>1, <3>1 DEF OwnTypes, O!TypeOK
  <2>3. /\ job'[a].pc = "break"
        /\ job'[a].for = job[a].for /\ job'[a].sees = <<lock, job[a].pc>>
        /\ \A b \in O!Actor \ {a} : job'[b] = job[b]
    BY <1>2, <2>1 DEF O!FindsOld, OwnTypes
  <2>4. Claimants'
    <3>1. job'[a].sees \in O!Actor \X O!Waiting /\ job'[a].sees[2] = job[a].pc
      BY <2>1, <2>3
    <3>2. Acting(a)' /\ Acting(a) /\ \A b \in O!Actor \ {a} : Acting(b)' = Acting(b)
      BY <2>1, <2>3 DEF Acting
    <3>3. \A b \in O!Actor : /\ Acting(b)' => job'[b].for \in Proc /\ os'[job'[b].for] # "unborn"
                             /\ job'[b].pc = "break" => job'[b].sees \in O!Actor \X O!Waiting
      BY <2>1, <2>3, <3>1, <3>2 DEF Claimants
    <3>4. \A q \in Proc : /\ os'[q] = "unborn" => job'[q].pc = "idle"
                          /\ Acting(q)' => /\ job'[q].for = q /\ os'[q] = "worker"
                                           /\ job'[q].pc \notin {"signal", "wipe"}
      BY <2>1, <2>3, <3>2 DEF Claimants
    <3>5. \A d \in Cmd :
            /\ job'[d].pc \notin {"own", "release", "drop"}
            /\ job'[d].pc = "break" => job'[d].sees[2] = "claim"
            /\ job'[d].pc = "wipe" => job'[d].sees \in Proc /\ os'[job'[d].sees] \in {"dead", "other"}
      BY <2>1, <2>3, <3>1 DEF Claimants
    <3>. QED
      BY <2>1, <3>3, <3>4, <3>5 DEF Claimants
  <2>5. OldIsLeft'
    BY <2>1, <2>3 DEF Claimants, Acting, OldIsLeft, OwnTypes, O!TypeOK
  <2>6. OneInside'
    BY <2>1, <2>3 DEF Claimants, Acting, OldIsLeft, OneInside, Owns, OwnTypes, O!TypeOK
  <2>. QED
    BY <2>2, <2>4, <2>5, <2>6
<1>3. ASSUME NEW a \in O!Actor, O!Break(a) PROVE OwnInv'
  <2>1. /\ job[a].pc = "break" /\ job[a].sees \in O!Actor \X O!Waiting
        /\ spoiled' = (spoiled \/ (lock # None /\ ~(lock = job[a].sees[1] /\ old)))
        /\ lock' = None /\ old' = FALSE /\ UNCHANGED <<pidfile, os>>
    BY <1>3 DEF O!Break, OwnTypes, O!TypeOK, Claimants
  <2>2. OwnTypes'
    <3>1. job' \in [O!Actor -> Jobs]
      <4>1. job[a].sees[2] \in Points /\ None \in Sights
        BY <2>1
      <4>. HIDE DEF Jobs, Points, Sights
      <4>. QED
        BY <1>3, <4>1, JobMoves DEF O!Break
    <3>. QED
      BY <2>1, <3>1 DEF OwnTypes, O!TypeOK
  <2>3. /\ job'[a].pc = job[a].sees[2]
        /\ job'[a].for = job[a].for /\ job'[a].sees = None
        /\ \A b \in O!Actor \ {a} : job'[b] = job[b]
    BY <1>3, <2>1 DEF O!Break, OwnTypes
  <2>4. Claimants'
    BY <2>1, <2>3 DEF Claimants, Acting, OwnTypes, O!TypeOK
  <2>5. OldIsLeft'
    BY <2>1, <2>3 DEF Claimants, Acting, OldIsLeft, OwnTypes, O!TypeOK
  <2>6. OneInside'
    <3>1. ~spoiled' => \A b \in O!Actor : job[b].pc \notin O!Inside
      BY <2>1 DEF OldIsLeft, OneInside
    <3>2. \A p \in Proc : Owns(p)' <=> Owns(p)
      BY <2>1, <2>3 DEF Owns
    <3>. QED
      BY <2>1, <2>3, <3>1, <3>2 DEF OneInside
  <2>. QED
    BY <2>2, <2>4, <2>5, <2>6
<1>4. ASSUME NEW a \in O!Actor, O!GiveUp(a) PROVE OwnInv'
  <2>. DEFINE R == [pc |-> "done", for |-> None, sees |-> None]
  <2>1. job' = [job EXCEPT ![a] = R]
    BY <1>4 DEF O!GiveUp, O!Ends, O!Job, OwnTypes
  <2>2. /\ job[a].pc \in O!Waiting /\ os' = (IF a \in Proc THEN [os EXCEPT ![a] = "dead"] ELSE os)
        /\ UNCHANGED <<pidfile, lock, old, spoiled>>
    BY <1>4 DEF O!GiveUp, O!Ends, O!Job, OwnTypes
  <2>3. \A b \in O!Actor : job'[b] = IF b = a THEN R ELSE job[b]
    BY <2>1 DEF OwnTypes
  <2>4. OwnTypes'
    BY <2>1, <2>2 DEF OwnTypes, O!TypeOK
  <2>5. Claimants'
    BY <2>2, <2>3 DEF Claimants, Acting, OwnTypes, O!TypeOK
  <2>6. OldIsLeft'
    BY <2>2, <2>3 DEF Claimants, Acting, OldIsLeft, OwnTypes, O!TypeOK
  <2>7. OneInside'
    BY <2>2, <2>3 DEF Claimants, Acting, OldIsLeft, OneInside, Owns, OwnTypes, O!TypeOK
  <2>. QED
    BY <2>4, <2>5, <2>6, <2>7
<1>5. ASSUME NEW a \in O!Actor, O!Judge(a) PROVE OwnInv'
  <2>1. /\ job[a].pc = "in" /\ UNCHANGED <<pidfile, lock, old, os, spoiled>>
    BY <1>5 DEF O!Judge, OwnTypes, O!TypeOK
  <2>2. OwnTypes'
    <3>. DEFINE X == IF pidfile # job[a].for /\ O!IsLiveWorker(pidfile) THEN "unlock" ELSE "write"
                R == [job[a] EXCEPT !.sees = pidfile, !.pc = X]
    <3>1. job' = [job EXCEPT ![a] = R]
      BY <1>5 DEF O!Judge, OwnTypes
    <3>2. R \in Jobs
      <4>1. X \in Points /\ pidfile \in Sights
        BY DEF OwnTypes, O!TypeOK
      <4>. HIDE DEF Jobs, Points, Sights, X
      <4>. QED
        BY <4>1, JobMoves
    <3>3. job' \in [O!Actor -> Jobs]
      <4>. HIDE DEF R
      <4>. QED
        BY <3>1, <3>2 DEF OwnTypes
    <3>. QED
      BY <2>1, <3>3 DEF OwnTypes, O!TypeOK, Jobs
  <2>3. /\ job'[a].pc = IF pidfile # job[a].for /\ O!IsLiveWorker(pidfile) THEN "unlock" ELSE "write"
        /\ job'[a].for = job[a].for /\ job'[a].sees = pidfile
        /\ \A b \in O!Actor \ {a} : job'[b] = job[b]
    BY <1>5, <2>1 DEF O!Judge, OwnTypes
  <2>4. Claimants'
    BY <2>1, <2>3 DEF Claimants, Acting, OwnTypes, O!TypeOK, O!IsLiveWorker
  <2>5. OldIsLeft'
    BY <2>1, <2>3 DEF Claimants, Acting, OldIsLeft, OwnTypes, O!TypeOK, O!IsLiveWorker
  <2>6. OneInside'
    <3>1. \A q \in Proc : (Owns(q)' <=> Owns(q)) /\ (q = a => ~Owns(q))
      BY <2>1, <2>3 DEF Owns
    <3>2. \A b \in O!Actor : job'[b].pc \in O!Inside <=> job[b].pc \in O!Inside
      BY <2>1, <2>3 DEF O!Inside
    <3>3. ASSUME ~spoiled, job'[a].pc = "write", NEW q \in Proc, Owns(q) PROVE q = job'[a].for
      <4>1. pidfile = q /\ os[q] = "worker"
        BY <3>3 DEF OneInside, Owns, Claimants, Acting
      <4>. QED
        BY <2>3, <3>3, <4>1, ProcessAssumption DEF O!IsLiveWorker
    <3>4. ASSUME a \in Proc, job'[a].sees = job'[a].for PROVE pidfile = a
      BY <2>1, <2>3, <3>4 DEF Claimants, Acting
    <3>. QED
      BY <2>1, <2>3, <3>1, <3>2, <3>3, <3>4 DEF OneInside
  <2>. QED
    BY <2>2, <2>4, <2>5, <2>6
<1>6. ASSUME NEW a \in O!Actor, O!Write(a) PROVE OwnInv'
  <2>1. /\ job[a].pc = "write" /\ job[a].for \in Proc /\ os[job[a].for] # "unborn"
        /\ pidfile' = job[a].for /\ UNCHANGED <<lock, old, os, spoiled>>
    BY <1>6 DEF O!Write, OwnTypes, O!TypeOK, Claimants, Acting
  <2>2. OwnTypes'
    BY <1>6, <2>1 DEF O!Write, OwnTypes, O!TypeOK
  <2>3. /\ job'[a].pc = "unlock"
        /\ job'[a].for = job[a].for /\ job'[a].sees = job[a].for
        /\ \A b \in O!Actor \ {a} : job'[b] = job[b]
    BY <1>6, <2>1 DEF O!Write, OwnTypes
  <2>4. Claimants'
    BY <2>1, <2>3 DEF Claimants, Acting, OwnTypes, O!TypeOK
  <2>5. OldIsLeft'
    BY <2>1, <2>3 DEF Claimants, Acting, OldIsLeft, OwnTypes, O!TypeOK
  <2>6. OneInside'
    BY <2>1, <2>3 DEF Claimants, Acting, OldIsLeft, OneInside, Owns, OwnTypes, O!TypeOK
  <2>. QED
    BY <2>2, <2>4, <2>5, <2>6
<1>7. ASSUME NEW a \in O!Actor, O!Unlock(a) PROVE OwnInv'
  <2>. DEFINE R == IF a \in Proc /\ job[a].sees = job[a].for THEN [job[a] EXCEPT !.pc = "own"]
                    ELSE IF a \in Cmd /\ job[a].sees # job[a].for THEN [job[a] EXCEPT !.pc = "signal"]
                    ELSE [pc |-> "done", for |-> None, sees |-> None]
  <2>1. job' = [job EXCEPT ![a] = R]
    BY <1>7 DEF O!Unlock, O!Goto, O!Ends, O!Job, OwnTypes
  <2>2. /\ job[a].pc = "unlock" /\ lock' = None /\ old' = FALSE /\ spoiled' = (spoiled \/ lock \notin {a, None})
        /\ os' = (IF a \in Proc /\ job[a].sees # job[a].for THEN [os EXCEPT ![a] = "dead"] ELSE os)
        /\ UNCHANGED pidfile
    BY <1>7 DEF O!Unlock, O!Goto, O!Ends, O!Job, OwnTypes
  <2>3. \A b \in O!Actor : job'[b] = IF b = a THEN R ELSE job[b]
    BY <2>1 DEF OwnTypes
  <2>4. OwnTypes'
    <3>1. R \in Jobs
      BY DEF OwnTypes, Jobs
    <3>. QED
      BY <2>1, <2>2, <3>1 DEF OwnTypes, O!TypeOK, Jobs
  <2>5. Claimants'
    BY <2>2, <2>3 DEF Claimants, Acting, OwnTypes, O!TypeOK
  <2>6. OldIsLeft'
    BY <2>2, <2>3 DEF Claimants, Acting, OldIsLeft, OwnTypes, O!TypeOK
  <2>7. OneInside'
    BY <2>2, <2>3 DEF Claimants, Acting, OldIsLeft, OneInside, Owns, OwnTypes, O!TypeOK
  <2>. QED
    BY <2>4, <2>5, <2>6, <2>7
<1>8. ASSUME NEW a \in Proc, O!Drain(a) PROVE OwnInv'
  <2>. DEFINE R == [pc |-> "claim", for |-> a, sees |-> None]
  <2>1. job' = [job EXCEPT ![a] = R]
    BY <1>8 DEF O!Drain, O!Job, OwnTypes
  <2>2. /\ os[a] = "unborn" /\ os' = [os EXCEPT ![a] = "worker"] /\ UNCHANGED <<pidfile, lock, old, spoiled>>
    BY <1>8 DEF O!Drain, O!Job, OwnTypes
  <2>3. \A b \in O!Actor : job'[b] = IF b = a THEN R ELSE job[b]
    BY <2>1 DEF OwnTypes
  <2>4. OwnTypes'
    BY <2>1, <2>2 DEF OwnTypes, O!TypeOK
  <2>5. Claimants'
    BY <2>2, <2>3 DEF Claimants, Acting, OwnTypes, O!TypeOK
  <2>6. OldIsLeft'
    BY <2>2, <2>3 DEF Claimants, Acting, OldIsLeft, OwnTypes, O!TypeOK
  <2>7. OneInside'
    BY <2>2, <2>3 DEF Claimants, Acting, OldIsLeft, OneInside, Owns, OwnTypes, O!TypeOK
  <2>. QED
    BY <2>4, <2>5, <2>6, <2>7
<1>9. ASSUME NEW a \in Proc, O!Leave(a) PROVE OwnInv'
  <2>. DEFINE R == [job[a] EXCEPT !.pc = "release"]
  <2>1. job' = [job EXCEPT ![a] = R]
    BY <1>9 DEF O!Leave, O!Goto, OwnTypes, O!Job
  <2>2. /\ job[a].pc = "own" /\ UNCHANGED <<pidfile, lock, old, os, spoiled>>
    BY <1>9 DEF O!Leave, O!Goto, OwnTypes
  <2>3. \A b \in O!Actor : job'[b] = IF b = a THEN R ELSE job[b]
    BY <2>1 DEF OwnTypes
  <2>4. OwnTypes'
    BY <2>1, <2>2 DEF OwnTypes, O!TypeOK
  <2>5. Claimants'
    BY <2>2, <2>3 DEF Claimants, Acting, OwnTypes, O!TypeOK
  <2>6. OldIsLeft'
    BY <2>2, <2>3 DEF Claimants, Acting, OldIsLeft, OwnTypes, O!TypeOK
  <2>7. OneInside'
    BY <2>2, <2>3 DEF Claimants, Acting, OldIsLeft, OneInside, Owns, OwnTypes, O!TypeOK
  <2>. QED
    BY <2>4, <2>5, <2>6, <2>7
<1>10. ASSUME NEW a \in Proc, O!Drop(a) PROVE OwnInv'
  <2>. DEFINE R == [pc |-> "done", for |-> None, sees |-> None]
  <2>1. job' = [job EXCEPT ![a] = R]
    BY <1>10 DEF O!Drop, O!Ends, O!Job, OwnTypes
  <2>2. /\ job[a].pc = "drop" /\ pidfile' = (IF pidfile = a THEN None ELSE pidfile) /\ lock' = None /\ old' = FALSE
        /\ spoiled' = (spoiled \/ lock \notin {a, None}) /\ os' = [os EXCEPT ![a] = "dead"]
    BY <1>10 DEF O!Drop, O!Ends, O!Job, OwnTypes
  <2>3. \A b \in O!Actor : job'[b] = IF b = a THEN R ELSE job[b]
    BY <2>1 DEF OwnTypes
  <2>4. OwnTypes'
    BY <2>1, <2>2 DEF OwnTypes, O!TypeOK
  <2>5. Claimants'
    BY <2>2, <2>3 DEF Claimants, Acting, OwnTypes, O!TypeOK
  <2>6. OldIsLeft'
    BY <2>2, <2>3 DEF Claimants, Acting, OldIsLeft, OwnTypes, O!TypeOK
  <2>7. OneInside'
    BY <2>2, <2>3 DEF Claimants, Acting, OldIsLeft, OneInside, Owns, OwnTypes, O!TypeOK
  <2>. QED
    BY <2>4, <2>5, <2>6, <2>7
<1>11. ASSUME NEW a \in Proc, O!Crash(a) PROVE OwnInv'
  <2>. DEFINE R == [pc |-> "done", for |-> None, sees |-> None]
  <2>1. job' = [job EXCEPT ![a] = R]
    BY <1>11 DEF O!Crash, O!Ends, O!Job, OwnTypes
  <2>2. /\ os[a] = "worker" /\ os' = [os EXCEPT ![a] = "dead"] /\ UNCHANGED <<pidfile, lock, old, spoiled>>
    BY <1>11 DEF O!Crash, O!Ends, O!Job, OwnTypes
  <2>3. \A b \in O!Actor : job'[b] = IF b = a THEN R ELSE job[b]
    BY <2>1 DEF OwnTypes
  <2>4. OwnTypes'
    BY <2>1, <2>2 DEF OwnTypes, O!TypeOK
  <2>5. Claimants'
    BY <2>2, <2>3 DEF Claimants, Acting, OwnTypes, O!TypeOK
  <2>6. OldIsLeft'
    BY <2>2, <2>3 DEF Claimants, Acting, OldIsLeft, OwnTypes, O!TypeOK
  <2>7. OneInside'
    <3>1. \A b \in O!Actor : job'[b] = job[b] \/ job'[b] = R
      BY <2>3
    <3>2. \A q \in Proc : Owns(q)' => Owns(q)
      BY <3>1 DEF Owns, O!Actor
    <3>. QED
      BY <2>2, <3>1, <3>2 DEF OneInside, O!Inside
  <2>. QED
    BY <2>4, <2>5, <2>6, <2>7
<1>12. ASSUME NEW p \in Proc, O!Recycle(p) PROVE OwnInv'
  <2>. USE <1>12 DEF O!Recycle
  <2>1. OwnTypes'
    BY DEF OwnTypes, O!TypeOK
  <2>2. Claimants'
    BY DEF Claimants, Acting, OwnTypes, O!TypeOK
  <2>3. OldIsLeft' /\ OneInside'
    BY DEF OldIsLeft, OneInside, Owns
  <2>. QED
    BY <2>1, <2>2, <2>3
<1>13. ASSUME NEW a \in Cmd, O!Stop(a) PROVE OwnInv'
  <2>1. /\ job[a].pc = "idle" /\ UNCHANGED <<pidfile, lock, old, os, spoiled>>
    BY <1>13 DEF O!Stop, O!Idle, O!Job, OwnTypes, O!TypeOK
  <2>2. OwnTypes'
    BY <1>13, <2>1 DEF O!Stop, O!Idle, O!Job, OwnTypes, O!TypeOK
  <2>3. /\ job'[a].pc = IF pidfile = None THEN "done" ELSE IF O!IsAlive(pidfile) THEN "signal" ELSE "wipe"
        /\ job'[a].for = pidfile /\ job'[a].sees = IF pidfile # None /\ ~O!IsAlive(pidfile) THEN pidfile ELSE None
        /\ \A b \in O!Actor \ {a} : job'[b] = job[b]
    BY <1>13, <2>1 DEF O!Stop, O!Idle, O!Job, OwnTypes
  <2>4. Claimants'
    BY <2>1, <2>3 DEF Claimants, Acting, OwnTypes, O!TypeOK, O!IsAlive
  <2>5. OldIsLeft'
    BY <2>1, <2>3 DEF Claimants, Acting, OldIsLeft, OwnTypes, O!TypeOK, O!IsAlive
  <2>6. OneInside'
    BY <2>1, <2>3 DEF Claimants, Acting, OldIsLeft, OneInside, Owns, OwnTypes, O!TypeOK, O!IsAlive
  <2>. QED
    BY <2>2, <2>4, <2>5, <2>6
<1>14. ASSUME NEW a \in Cmd, O!Wipe(a) PROVE OwnInv'
  <2>1. /\ job[a].pc = "wipe" /\ pidfile' = None /\ spoiled' = (spoiled \/ pidfile \notin {None, job[a].sees})
        /\ job[a].sees \in Proc /\ os[job[a].sees] # "worker" /\ UNCHANGED <<lock, old, os>>
    BY <1>14 DEF O!Wipe, O!Ends, O!Job, OwnTypes, O!TypeOK, Claimants
  <2>2. OwnTypes'
    BY <1>14, <2>1 DEF O!Wipe, O!Ends, O!Job, OwnTypes, O!TypeOK
  <2>3. /\ job'[a].pc = "done"
        /\ job'[a].for = None /\ job'[a].sees = None
        /\ \A b \in O!Actor \ {a} : job'[b] = job[b]
    BY <1>14, <2>1 DEF O!Wipe, O!Ends, O!Job, OwnTypes
  <2>4. Claimants'
    BY <2>1, <2>3 DEF Claimants, Acting, OwnTypes, O!TypeOK
  <2>5. OldIsLeft'
    BY <2>1, <2>3 DEF Claimants, Acting, OldIsLeft, OwnTypes, O!TypeOK
  <2>6. OneInside'
    <3>1. \A p \in Proc : Acting(p) => os[p] = "worker"
      BY DEF Claimants
    <3>2. \A p \in Proc : Owns(p) \/ job[p].pc = "unlock" => Acting(p)
      BY DEF Owns, Acting
    <3>3. \A p \in Proc : (Owns(p)' <=> Owns(p)) /\ job'[p] = job[p]
      BY <2>3 DEF Owns
    <3>4. ~spoiled' => \A p \in Proc : ~(Owns(p) \/ (job[p].pc = "unlock" /\ job[p].sees = job[p].for))
      BY <2>1, <3>1, <3>2 DEF OneInside
    <3>. QED
      BY <2>1, <2>3, <3>3, <3>4 DEF OneInside
  <2>. QED
    BY <2>2, <2>4, <2>5, <2>6
<1>15. ASSUME NEW c \in Cmd, O!Terminate(c) PROVE OwnInv'
  <2>. DEFINE p == job[c].for
              Done == [pc |-> "done", for |-> None, sees |-> None]
  <2>0. p \in Proc /\ p # c /\ job[c].pc = "signal" /\ os[p] # "unborn"
    BY <1>15 DEF O!Terminate, Claimants, Acting
  <2>1. /\ UNCHANGED <<pidfile, lock, old, spoiled>>
        /\ os' = os \/ (os' = [os EXCEPT ![p] = "dead"] /\ os[p] \in {"worker", "other"})
        /\ job'[c] = Done /\ job'[p] = (IF os'[p] = "dead" THEN Done ELSE job[p])
        /\ \A b \in O!Actor \ {c, p} : job'[b] = job[b]
    BY <1>15, <2>0 DEF O!Terminate, O!Signal, O!IsAlive, OwnTypes, O!TypeOK, O!Job
  <2>2. OwnTypes'
    <3>1. Done \in Jobs /\ job[p] \in Jobs
      BY <2>0 DEF OwnTypes, Jobs, Points, Sights, O!Actor
    <3>2. job' = [job EXCEPT ![c] = Done, ![p] = IF os'[p] = "dead" THEN Done ELSE job[p]]
      BY <1>15, <2>0 DEF O!Terminate, OwnTypes, O!Job
    <3>3. job' \in [O!Actor -> Jobs]
      <4>. HIDE DEF Done, p
      <4>. QED
        BY <3>1, <3>2 DEF OwnTypes
    <3>4. os' \in [Proc -> {"unborn", "worker", "other", "dead"}]
      BY <2>0, <2>1 DEF OwnTypes, O!TypeOK
    <3>5. \A b \in O!Actor : job'[b].pc \in Points
      BY <3>3 DEF Jobs
    <3>. QED
      BY <2>1, <3>3, <3>4, <3>5 DEF OwnTypes, O!TypeOK, Points
  <2>3. \A b \in O!Actor : job'[b] = job[b] \/ job'[b] = Done
    BY <2>1
  <2>4. Claimants'
    <3>. HIDE DEF p
    <3>. QED
      BY <2>0, <2>1 DEF Claimants, Acting, OwnTypes, O!TypeOK
  <2>5. OldIsLeft'
    BY <2>1, <2>3 DEF OldIsLeft, OwnTypes, O!TypeOK
  <2>6. OneInside'
    <3>1. \A q \in Proc : Owns(q)' => Owns(q)
      BY <2>3 DEF Owns
    <3>. QED
      BY <2>1, <2>3, <3>1 DEF OneInside
  <2>. QED
    BY <2>2, <2>4, <2>5, <2>6
<1>16. ASSUME NEW c \in Cmd, NEW p \in Proc, O!Start(c, p) PROVE OwnInv'
  <2>0. /\ c # p /\ os[p] = "unborn" /\ job[p].pc = "idle" /\ job[c].pc = "idle"
        /\ UNCHANGED <<pidfile, lock, old, spoiled>>
    BY <1>16 DEF O!Start, O!Idle, O!Job, Claimants
  <2>1. CASE os' = os /\ job' = [job EXCEPT ![c] = O!Job("done", None)]
    <3>. USE <2>0, <2>1 DEF O!Job
    <3>1. OwnTypes'
      BY DEF OwnTypes, O!TypeOK
    <3>2. job'[c] = O!Job("done", None) /\ \A b \in O!Actor \ {c} : job'[b] = job[b]
      BY DEF OwnTypes
    <3>3. Claimants'
      BY <3>2 DEF Claimants, Acting
    <3>4. OldIsLeft' /\ OneInside'
      BY <3>2 DEF OwnTypes, O!TypeOK, OldIsLeft, OneInside, Owns
    <3>. QED
      BY <3>1, <3>3, <3>4
  <2>2. CASE /\ os' = [os EXCEPT ![p] = "worker"]
             /\ job' = [job EXCEPT ![p] = O!Job("claim", p), ![c] = O!Job("claim", p)]
    <3>1. OwnTypes'
      BY <2>0, <2>2 DEF O!Job, OwnTypes, O!TypeOK
    <3>2. /\ job'[c].for = p /\ job'[p].for = p
          /\ job'[c].pc = "claim" /\ job'[p].pc = "claim"
          /\ \A b \in O!Actor \ {c, p} : job'[b] = job[b]
          /\ os'[p] = "worker" /\ \A q \in Proc \ {p} : os'[q] = os[q]
      BY <2>0, <2>2 DEF O!Job, OwnTypes, O!TypeOK
    <3>3. Claimants'
      <4>0. \A q \in Proc \ {p} : job'[q] = job[q] /\ os'[q] = os[q]
        BY <3>2
      <4>5. \A d \in Cmd \ {c} : job'[d] = job[d]
        BY <3>2
      <4>1. \A b \in O!Actor : /\ Acting(b)' => job'[b].for \in Proc /\ os'[job'[b].for] # "unborn"
                               /\ job'[b].pc = "break" => job'[b].sees \in O!Actor \X O!Waiting
        BY <2>0, <3>2 DEF Claimants, Acting, OwnTypes, O!TypeOK
      <4>2. \A q \in Proc : /\ os'[q] = "unborn" => job'[q].pc = "idle"
                            /\ Acting(q)' => /\ job'[q].for = q /\ os'[q] = "worker"
                                             /\ job'[q].pc \notin {"signal", "wipe"}
        BY <4>0, <3>2 DEF Claimants, Acting
      <4>3. \A d \in Cmd :
              /\ job'[d].pc \notin {"own", "release", "drop"}
              /\ job'[d].pc = "break" => job'[d].sees[2] = "claim"
              /\ job'[d].pc = "wipe" => job'[d].sees \in Proc /\ os'[job'[d].sees] \in {"dead", "other"}
        BY <2>0, <4>0, <4>5, <3>2 DEF Claimants
      <4>. QED
        BY <2>0, <4>1, <4>2, <4>3, <3>2 DEF Claimants, OwnTypes, O!TypeOK
    <3>4. OldIsLeft'
      BY <2>0, <3>2 DEF OwnTypes, O!TypeOK, OldIsLeft
    <3>5. OneInside'
      <4>1. \A q \in Proc : Owns(q)' => Owns(q)
        BY <2>0, <3>2 DEF Owns
      <4>2. \A b \in O!Actor : job'[b].pc = "claim" \/ job'[b] = job[b]
        BY <2>0, <3>2
      <4>. QED
        BY <2>0, <4>1, <4>2 DEF OneInside
    <3>. QED
      BY <3>1, <3>3, <3>4, <3>5
  <2>. QED
    BY <1>16, <2>1, <2>2 DEF O!Start, O!Ends
<1>17. CASE O!Ages
  <2>. USE <1>17 DEF O!Ages
  <2>1. OwnTypes'
    BY DEF OwnTypes, O!TypeOK
  <2>2. Claimants'
    BY DEF Claimants, Acting
  <2>3. OldIsLeft' /\ OneInside'
    BY DEF OldIsLeft, OneInside, Owns
  <2>. QED
    BY <2>1, <2>2, <2>3
<1>. HIDE DEF OwnInv, Jobs, Points, Sights, O!Actor, O!Waiting, O!Inside
<1>18. CASE O!Next
  BY <1>1, <1>2, <1>3, <1>4, <1>5, <1>6, <1>7, <1>8, <1>9, <1>10, <1>11, <1>12, <1>13, <1>14, <1>15,
     <1>16, <1>17, <1>18 DEF O!Next
<1>. QED
  BY <1>0, <1>18

\* pid.ts, start.ts, stop.ts: whatever is started, stopped and killed, on any number of pids,
\* the worker that owns the Kshetra is the one worker.pid names, until a lock or a pid file
\* other than the one looked at is removed.
THEOREM OwnersAreListed == Spec => []OwnerListed
<1>1. Init => OwnInv
  BY OwnInit DEF Init
<1>2. OwnInv /\ [Next]_vars => OwnInv'
  <2>1. [Next]_vars => [O!Next]_ownershipVars
    BY DEF Next, vars
  <2>. QED
    BY <2>1, OwnNext
<1>3. OwnInv => OwnerListed
  BY DEF OwnInv, OwnTypes, OneInside, Owns, OwnerListed, O!OwnerListed
<1>. QED
  BY <1>1, <1>2, <1>3, PTL DEF Spec

----------------------------------------------------------------------------
(* Follow-up of a pull request                                               *)

FollowTypes ==
  /\ F!TypeOK /\ spent \in Nat /\ lost \in Nat
  /\ mark \in [head : Nat, round : 0..MaxRounds, at : 0..MaxTime]
  /\ fat # "none" => task = "claimed"
  /\ fat = "loop" => round < MaxRounds

\* The watermark is never ahead of the clock; a review that was handed over is older than it,
\* and one that a pass found is older than the pass's end, which is rounds later.
MarkTrue ==
  /\ mark.at <= now /\ \A r \in Reviews : sent[r] <= now
  /\ \A r \in handed \cup found : sent[r] # 0
  /\ \A r \in handed : sent[r] < mark.at
  /\ fat \in {"push", "reply", "mark"} => \A r \in found : sent[r] < now

\* Between passes the watermark has the rounds that were spent, within a pass the pass has.
RoundsCount ==
  lost = 0 =>
    /\ spent <= MaxRounds
    /\ fat \in {"loop", "push", "reply", "mark"} => spent <= round
    /\ fat \in {"none", "read", "resubmit"} /\ task \in {"waiting", "open", "claimed"} => spent <= mark.round

FollowInv == FollowTypes /\ MarkTrue /\ RoundsCount

LEMMA FollowInit == F!Init => FollowInv
BY FollowupAssumption
   DEF F!Init, F!NoWatermark, FollowInv, FollowTypes, F!TypeOK, MarkTrue, RoundsCount

LEMMA FollowNext == FollowInv /\ [F!Next]_followupVars => FollowInv'
<1>. SUFFICES ASSUME FollowInv, [F!Next]_followupVars PROVE FollowInv'
  OBVIOUS
<1>. USE FollowupAssumption DEF FollowInv, F!people, F!pass
<1>0. CASE UNCHANGED followupVars
  BY <1>0 DEF followupVars, FollowTypes, F!TypeOK, MarkTrue, RoundsCount
<1>1. CASE F!People
  <2>. USE DEF F!People, F!ForeignPush, F!CheckReports, F!Settled, F!Submit
  <2>1. UNCHANGED <<now, fat, found, round, local, task, mark, handed, spent, lost>>
    BY <1>1
  <2>2. \A r \in Reviews : sent'[r] \in {sent[r], now} /\ (sent[r] # 0 => sent'[r] = sent[r])
    BY <1>1 DEF FollowTypes, F!TypeOK
  <2>3. /\ sent' \in [Reviews -> 0..MaxTime] /\ tip' \in Seq(BOOLEAN)
        /\ check' \in {"pending", "red", "green"} /\ pr' \in {"OPEN", "MERGED", "CLOSED"}
    <3>. USE DEF FollowTypes, F!TypeOK
    <3>1. CASE UNCHANGED <<sent, check, tip>> /\ pr' \in {"MERGED", "CLOSED"}
      BY <3>1
    <3>2. CASE UNCHANGED <<sent, tip, pr>> /\ check' \in {"red", "green"}
      BY <3>2
    <3>3. CASE UNCHANGED <<sent, pr>> /\ check' = "pending" /\ tip' = Append(tip, TRUE)
      BY <3>3
    <3>4. ASSUME NEW r \in Reviews, F!Submit(r) PROVE sent' \in [Reviews -> 0..MaxTime] /\ UNCHANGED <<tip, check, pr>>
      BY <3>4
    <3>. QED
      BY <1>1, <3>1, <3>2, <3>3, <3>4
  <2>4. FollowTypes'
    BY <2>1, <2>3 DEF FollowTypes, F!TypeOK
  <2>5. MarkTrue'
    BY <2>1, <2>2 DEF MarkTrue, FollowTypes, F!TypeOK
  <2>6. RoundsCount'
    BY <2>1 DEF RoundsCount
  <2>. QED
    BY <2>4, <2>5, <2>6
<1>2. CASE F!Reconcile
  <2>1. /\ task = "waiting" /\ task' \in {"done", "blocked", "open", "waiting"} /\ fat = "none"
        /\ UNCHANGED <<now, sent, tip, check, pr, fat, found, round, local, mark, handed, spent, lost>>
    BY <1>2 DEF F!Reconcile, FollowTypes
  <2>. QED
    BY <2>1 DEF FollowTypes, F!TypeOK, MarkTrue, RoundsCount
<1>3. CASE F!Claim
  BY <1>3 DEF F!Claim, FollowTypes, F!TypeOK, MarkTrue, RoundsCount
<1>4. CASE F!ReadStatus
  <2>1. CASE fat' = "resubmit" /\ UNCHANGED <<found, round, spent>>
    BY <1>4, <2>1 DEF F!ReadStatus, FollowTypes, F!TypeOK, MarkTrue, RoundsCount
  <2>2. CASE /\ round' = F!StartRound /\ found' = F!ChangesRequested
             /\ spent' = IF F!ChangesRequested # {} THEN 0 ELSE spent
             /\ fat' = IF F!StartRound >= MaxRounds THEN "handoff" ELSE "loop"
    <3>1. found' \subseteq Reviews /\ \A r \in found' : sent[r] # 0
      BY <2>2 DEF F!ChangesRequested
    <3>2. /\ fat = "read" /\ fat' \in {"handoff", "loop"} /\ (fat' = "loop" => round' < MaxRounds)
          /\ UNCHANGED <<now, sent, tip, check, pr, task, local, mark, handed, lost>>
          /\ (round' = 0 /\ spent' = 0) \/ (round' = mark.round /\ spent' = spent)
      BY <1>4, <2>2 DEF F!ReadStatus, F!StartRound, FollowTypes, F!TypeOK
    <3>. QED
      BY <3>1, <3>2 DEF FollowTypes, F!TypeOK, MarkTrue, RoundsCount
  <2>. QED
    BY <1>4, <2>1, <2>2 DEF F!ReadStatus, F!ChangesRequested
<1>5. CASE F!Round
  <2>1. /\ now' = now + 1 /\ now < MaxTime /\ round' = round + 1 /\ round < MaxRounds /\ spent' = spent + 1
        /\ fat = "loop" /\ fat' \in {"push", "handoff", "loop"} /\ (fat' = "loop" => round' < MaxRounds)
        /\ UNCHANGED <<sent, tip, check, pr, task, found, local, mark, handed, lost>>
    BY <1>5 DEF F!Round, FollowTypes
  <2>2. FollowTypes'
    BY <2>1 DEF FollowTypes, F!TypeOK
  <2>3. MarkTrue'
    BY <2>1 DEF MarkTrue, FollowTypes, F!TypeOK
  <2>4. RoundsCount'
    BY <2>1 DEF RoundsCount, FollowTypes, F!TypeOK
  <2>. QED
    BY <2>2, <2>3, <2>4
<1>6. CASE F!Push
  <2>1. /\ fat = "push"
        /\ (fat' = "reply" /\ lost' = lost) \/ (fat' = "resubmit" /\ lost' = lost + 1)
        /\ check' \in {"pending", check} /\ (tip' = tip \/ tip' = Append(tip, FALSE)) /\ local' \in {local, local + 1}
        /\ UNCHANGED <<now, sent, pr, task, found, round, mark, handed, spent>>
    BY <1>6 DEF F!Push
  <2>2. FollowTypes'
    <3>1. tip' \in Seq(BOOLEAN)
      <4>1. tip \in Seq(BOOLEAN) /\ FALSE \in BOOLEAN
        BY DEF FollowTypes, F!TypeOK
      <4>2. Append(tip, FALSE) \in Seq(BOOLEAN)
        BY <4>1, SMTT(30)
      <4>. QED
        BY <2>1, <4>1, <4>2
    <3>2. lost' \in Nat /\ local' \in Nat
      BY <2>1 DEF FollowTypes, F!TypeOK
    <3>. QED
      BY <2>1, <3>1, <3>2 DEF FollowTypes, F!TypeOK
  <2>3. MarkTrue'
    BY <2>1 DEF MarkTrue, FollowTypes, F!TypeOK
  <2>4. RoundsCount'
    <3>1. CASE fat' = "reply" /\ lost' = lost
      BY <2>1, <3>1 DEF RoundsCount
    <3>2. CASE lost' = lost + 1
      BY <3>2 DEF RoundsCount, FollowTypes
    <3>. QED
      BY <2>1, <3>1, <3>2
  <2>. QED
    BY <2>2, <2>3, <2>4
<1>7. CASE F!Reply
  BY <1>7 DEF F!Reply, FollowTypes, F!TypeOK, MarkTrue, RoundsCount
<1>8. CASE F!WriteWatermark
  <2>1. PICK head \in {local, 0} : mark' = [head |-> head, round |-> round, at |-> now]
    BY <1>8 DEF F!WriteWatermark, F!Stamped
  <2>2. handed' \subseteq handed \cup found
    BY <1>8 DEF F!WriteWatermark, F!GivenReview
  <2>3. /\ fat = "mark" /\ fat' = "resubmit"
        /\ UNCHANGED <<now, sent, tip, check, pr, task, found, round, local, spent, lost>>
    BY <1>8 DEF F!WriteWatermark
  <2>4. FollowTypes'
    BY <2>1, <2>2, <2>3 DEF FollowTypes, F!TypeOK
  <2>5. MarkTrue'
    BY <2>1, <2>2, <2>3 DEF FollowTypes, F!TypeOK, MarkTrue
  <2>6. RoundsCount'
    BY <2>1, <2>3 DEF FollowTypes, F!TypeOK, RoundsCount
  <2>. QED
    BY <2>4, <2>5, <2>6
<1>9. CASE F!Resubmit
  BY <1>9 DEF F!Resubmit, FollowTypes, F!TypeOK, MarkTrue, RoundsCount
<1>10. CASE F!Handoff
  BY <1>10 DEF F!Handoff, FollowTypes, F!TypeOK, MarkTrue, RoundsCount
<1>11. CASE F!CutShort
  BY <1>11 DEF F!CutShort, FollowTypes, F!TypeOK, MarkTrue, RoundsCount
<1>. HIDE DEF FollowInv
<1>. QED
  BY <1>0, <1>1, <1>2, <1>3, <1>4, <1>5, <1>6, <1>7, <1>8, <1>9, <1>10, <1>11 DEF F!Next

\* pr-followup-run.ts: whoever reviews, pushes, merges and dies, no pass starts for a review that
\* was answered in one that moved the watermark, and while no pass was cut short the agents
\* run no more rounds for a review than the budget has.
THEOREM FollowupIsSafe == Spec => []FollowupSafe
<1>1. Init => FollowInv
  BY FollowInit DEF Init
<1>2. FollowInv /\ [Next]_vars => FollowInv'
  <2>1. [Next]_vars => [F!Next]_followupVars
    BY DEF Next, vars
  <2>. QED
    BY <2>1, FollowNext
<1>3. FollowInv => FollowupSafe
  BY DEF FollowInv, FollowTypes, F!TypeOK, MarkTrue, RoundsCount, FollowupSafe, F!ReviewOnce, F!BudgetHolds,
         F!ChangesRequested, F!IsNewer
<1>. QED
  BY <1>1, <1>2, <1>3, PTL DEF Spec

----------------------------------------------------------------------------
(* Work by hand                                                              *)

HandTypes ==
  /\ H!TypeOK
  /\ at \in [Person -> [attempt : 0..MaxAttempts, holder : H!Actor \cup {None}, checks : SUBSET HandCheck]]
  /\ seen \in [H!Attempt -> SUBSET HandCheck] /\ landed \in [H!Attempt -> BOOLEAN]
  /\ passed \in [H!Attempt -> (SUBSET HandCheck) \cup {None}]

\* A task that left open has an attempt, and no evidence is on an attempt not yet made.
EvidenceLater ==
  /\ state \in {"claimed", "done", "blocked"} => attempt > 0
  /\ \A a \in H!Attempt : a > attempt => passed[a] = None /\ ~landed[a]

Finished == state = "done" /\ ~landed[attempt]

\* What a command read of the newest attempt is still so while the task is that attempt's.
ReadStill ==
  \A p \in Person :
    /\ at[p].attempt <= attempt
    /\ cmd[p] \notin {"none", "edit"} => at[p].attempt > 0
    /\ cmd[p] = "finish-confirm" /\ at[p].attempt = attempt /\ (state = "claimed" \/ Finished)
         => at[p].checks = checks
    /\ cmd[p] = "force-move" /\ at[p].attempt = attempt /\ state = "claimed" => holder = at[p].holder

ConfirmedAll == state = "claimed" /\ passed[attempt] # None => checks \subseteq passed[attempt]

HandInv ==
  /\ HandTypes /\ EvidenceLater /\ ReadStill /\ ConfirmedAll
  /\ H!FinishedAsConfirmed /\ H!ForcedAsRead

LEMMA HandInit == H!Init => HandInv
<1>. SUFFICES ASSUME H!Init PROVE HandInv
  OBVIOUS
<1>. USE NamesAssumption DEF H!Init, H!Attempt, H!Actor
<1>1. HandTypes
  <2>1. /\ at \in [Person -> [attempt : 0..MaxAttempts, holder : H!Actor \cup {None}, checks : SUBSET HandCheck]]
        /\ cmd \in [Person -> {"none"}]
    OBVIOUS
  <2>2. seen \in [H!Attempt -> SUBSET HandCheck] /\ landed \in [H!Attempt -> BOOLEAN]
    OBVIOUS
  <2>3. passed \in [H!Attempt -> (SUBSET HandCheck) \cup {None}]
    <3>. DEFINE V == (SUBSET HandCheck) \cup {None}
    <3>1. None \in V
      OBVIOUS
    <3>. HIDE DEF V
    <3>2. passed \in [H!Attempt -> V]
      BY <3>1
    <3>. QED
      BY <3>2 DEF V
  <2>4. H!TypeOK
    BY <2>1 DEF H!TypeOK
  <2>. QED
    BY <2>1, <2>2, <2>3, <2>4 DEF HandTypes
<1>2. EvidenceLater /\ ReadStill /\ ConfirmedAll
  BY DEF EvidenceLater, ReadStill, ConfirmedAll, Finished
<1>3. H!FinishedAsConfirmed /\ H!ForcedAsRead
  BY DEF H!FinishedAsConfirmed, H!ForcedAsRead
<1>. QED
  BY <1>1, <1>2, <1>3 DEF HandInv

LEMMA HandNext == HandInv /\ [H!Next]_byhandVars => HandInv'
<1>. SUFFICES ASSUME HandInv, [H!Next]_byhandVars PROVE HandInv'
  OBVIOUS
<1>. USE NamesAssumption DEF HandInv, H!Attempt, H!Actor, H!evidence, H!engine
<1>0. CASE UNCHANGED byhandVars
  BY <1>0 DEF byhandVars, HandTypes, H!TypeOK, EvidenceLater, ReadStill, ConfirmedAll, Finished,
     H!FinishedAsConfirmed, H!ForcedAsRead
\* A command that goes on or ends, having read what is so of the newest attempt, and changed nothing.
<1>1. ASSUME NEW p \in Person, NEW c, NEW r,
             UNCHANGED <<state, holder, attempt, checks, seen, passed, landed, forced>>,
             c \in {"none", "finish-read", "finish-confirm", "finish-move", "confirm-read", "confirm-move",
                    "force-read", "force-move", "edit"},
             r \in [attempt : 0..MaxAttempts, holder : H!Actor \cup {None}, checks : SUBSET HandCheck],
             r.attempt <= attempt,
             c \notin {"none", "edit"} => r.attempt > 0,
             c = "finish-confirm" /\ r.attempt = attempt /\ (state = "claimed" \/ Finished) => r.checks = checks,
             c = "force-move" /\ r.attempt = attempt /\ state = "claimed" => holder = r.holder,
             cmd' = [cmd EXCEPT ![p] = c], at' = [at EXCEPT ![p] = r]
      PROVE  HandInv'
  <2>1. HandTypes'
    BY <1>1 DEF HandTypes, H!TypeOK
  <2>2. EvidenceLater' /\ ConfirmedAll' /\ H!FinishedAsConfirmed' /\ H!ForcedAsRead'
    BY <1>1 DEF EvidenceLater, ConfirmedAll, H!FinishedAsConfirmed, H!ForcedAsRead
  <2>3. ReadStill'
    <3>1. /\ cmd'[p] = c /\ at'[p] = r
          /\ \A q \in Person \ {p} : cmd'[q] = cmd[q] /\ at'[q] = at[q]
      BY <1>1 DEF HandTypes, H!TypeOK
    <3>2. Finished' = Finished
      BY <1>1 DEF Finished
    <3>. QED
      BY <1>1, <3>1, <3>2 DEF ReadStill
  <2>. QED
    BY <2>1, <2>2, <2>3
<1>2. ASSUME NEW a \in H!Actor, H!Claim(a) PROVE HandInv'
  <2>. USE <1>2 DEF H!Claim
  <2>1. HandTypes'
    BY DEF HandTypes, H!TypeOK
  <2>2. EvidenceLater' /\ ConfirmedAll'
    BY DEF HandTypes, H!TypeOK, EvidenceLater, ConfirmedAll
  <2>3. ReadStill'
    BY DEF HandTypes, H!TypeOK, ReadStill, Finished
  <2>4. H!FinishedAsConfirmed' /\ H!ForcedAsRead'
    BY DEF HandTypes, H!TypeOK, H!FinishedAsConfirmed, H!ForcedAsRead
  <2>. QED
    BY <2>1, <2>2, <2>3, <2>4
<1>3. CASE H!GiveBack \/ H!Unblock
  BY <1>3 DEF H!GiveBack, H!Unblock, HandTypes, H!TypeOK, EvidenceLater, ReadStill, ConfirmedAll, Finished,
     H!FinishedAsConfirmed, H!ForcedAsRead
<1>4. CASE H!Flag
  <2>1. PICK l \in BOOLEAN : landed' = [landed EXCEPT ![attempt] = l]
    BY <1>4 DEF H!Flag
  <2>2. /\ state = "claimed" /\ state' = "blocked" /\ holder' = None
        /\ UNCHANGED <<attempt, seen, checks, passed, cmd, at, forced>>
    BY <1>4 DEF H!Flag, HandTypes, H!TypeOK
  <2>3. HandTypes'
    BY <2>1, <2>2 DEF HandTypes, H!TypeOK
  <2>4. EvidenceLater'
    BY <2>1, <2>2 DEF HandTypes, H!TypeOK, EvidenceLater
  <2>5. ReadStill' /\ ConfirmedAll' /\ H!FinishedAsConfirmed' /\ H!ForcedAsRead'
    BY <2>2 DEF ReadStill, Finished, ConfirmedAll, H!FinishedAsConfirmed, H!ForcedAsRead
  <2>. QED
    BY <2>3, <2>4, <2>5
<1>5. ASSUME NEW p \in Person,
             H!Finish(p) \/ H!FinishRead(p) \/ H!Confirm(p) \/ H!Force(p) \/ H!ForceRead(p) \/ H!Edit(p)
             \/ H!Stop(p)
      PROVE  HandInv'
  <2>. USE DEF H!Goto, H!Note
  <2>1. at[p] \in [attempt : 0..MaxAttempts, holder : H!Actor \cup {None}, checks : SUBSET HandCheck]
    BY DEF HandTypes
  <2>2. at = [at EXCEPT ![p] = at[p]]
    BY DEF HandTypes
  <2>3. holder # None => attempt > 0 /\ state = "claimed"
    BY DEF HandTypes, H!TypeOK, EvidenceLater
  <2>4. attempt \in 0..MaxAttempts /\ checks \in SUBSET HandCheck /\ {} \in SUBSET HandCheck /\ holder \in H!Actor \cup {None}
    BY DEF HandTypes, H!TypeOK
  <2>5. at[p].attempt <= attempt /\ (cmd[p] \notin {"none", "edit"} => at[p].attempt > 0)
    BY DEF ReadStill
  <2>6. CASE H!Finish(p)
    <3>. DEFINE r == [attempt |-> attempt, holder |-> p, checks |-> {}]
    <3>1. /\ r \in [attempt : 0..MaxAttempts, holder : H!Actor \cup {None}, checks : SUBSET HandCheck]
          /\ r.attempt = attempt /\ r.checks = {} /\ r.holder = p
      BY <2>4
    <3>2. /\ UNCHANGED <<state, holder, attempt, checks, seen, passed, landed, forced>>
          /\ r.attempt > 0 /\ r.attempt <= attempt
          /\ \E c \in {"finish-read"} : cmd' = [cmd EXCEPT ![p] = c]
          /\ at' = [at EXCEPT ![p] = r]
      BY <2>3, <2>4, <2>6, <3>1 DEF H!Finish
    <3>. HIDE DEF r
    <3>. QED
      BY <1>1, <2>4, <3>1, <3>2
  <2>7. CASE H!FinishRead(p)
    <3>. DEFINE r == [at[p] EXCEPT !.checks = checks]
    <3>1. /\ r \in [attempt : 0..MaxAttempts, holder : H!Actor \cup {None}, checks : SUBSET HandCheck]
          /\ r.attempt = at[p].attempt /\ r.checks = checks /\ at' = [at EXCEPT ![p] = r]
      BY <2>1, <2>4, <2>7 DEF H!FinishRead, HandTypes
    <3>2. \E c \in {"finish-move", "finish-confirm", "none"} : cmd' = [cmd EXCEPT ![p] = c]
      BY <2>7 DEF H!FinishRead
    <3>3. /\ cmd[p] = "finish-read" /\ UNCHANGED <<state, holder, attempt, checks, seen, passed, landed, forced>>
      BY <2>7 DEF H!FinishRead
    <3>. HIDE DEF r
    <3>. QED
      BY <1>1, <2>5, <3>1, <3>2, <3>3
  <2>8. CASE H!Confirm(p)
    <3>. DEFINE r == [attempt |-> attempt, holder |-> None, checks |-> checks]
    <3>1. /\ r \in [attempt : 0..MaxAttempts, holder : H!Actor \cup {None}, checks : SUBSET HandCheck]
          /\ r.attempt = attempt /\ r.checks = checks /\ r.holder = None
      BY <2>4
    <3>2. /\ UNCHANGED <<state, holder, attempt, checks, seen, passed, landed, forced>>
          /\ r.attempt > 0 /\ r.attempt <= attempt
          /\ \E c \in {"confirm-read"} : cmd' = [cmd EXCEPT ![p] = c]
          /\ at' = [at EXCEPT ![p] = r]
      BY <2>3, <2>4, <2>8, <3>1 DEF H!Confirm, H!Confirmable
    <3>. HIDE DEF r
    <3>. QED
      BY <1>1, <2>4, <3>1, <3>2
  <2>9. CASE H!Force(p)
    <3>. DEFINE r == [attempt |-> attempt, holder |-> holder, checks |-> {}]
    <3>1. /\ r \in [attempt : 0..MaxAttempts, holder : H!Actor \cup {None}, checks : SUBSET HandCheck]
          /\ r.attempt = attempt /\ r.checks = {} /\ r.holder = holder
      BY <2>4
    <3>2. /\ UNCHANGED <<state, holder, attempt, checks, seen, passed, landed, forced>>
          /\ r.attempt > 0 /\ r.attempt <= attempt
          /\ \E c \in {"force-read"} : cmd' = [cmd EXCEPT ![p] = c]
          /\ at' = [at EXCEPT ![p] = r]
      BY <2>3, <2>4, <2>9, <3>1 DEF H!Force
    <3>. HIDE DEF r
    <3>. QED
      BY <1>1, <2>4, <3>1, <3>2
  <2>10. CASE H!ForceRead(p)
    <3>. DEFINE r == [attempt |-> attempt, holder |-> holder, checks |-> {}]
    <3>1. CASE /\ at' = [at EXCEPT ![p] = r] /\ \E c \in {"force-move"} : cmd' = [cmd EXCEPT ![p] = c]
              /\ holder # None
      <4>1. /\ r \in [attempt : 0..MaxAttempts, holder : H!Actor \cup {None}, checks : SUBSET HandCheck]
            /\ r.attempt = attempt /\ r.holder = holder /\ r.attempt <= attempt
        BY <2>4
      <4>2. UNCHANGED <<state, holder, attempt, checks, seen, passed, landed, forced>>
        BY <2>10 DEF H!ForceRead
      <4>. HIDE DEF r
      <4>. QED
        BY <1>1, <2>3, <2>4, <3>1, <4>1, <4>2
    <3>2. CASE at' = at /\ cmd' = [cmd EXCEPT ![p] = "none"]
      BY <1>1, <2>1, <2>2, <2>5, <2>10, <3>2 DEF H!ForceRead
    <3>. QED
      BY <2>10, <3>1, <3>2 DEF H!ForceRead
  <2>11. CASE H!Edit(p)
    BY <1>1, <2>1, <2>2, <2>5, <2>11 DEF H!Edit
  <2>12. CASE H!Stop(p)
    BY <1>1, <2>1, <2>2, <2>5, <2>12 DEF H!Stop
  <2>. QED
    BY <1>5, <2>6, <2>7, <2>8, <2>9, <2>10, <2>11, <2>12
<1>6. ASSUME NEW p \in Person, H!FinishConfirm(p) PROVE HandInv'
  <2>1. /\ cmd[p] = "finish-confirm" /\ passed' = [passed EXCEPT ![at[p].attempt] = at[p].checks]
        /\ cmd' = [cmd EXCEPT ![p] = "finish-move"]
        /\ UNCHANGED <<state, holder, attempt, seen, checks, landed, at, forced>>
    BY <1>6 DEF H!FinishConfirm, H!Confirmation, H!Goto
  <2>2. /\ at[p].attempt \in H!Attempt /\ at[p].attempt <= attempt /\ at[p].checks \in SUBSET HandCheck
        /\ at[p].attempt = attempt /\ (state = "claimed" \/ Finished) => at[p].checks = checks
    <3>1. /\ at[p].attempt \in 0..MaxAttempts /\ at[p].checks \in SUBSET HandCheck /\ attempt \in 0..MaxAttempts
      BY DEF HandTypes, H!TypeOK
    <3>2. /\ at[p].attempt > 0 /\ at[p].attempt <= attempt
          /\ at[p].attempt = attempt /\ (state = "claimed" \/ Finished) => at[p].checks = checks
      BY <2>1 DEF ReadStill
    <3>. QED
      BY <3>1, <3>2
  <2>3. HandTypes'
    BY <2>1, <2>2 DEF HandTypes, H!TypeOK
  <2>4. EvidenceLater' /\ ConfirmedAll'
    BY <2>1, <2>2 DEF HandTypes, H!TypeOK, EvidenceLater, ConfirmedAll
  <2>5. ReadStill'
    BY <2>1 DEF HandTypes, H!TypeOK, ReadStill, Finished
  <2>6. H!FinishedAsConfirmed' /\ H!ForcedAsRead'
    BY <2>1, <2>2 DEF HandTypes, H!TypeOK, Finished, H!FinishedAsConfirmed, H!ForcedAsRead
  <2>. QED
    BY <2>3, <2>4, <2>5, <2>6
<1>7. ASSUME NEW p \in Person, H!FinishMove(p) PROVE HandInv'
  <2>1. /\ cmd[p] = "finish-move" /\ cmd' = [cmd EXCEPT ![p] = "none"]
        /\ UNCHANGED <<attempt, seen, checks, passed, landed, at, forced>>
        /\ \/ UNCHANGED <<state, holder>>
           \/ state' = "done" /\ holder' = None /\ state = "claimed" /\ (checks = {} \/ passed[attempt] # None)
    BY <1>7 DEF H!FinishMove, H!Goto, H!ChecksPassed, HandTypes, H!TypeOK
  <2>2. HandTypes'
    BY <2>1 DEF HandTypes, H!TypeOK
  <2>3. EvidenceLater' /\ ConfirmedAll'
    BY <2>1 DEF HandTypes, H!TypeOK, EvidenceLater, ConfirmedAll
  <2>4. ReadStill'
    BY <2>1 DEF HandTypes, H!TypeOK, ReadStill, Finished
  <2>5. H!FinishedAsConfirmed' /\ H!ForcedAsRead'
    BY <2>1 DEF ConfirmedAll, H!FinishedAsConfirmed, H!ForcedAsRead
  <2>. QED
    BY <2>2, <2>3, <2>4, <2>5
<1>8. ASSUME NEW p \in Person, H!ConfirmRead(p) PROVE HandInv'
  <2>1. CASE cmd' = [cmd EXCEPT ![p] = "none"] /\ UNCHANGED <<passed, at>>
    <3>1. at = [at EXCEPT ![p] = at[p]] /\ at[p].attempt <= attempt
          /\ at[p] \in [attempt : 0..MaxAttempts, holder : H!Actor \cup {None}, checks : SUBSET HandCheck]
      BY DEF HandTypes, ReadStill
    <3>. QED
      BY <1>1, <1>8, <2>1, <3>1 DEF H!ConfirmRead
  <2>2. CASE H!Confirmable
    <3>1. /\ state = "blocked" /\ attempt > 0 /\ passed' = [passed EXCEPT ![attempt] = checks]
          /\ at' = [at EXCEPT ![p] = [attempt |-> attempt, holder |-> None, checks |-> checks]]
          /\ cmd' = [cmd EXCEPT ![p] = "confirm-move"]
          /\ UNCHANGED <<state, holder, attempt, seen, checks, landed, forced>>
      BY <1>8, <2>2 DEF H!ConfirmRead, H!Confirmable, H!Note, H!Goto
    <3>2. HandTypes'
      BY <3>1 DEF HandTypes, H!TypeOK
    <3>3. EvidenceLater' /\ ConfirmedAll' /\ H!FinishedAsConfirmed' /\ H!ForcedAsRead'
      BY <3>1 DEF HandTypes, H!TypeOK, EvidenceLater, ConfirmedAll, H!FinishedAsConfirmed, H!ForcedAsRead
    <3>4. ReadStill'
      BY <3>1 DEF HandTypes, H!TypeOK, ReadStill, Finished
    <3>. QED
      BY <3>2, <3>3, <3>4
  <2>. QED
    BY <1>8, <2>1, <2>2 DEF H!ConfirmRead, H!Goto
<1>9. ASSUME NEW p \in Person, H!ConfirmMove(p) PROVE HandInv'
  <2>1. /\ cmd' = [cmd EXCEPT ![p] = "none"]
        /\ UNCHANGED <<holder, attempt, seen, checks, passed, landed, at, forced>>
        /\ state' = state \/ (state = "blocked" /\ state' = "done" /\ landed[attempt])
    BY <1>9 DEF H!ConfirmMove, H!Goto, H!Confirmable
  <2>2. HandTypes'
    BY <2>1 DEF HandTypes, H!TypeOK
  <2>3. EvidenceLater' /\ ConfirmedAll' /\ H!FinishedAsConfirmed' /\ H!ForcedAsRead'
    BY <2>1 DEF EvidenceLater, ConfirmedAll, H!FinishedAsConfirmed, H!ForcedAsRead
  <2>4. ReadStill'
    BY <2>1 DEF HandTypes, H!TypeOK, ReadStill, Finished
  <2>. QED
    BY <2>2, <2>3, <2>4
<1>10. ASSUME NEW p \in Person, H!ForceMove(p) PROVE HandInv'
  <2>1. /\ cmd[p] = "force-move" /\ cmd' = [cmd EXCEPT ![p] = "none"]
        /\ UNCHANGED <<attempt, seen, checks, passed, landed, at>>
        /\ \/ UNCHANGED <<state, holder, forced>>
           \/ /\ state = "claimed" /\ state' = "open" /\ holder' = None /\ attempt = at[p].attempt
              /\ forced' = forced \cup {[took |-> holder, read |-> at[p].holder,
                                         attempt |-> attempt, from |-> at[p].attempt]}
    BY <1>10 DEF H!ForceMove, H!Goto, H!Fenced
  <2>2. HandTypes'
    BY <2>1 DEF HandTypes, H!TypeOK
  <2>3. EvidenceLater' /\ ConfirmedAll' /\ H!FinishedAsConfirmed'
    BY <2>1 DEF EvidenceLater, ConfirmedAll, H!FinishedAsConfirmed
  <2>4. ReadStill'
    BY <2>1 DEF HandTypes, H!TypeOK, ReadStill, Finished
  <2>5. H!ForcedAsRead'
    BY <2>1 DEF ReadStill, H!ForcedAsRead
  <2>. QED
    BY <2>2, <2>3, <2>4, <2>5
<1>11. ASSUME NEW p \in Person, H!EditChecks(p) PROVE HandInv'
  <2>1. /\ cmd' = [cmd EXCEPT ![p] = "none"]
        /\ UNCHANGED <<state, holder, attempt, seen, passed, landed, at, forced>>
        /\ checks' = checks \/ (state \in {"open", "blocked"} /\ checks' \in SUBSET HandCheck)
    BY <1>11 DEF H!EditChecks, H!Goto, H!StillEditable, H!Editable
  <2>2. HandTypes'
    BY <2>1 DEF HandTypes, H!TypeOK
  <2>3. EvidenceLater' /\ ConfirmedAll' /\ H!FinishedAsConfirmed' /\ H!ForcedAsRead'
    BY <2>1 DEF EvidenceLater, ConfirmedAll, H!FinishedAsConfirmed, H!ForcedAsRead
  <2>4. ReadStill'
    BY <2>1 DEF HandTypes, H!TypeOK, ReadStill, Finished
  <2>. QED
    BY <2>2, <2>3, <2>4
<1>. HIDE DEF HandInv, H!Attempt, H!Actor, H!evidence, H!engine
<1>12. CASE H!Next
  BY <1>2, <1>3, <1>4, <1>5, <1>6, <1>7, <1>8, <1>9, <1>10, <1>11, <1>12 DEF H!Next
<1>. QED
  BY <1>0, <1>12

----------------------------------------------------------------------------
(* Planning sessions                                                         *)

Stages == {"idle", "plan", "guard", "tree", "spawn", "live", "decide", "asked", "check", "approve", "menu", "done"}
Outcomes == {"none", "approved", "discarded", "later", "empty"}
Launches == [pc : Stages, resume : BOOLEAN, plan : Plan \cup {None}, fresh : BOOLEAN, keep : BOOLEAN,
             outcome : Outcomes, seen : SUBSET Task, late : SUBSET Task]

PlanTypes == P!TypeOK /\ ln \in [Launcher -> Launches]

\* A launcher past its plan's making has one, which was made; a session's launcher waits for it.
PlansMade ==
  \A l \in Launcher :
    /\ ln[l].pc \notin {"idle", "plan", "done"} => ln[l].plan \in Plan
    /\ ln[l].plan # None => plan[ln[l].plan] # "unmade"
    /\ l \in alive => ln[l].pc = "live"

\* What is about to be approved was shown, or filed since the comparison.
ShownOrLate ==
  \A l \in Launcher : ln[l].pc = "approve" => P!Tasks(ln[l].plan) \subseteq ln[l].seen \cup ln[l].late

PlanInv == PlanTypes /\ PlansMade /\ ShownOrLate

LEMMA PlanInit == P!Init => PlanInv
<1>. SUFFICES ASSUME P!Init PROVE PlanInv
  OBVIOUS
<1>1. PICK resumes \in SUBSET Launcher : ln = [l \in Launcher |-> P!Fresh(l \in resumes)]
  BY DEF P!Init
<1>2. \A l \in Launcher : ln[l] \in Launches /\ ln[l].pc = "idle" /\ ln[l].plan = None /\ ln[l].outcome = "none"
  BY <1>1 DEF P!Fresh, Launches, Stages, Outcomes
<1>3. PlanTypes
  BY <1>1, <1>2 DEF P!Init, PlanTypes, P!TypeOK
<1>4. PlansMade /\ ShownOrLate
  BY <1>2 DEF P!Init, PlansMade, ShownOrLate
<1>. QED
  BY <1>3, <1>4 DEF PlanInv

\* A launcher's record, changed where the commands change it.
LEMMA LaunchField ==
  ASSUME NEW f \in [Launcher -> Launches], NEW l \in Launcher
  PROVE  /\ \A x \in Stages : [f EXCEPT ![l].pc = x] \in [Launcher -> Launches]
         /\ \A q \in Plan : [f EXCEPT ![l].plan = q] \in [Launcher -> Launches]
         /\ \A b \in BOOLEAN : /\ [f EXCEPT ![l].fresh = b] \in [Launcher -> Launches]
                             /\ [f EXCEPT ![l].keep = b] \in [Launcher -> Launches]
                             /\ [f EXCEPT ![l].resume = b] \in [Launcher -> Launches]
         /\ \A o \in Outcomes : [f EXCEPT ![l].outcome = o] \in [Launcher -> Launches]
         /\ \A ts \in SUBSET Task : /\ [f EXCEPT ![l].seen = ts] \in [Launcher -> Launches]
                                  /\ [f EXCEPT ![l].late = ts] \in [Launcher -> Launches]
BY DEF Launches

Moved(f, l, x, q) ==
  /\ f \in [Launcher -> Launches] /\ f[l].pc = x /\ f[l].plan = q
  /\ \A m \in Launcher \ {l} : f[m] = ln[m]

LEMMA LaunchMoves ==
  ASSUME PlanTypes, NEW l \in Launcher
  PROVE  /\ \A x \in Stages : Moved([ln EXCEPT ![l].pc = x], l, x, ln[l].plan)
         /\ \A x \in Stages, q \in Plan :
              /\ Moved([ln EXCEPT ![l].pc = x, ![l].plan = q, ![l].fresh = TRUE, ![l].keep = FALSE], l, x, q)
              /\ Moved([ln EXCEPT ![l].pc = x, ![l].plan = q, ![l].fresh = FALSE], l, x, q)
         /\ \A x \in Stages, o \in Outcomes :
              /\ Moved([ln EXCEPT ![l].pc = x, ![l].resume = FALSE, ![l].outcome = o], l, x, ln[l].plan)
              /\ Moved([P!Again(l) EXCEPT ![l].pc = x, ![l].outcome = o], l, x, ln[l].plan)
         /\ \A x \in Stages, ts \in SUBSET Task :
              Moved([ln EXCEPT ![l].pc = x, ![l].seen = ts, ![l].late = {}], l, x, ln[l].plan)
         /\ \A x \in Stages, k \in BOOLEAN :
              Moved([ln EXCEPT ![l].pc = x, ![l].keep = k, ![l].fresh = FALSE], l, x, ln[l].plan)
         /\ \A x \in Stages, k \in BOOLEAN, q \in Plan :
              Moved([ln EXCEPT ![l].pc = x, ![l].keep = k, ![l].plan = q, ![l].fresh = TRUE], l, x, q)
         /\ \A x \in Stages :
              Moved([P!Again(l) EXCEPT ![l].pc = x, ![l].keep = TRUE, ![l].fresh = FALSE], l, x, ln[l].plan)
         /\ Moved([ln EXCEPT ![l] = [P!Fresh(FALSE) EXCEPT !.pc = "done", !.plan = ln[l].plan]], l, "done", ln[l].plan)
<1>. USE LaunchField DEF PlanTypes
<1>1. P!Again(l) \in [Launcher -> Launches] /\ P!Again(l)[l].plan = ln[l].plan /\ \A m \in Launcher \ {l} : P!Again(l)[m] = ln[m]
  <2>1. [ln EXCEPT ![l].pc = "decide"] \in [Launcher -> Launches]
    BY DEF Stages
  <2>2. [ln EXCEPT ![l].pc = "decide", ![l].seen = {}] \in [Launcher -> Launches]
    BY <2>1
  <2>3. P!Again(l) \in [Launcher -> Launches]
    BY <2>2 DEF P!Again
  <2>. QED
    BY <2>3 DEF P!Again, Launches
<1>2. ASSUME NEW x \in Stages
      PROVE  Moved([ln EXCEPT ![l].pc = x], l, x, ln[l].plan)
  <2>1. [ln EXCEPT ![l].pc = x] \in [Launcher -> Launches]
    OBVIOUS
  <2>2. ln[l] \in Launches
    OBVIOUS
  <2>3. [ln EXCEPT ![l].pc = x][l].pc = x /\ [ln EXCEPT ![l].pc = x][l].plan = ln[l].plan
    BY <2>2 DEF Launches
  <2>. QED
    BY <2>1, <2>3 DEF Moved
<1>3. ASSUME NEW x \in Stages, NEW q \in Plan
      PROVE  Moved([ln EXCEPT ![l].pc = x, ![l].plan = q, ![l].fresh = TRUE, ![l].keep = FALSE], l, x, q)
  <2>1. [ln EXCEPT ![l].pc = x] \in [Launcher -> Launches]
    OBVIOUS
  <2>2. [ln EXCEPT ![l].pc = x, ![l].plan = q] \in [Launcher -> Launches]
    BY <2>1
  <2>3. [ln EXCEPT ![l].pc = x, ![l].plan = q, ![l].fresh = TRUE] \in [Launcher -> Launches]
    BY <2>2
  <2>4. [ln EXCEPT ![l].pc = x, ![l].plan = q, ![l].fresh = TRUE, ![l].keep = FALSE] \in [Launcher -> Launches]
    BY <2>3
  <2>. QED
    BY <2>4 DEF Moved, Launches
<1>4. ASSUME NEW x \in Stages, NEW q \in Plan
      PROVE  Moved([ln EXCEPT ![l].pc = x, ![l].plan = q, ![l].fresh = FALSE], l, x, q)
  <2>1. [ln EXCEPT ![l].pc = x] \in [Launcher -> Launches]
    OBVIOUS
  <2>2. [ln EXCEPT ![l].pc = x, ![l].plan = q] \in [Launcher -> Launches]
    BY <2>1
  <2>3. [ln EXCEPT ![l].pc = x, ![l].plan = q, ![l].fresh = FALSE] \in [Launcher -> Launches]
    BY <2>2
  <2>. QED
    BY <2>3 DEF Moved, Launches
<1>5. ASSUME NEW x \in Stages, NEW o \in Outcomes
      PROVE  Moved([ln EXCEPT ![l].pc = x, ![l].resume = FALSE, ![l].outcome = o], l, x, ln[l].plan)
  <2>1. [ln EXCEPT ![l].pc = x] \in [Launcher -> Launches]
    OBVIOUS
  <2>2. [ln EXCEPT ![l].pc = x, ![l].resume = FALSE] \in [Launcher -> Launches]
    BY <2>1
  <2>3. [ln EXCEPT ![l].pc = x, ![l].resume = FALSE, ![l].outcome = o] \in [Launcher -> Launches]
    BY <2>2
  <2>. QED
    BY <2>3 DEF Moved, Launches
<1>6. ASSUME NEW x \in Stages, NEW ts \in SUBSET Task
      PROVE  Moved([ln EXCEPT ![l].pc = x, ![l].seen = ts, ![l].late = {}], l, x, ln[l].plan)
  <2>1. [ln EXCEPT ![l].pc = x] \in [Launcher -> Launches]
    OBVIOUS
  <2>2. [ln EXCEPT ![l].pc = x, ![l].seen = ts] \in [Launcher -> Launches]
    BY <2>1
  <2>3. [ln EXCEPT ![l].pc = x, ![l].seen = ts, ![l].late = {}] \in [Launcher -> Launches]
    BY <2>2
  <2>. QED
    BY <2>3 DEF Moved, Launches
<1>7. ASSUME NEW x \in Stages, NEW k \in BOOLEAN
      PROVE  Moved([ln EXCEPT ![l].pc = x, ![l].keep = k, ![l].fresh = FALSE], l, x, ln[l].plan)
  <2>1. [ln EXCEPT ![l].pc = x] \in [Launcher -> Launches]
    OBVIOUS
  <2>2. [ln EXCEPT ![l].pc = x, ![l].keep = k] \in [Launcher -> Launches]
    BY <2>1
  <2>3. [ln EXCEPT ![l].pc = x, ![l].keep = k, ![l].fresh = FALSE] \in [Launcher -> Launches]
    BY <2>2
  <2>. QED
    BY <2>3 DEF Moved, Launches
<1>8. ASSUME NEW x \in Stages, NEW q \in Plan, NEW k \in BOOLEAN
      PROVE  Moved([ln EXCEPT ![l].pc = x, ![l].keep = k, ![l].plan = q, ![l].fresh = TRUE], l, x, q)
  <2>1. [ln EXCEPT ![l].pc = x] \in [Launcher -> Launches]
    OBVIOUS
  <2>2. [ln EXCEPT ![l].pc = x, ![l].keep = k] \in [Launcher -> Launches]
    BY <2>1
  <2>3. [ln EXCEPT ![l].pc = x, ![l].keep = k, ![l].plan = q] \in [Launcher -> Launches]
    BY <2>2
  <2>4. [ln EXCEPT ![l].pc = x, ![l].keep = k, ![l].plan = q, ![l].fresh = TRUE] \in [Launcher -> Launches]
    BY <2>3
  <2>. QED
    BY <2>4 DEF Moved, Launches
<1>9. ASSUME NEW x \in Stages, NEW o \in Outcomes
      PROVE  Moved([P!Again(l) EXCEPT ![l].pc = x, ![l].outcome = o], l, x, ln[l].plan)
  <2>1. [P!Again(l) EXCEPT ![l].pc = x] \in [Launcher -> Launches]
    BY <1>1
  <2>2. [P!Again(l) EXCEPT ![l].pc = x, ![l].outcome = o] \in [Launcher -> Launches]
    BY <2>1
  <2>. QED
    BY <2>2, <1>1 DEF Moved, Launches
<1>10. ASSUME NEW x \in Stages
      PROVE  Moved([P!Again(l) EXCEPT ![l].pc = x, ![l].keep = TRUE, ![l].fresh = FALSE], l, x, ln[l].plan)
  <2>1. [P!Again(l) EXCEPT ![l].pc = x] \in [Launcher -> Launches]
    BY <1>1
  <2>2. [P!Again(l) EXCEPT ![l].pc = x, ![l].keep = TRUE] \in [Launcher -> Launches]
    BY <2>1
  <2>3. [P!Again(l) EXCEPT ![l].pc = x, ![l].keep = TRUE, ![l].fresh = FALSE] \in [Launcher -> Launches]
    BY <2>2
  <2>. QED
    BY <2>3, <1>1 DEF Moved, Launches
<1>11. Moved([ln EXCEPT ![l] = [P!Fresh(FALSE) EXCEPT !.pc = "done", !.plan = ln[l].plan]], l, "done", ln[l].plan)
  <2>. DEFINE r == [P!Fresh(FALSE) EXCEPT !.pc = "done", !.plan = ln[l].plan]
  <2>1. ln[l] \in Launches /\ ln[l].plan \in Plan \cup {None}
    BY DEF Launches
  <2>2. r \in Launches /\ r.pc = "done" /\ r.plan = ln[l].plan
    BY <2>1 DEF Launches, P!Fresh, Stages, Outcomes
  <2>. HIDE DEF r
  <2>3. Moved([ln EXCEPT ![l] = r], l, "done", ln[l].plan)
    BY <2>2 DEF Moved
  <2>. QED
    BY <2>3 DEF r
<1>. QED
  BY <1>2, <1>3, <1>4, <1>5, <1>6, <1>7, <1>8, <1>9, <1>10, <1>11

\* A step of one launcher that unmakes no plan keeps the invariant, unless it goes on to approve.
LEMMA LaunchKeeps ==
  ASSUME PlanInv, NEW l \in Launcher, NEW x, NEW q, Moved(ln', l, x, q), x # "approve", UNCHANGED in,
         plan' \in [Plan -> {"unmade", "open", "approved", "discarded"}],
         \A r \in Plan : plan[r] # "unmade" => plan'[r] # "unmade",
         launcherPid' \in Launcher \cup {None}, alive' \subseteq alive \cup {l}, trees' \subseteq Launcher,
         x \notin {"idle", "plan", "done"} => q \in Plan,
         q # None => q \in Plan /\ plan'[q] # "unmade",
         l \in alive' => x = "live"
  PROVE  PlanInv'
<1>1. PlanTypes'
  BY DEF PlanInv, PlanTypes, P!TypeOK, Moved, Launches, Stages, Outcomes
<1>2. PlansMade'
  BY NamesAssumption DEF PlanInv, PlanTypes, PlansMade, Moved, Launches
<1>3. ShownOrLate'
  BY DEF PlanInv, ShownOrLate, Moved, P!Tasks
<1>. QED
  BY <1>1, <1>2, <1>3 DEF PlanInv

LEMMA PlanNext == PlanInv /\ [P!Next]_planningVars => PlanInv'
<1>. SUFFICES ASSUME PlanInv, [P!Next]_planningVars PROVE PlanInv'
  OBVIOUS
<1>. USE NamesAssumption
<1>0. CASE UNCHANGED planningVars
  BY <1>0 DEF planningVars, PlanInv, PlanTypes, P!TypeOK, PlansMade, ShownOrLate, P!Tasks
<1>1. PlanTypes /\ P!TypeOK
  BY DEF PlanInv, PlanTypes
<1>2. \A l \in Launcher :
        /\ ln[l] \in Launches
        /\ ln[l].pc \notin {"idle", "plan", "done"} => ln[l].plan \in Plan
        /\ ln[l].plan # None => ln[l].plan \in Plan /\ plan[ln[l].plan] # "unmade"
        /\ ln[l].pc # "live" => l \notin alive
  BY DEF PlanInv, PlanTypes, PlansMade, Launches
<1>3. /\ "guard" \in Stages /\ "tree" \in Stages /\ "spawn" \in Stages /\ "live" \in Stages /\ "plan" \in Stages
      /\ "decide" \in Stages /\ "asked" \in Stages /\ "check" \in Stages /\ "menu" \in Stages
      /\ "none" \in Outcomes /\ "later" \in Outcomes /\ "empty" \in Outcomes /\ "discarded" \in Outcomes
      /\ "approved" \in Outcomes
  BY DEF Stages, Outcomes
\* What is left of the cases: who moves, and that no plan is unmade.
<1>5. \A q \in Plan : /\ P!Dropped(q) \in [Plan -> {"unmade", "open", "approved", "discarded"}]
                      /\ \A r \in Plan : plan[r] # "unmade" => P!Dropped(q)[r] # "unmade"
  BY <1>1 DEF P!Dropped, P!TypeOK
<1>6. ASSUME NEW l \in Launcher, P!Ends(l) PROVE Moved(ln', l, "done", ln[l].plan)
  BY <1>1, <1>6, LaunchMoves DEF P!Ends
<1>7. ASSUME NEW l \in Launcher, NEW x \in Stages, P!Goto(l, x) PROVE Moved(ln', l, x, ln[l].plan)
  BY <1>1, <1>7, LaunchMoves DEF P!Goto
<1>8. ASSUME NEW l \in Launcher, NEW o \in Outcomes, P!ToMenu(l, o) PROVE Moved(ln', l, "menu", ln[l].plan)
  BY <1>1, <1>3, <1>8, LaunchMoves DEF P!ToMenu
<1>9. ASSUME NEW l \in Launcher, P!Spawned(l) PROVE Moved(ln', l, "live", ln[l].plan)
  BY <1>1, <1>3, <1>9, LaunchMoves DEF P!Spawned
<1>10. ASSUME NEW l \in Launcher, ln' = P!Again(l) PROVE Moved(ln', l, "decide", ln[l].plan)
  BY <1>1, <1>3, <1>10, LaunchMoves DEF P!Again
<1>11. ASSUME NEW l \in Launcher, P!Gate(l) PROVE PlanInv'
  <2>1. ln[l].pc = "idle" /\ UNCHANGED <<launcherPid, alive, trees, plan, in>>
    BY <1>11 DEF P!Gate
  <2>2. CASE P!Ends(l)
    BY <1>1, <1>2, <1>6, <2>1, <2>2, LaunchKeeps DEF P!TypeOK
  <2>3. CASE P!Goto(l, "plan")
    BY <1>1, <1>2, <1>3, <1>7, <2>1, <2>3, LaunchKeeps DEF P!TypeOK
  <2>. QED
    BY <1>11, <2>2, <2>3 DEF P!Gate
<1>12. ASSUME NEW l \in Launcher, P!MakePlan(l) PROVE PlanInv'
  <2>1. ln[l].pc = "plan" /\ UNCHANGED <<launcherPid, alive, trees, in>>
    BY <1>12 DEF P!MakePlan
  <2>2. ASSUME NEW q \in Plan, plan[q] = "unmade", plan' = [plan EXCEPT ![q] = "open"],
               ln' = [ln EXCEPT ![l].pc = "guard", ![l].plan = q, ![l].fresh = TRUE, ![l].keep = FALSE]
        PROVE  PlanInv'
    <3>1. Moved(ln', l, "guard", q)
      BY <1>1, <1>3, <2>2, LaunchMoves
    <3>. QED
      BY <1>1, <1>2, <2>1, <2>2, <3>1, LaunchKeeps DEF P!TypeOK
  <2>3. ASSUME NEW q \in Plan, P!Open(q), plan' = plan,
               ln' = [ln EXCEPT ![l].pc = "guard", ![l].plan = q, ![l].fresh = FALSE]
        PROVE  PlanInv'
    <3>1. Moved(ln', l, "guard", q)
      BY <1>1, <1>3, <2>3, LaunchMoves
    <3>. QED
      BY <1>1, <1>2, <2>1, <2>3, <3>1, LaunchKeeps DEF P!TypeOK, P!Open
  <2>4. CASE P!Ends(l) /\ plan' = plan
    BY <1>1, <1>2, <1>6, <2>1, <2>4, LaunchKeeps DEF P!TypeOK
  <2>. QED
    BY <1>12, <2>2, <2>3, <2>4 DEF P!MakePlan
\* Whoever gives up.
<1>13. ASSUME NEW l \in Launcher, P!GivesUp(l), ln[l].pc \in {"guard", "tree"}, alive' = alive,
              launcherPid' = launcherPid, trees' \subseteq Launcher, UNCHANGED in
       PROVE  PlanInv'
  <2>1. plan' = plan \/ plan' = P!Dropped(ln[l].plan)
    BY <1>13 DEF P!GivesUp
  <2>2. Moved(ln', l, "done", ln[l].plan)
    BY <1>6, <1>13 DEF P!GivesUp
  <2>. QED
    BY <1>1, <1>2, <1>5, <1>13, <2>1, <2>2, LaunchKeeps DEF P!TypeOK
<1>14. ASSUME NEW l \in Launcher, P!Guard(l) PROVE PlanInv'
  <2>1. ln[l].pc = "guard" /\ UNCHANGED <<trees, in>> /\ trees \subseteq Launcher
    BY <1>1, <1>14 DEF P!Guard, P!TypeOK
  <2>2. CASE P!GivesUp(l) /\ UNCHANGED <<launcherPid, alive>>
    BY <1>13, <2>1, <2>2
  <2>3. CASE P!Spawned(l) /\ UNCHANGED plan
    BY <1>1, <1>2, <1>9, <2>1, <2>3, LaunchKeeps DEF P!TypeOK, P!Spawned
  <2>4. CASE P!Goto(l, "tree") /\ UNCHANGED <<plan, launcherPid, alive>>
    BY <1>1, <1>2, <1>3, <1>7, <2>1, <2>4, LaunchKeeps DEF P!TypeOK
  <2>. QED
    BY <1>14, <2>2, <2>3, <2>4 DEF P!Guard
<1>15. ASSUME NEW l \in Launcher, P!Tree(l) PROVE PlanInv'
  <2>1. ln[l].pc = "tree" /\ UNCHANGED <<launcherPid, alive, in>> /\ trees' \subseteq Launcher
    BY <1>1, <1>15 DEF P!Tree, P!TypeOK
  <2>2. CASE P!GivesUp(l)
    BY <1>13, <2>1, <2>2
  <2>3. CASE P!Goto(l, "spawn") /\ UNCHANGED plan
    BY <1>1, <1>2, <1>3, <1>7, <2>1, <2>3, LaunchKeeps DEF P!TypeOK
  <2>. QED
    BY <1>15, <2>2, <2>3 DEF P!Tree
<1>16. ASSUME NEW l \in Launcher, P!Spawn(l) PROVE PlanInv'
  BY <1>1, <1>2, <1>9, <1>16, LaunchKeeps DEF P!Spawn, P!Spawned, P!TypeOK
<1>17. ASSUME NEW l \in Launcher, P!ChildExits(l) PROVE PlanInv'
  <2>1. /\ ln[l].pc = "live" /\ l \notin alive' /\ alive' \subseteq alive
        /\ launcherPid' \in Launcher \cup {None} /\ UNCHANGED <<trees, plan, in>> /\ P!Goto(l, "decide")
    BY <1>1, <1>17 DEF P!ChildExits, P!TypeOK, PlanInv, PlansMade
  <2>. QED
    BY <1>1, <1>2, <1>3, <1>7, <2>1, LaunchKeeps DEF P!TypeOK
<1>18. ASSUME NEW l \in Launcher, P!Summary(l) PROVE PlanInv'
  <2>1. ln[l].pc = "decide" /\ UNCHANGED <<launcherPid, alive, trees, plan, in>>
    BY <1>18 DEF P!Summary
  <2>2. ASSUME NEW o \in Outcomes, P!ToMenu(l, o) PROVE PlanInv'
    BY <1>1, <1>2, <1>8, <2>1, <2>2, LaunchKeeps DEF P!TypeOK
  <2>3. CASE ln' = [ln EXCEPT ![l].pc = "asked", ![l].seen = P!Tasks(ln[l].plan), ![l].late = {}]
    <3>1. P!Tasks(ln[l].plan) \in SUBSET Task
      BY DEF P!Tasks
    <3>2. Moved(ln', l, "asked", ln[l].plan)
      BY <1>1, <1>3, <2>3, <3>1, LaunchMoves
    <3>. QED
      BY <1>1, <1>2, <2>1, <3>2, LaunchKeeps DEF P!TypeOK
  <2>4. ~P!Open(ln[l].plan) => plan[ln[l].plan] \in Outcomes
    BY <1>1, <1>2, <2>1 DEF P!Open, P!TypeOK, Outcomes
  <2>. QED
    BY <1>3, <1>18, <2>2, <2>3, <2>4 DEF P!Summary
<1>19. ASSUME NEW l \in Launcher, P!Answer(l) PROVE PlanInv'
  <2>1. ln[l].pc = "asked" /\ UNCHANGED <<launcherPid, alive, in>>
    BY <1>19 DEF P!Answer
  <2>2. CASE ln' = P!Again(l) /\ UNCHANGED <<trees, plan>>
    BY <1>1, <1>2, <1>10, <2>1, <2>2, LaunchKeeps DEF P!TypeOK
  <2>3. CASE P!ToMenu(l, "later") /\ UNCHANGED <<trees, plan>>
    BY <1>1, <1>2, <1>3, <1>8, <2>1, <2>3, LaunchKeeps DEF P!TypeOK
  <2>4. CASE P!Goto(l, "check") /\ UNCHANGED <<trees, plan>>
    BY <1>1, <1>2, <1>3, <1>7, <2>1, <2>4, LaunchKeeps DEF P!TypeOK
  <2>5. CASE /\ plan' = [plan EXCEPT ![ln[l].plan] = "discarded"] /\ P!ToMenu(l, "discarded") /\ UNCHANGED trees
    BY <1>1, <1>2, <1>3, <1>8, <2>1, <2>5, LaunchKeeps DEF P!TypeOK
  <2>6. CASE /\ ln' = [P!Again(l) EXCEPT ![l].pc = "guard", ![l].keep = TRUE, ![l].fresh = FALSE]
             /\ UNCHANGED <<trees, plan>>
    <3>1. Moved(ln', l, "guard", ln[l].plan)
      BY <1>1, <1>3, <2>6, LaunchMoves
    <3>. QED
      BY <1>1, <1>2, <2>1, <2>6, <3>1, LaunchKeeps DEF P!TypeOK
  <2>7. CASE P!Ends(l) /\ trees' = {} /\ UNCHANGED plan
    BY <1>1, <1>2, <1>6, <2>1, <2>7, LaunchKeeps DEF P!TypeOK
  <2>. QED
    BY <1>19, <2>2, <2>3, <2>4, <2>5, <2>6, <2>7 DEF P!Answer
<1>20. ASSUME NEW l \in Launcher, P!Check(l) PROVE PlanInv'
  <2>1. ln[l].pc = "check" /\ UNCHANGED <<launcherPid, alive, trees, plan, in>>
    BY <1>20 DEF P!Check
  <2>2. CASE P!AsShown(l) /\ P!Goto(l, "approve")
    <3>1. Moved(ln', l, "approve", ln[l].plan) /\ ln'[l].seen = ln[l].seen
      <4>1. Moved(ln', l, "approve", ln[l].plan)
        BY <1>7, <2>2 DEF Stages
      <4>2. ln' = [ln EXCEPT ![l].pc = "approve"]
        BY <2>2 DEF P!Goto
      <4>. QED
        BY <1>1, <1>2, <4>1, <4>2 DEF PlanTypes, Launches
    <3>2. PlanTypes'
      BY <1>1, <2>1, <3>1 DEF PlanTypes, P!TypeOK, Moved, Launches, Stages, Outcomes
    <3>3. PlansMade'
      BY <1>2, <2>1, <3>1 DEF PlanInv, PlansMade, Moved
    <3>4. ShownOrLate'
      BY <2>1, <2>2, <3>1 DEF PlanInv, ShownOrLate, Moved, P!Tasks, P!AsShown
    <3>. QED
      BY <3>2, <3>3, <3>4 DEF PlanInv
  <2>3. CASE ln' = P!Again(l)
    BY <1>1, <1>2, <1>10, <2>1, <2>3, LaunchKeeps DEF P!TypeOK
  <2>. QED
    BY <1>20, <2>2, <2>3 DEF P!Check
<1>21. ASSUME NEW l \in Launcher, P!Approve(l) PROVE PlanInv'
  <2>1. ln[l].pc = "approve" /\ UNCHANGED <<launcherPid, alive, trees, in>>
    BY <1>21 DEF P!Approve
  <2>2. CASE plan' = [plan EXCEPT ![ln[l].plan] = "approved"] /\ P!ToMenu(l, "approved")
    BY <1>1, <1>2, <1>3, <1>8, <2>1, <2>2, LaunchKeeps DEF P!TypeOK
  <2>3. CASE ln' = P!Again(l) /\ UNCHANGED plan
    BY <1>1, <1>2, <1>10, <2>1, <2>3, LaunchKeeps DEF P!TypeOK
  <2>. QED
    BY <1>21, <2>2, <2>3 DEF P!Approve
<1>22. ASSUME NEW l \in Launcher, P!Menu(l) PROVE PlanInv'
  <2>1. ln[l].pc = "menu" /\ UNCHANGED <<launcherPid, alive, in>> /\ trees' \subseteq Launcher
    BY <1>1, <1>22 DEF P!Menu, P!TypeOK
  <2>2. CASE P!Ends(l) /\ (plan' = plan \/ plan' = P!Dropped(ln[l].plan))
    BY <1>1, <1>2, <1>5, <1>6, <2>1, <2>2, LaunchKeeps DEF P!TypeOK
  <2>3. ASSUME NEW k \in BOOLEAN, plan' = plan,
               ln' = [ln EXCEPT ![l].pc = "guard", ![l].keep = k, ![l].fresh = FALSE]
        PROVE  PlanInv'
    <3>1. Moved(ln', l, "guard", ln[l].plan)
      BY <1>1, <1>3, <2>3, LaunchMoves
    <3>. QED
      BY <1>1, <1>2, <2>1, <2>3, <3>1, LaunchKeeps DEF P!TypeOK
  <2>4. ASSUME NEW k \in BOOLEAN, NEW q \in Plan, plan' = [plan EXCEPT ![q] = "open"],
               ln' = [ln EXCEPT ![l].pc = "guard", ![l].keep = k, ![l].plan = q, ![l].fresh = TRUE]
        PROVE  PlanInv'
    <3>1. Moved(ln', l, "guard", q)
      BY <1>1, <1>3, <2>4, LaunchMoves
    <3>. QED
      BY <1>1, <1>2, <2>1, <2>4, <3>1, LaunchKeeps DEF P!TypeOK
  <2>. QED
    BY <1>22, <2>2, <2>3, <2>4 DEF P!Menu
<1>23. ASSUME NEW t \in Task, P!Remove(t) PROVE PlanInv'
  <2>1. UNCHANGED <<launcherPid, alive, trees, plan, ln>> /\ in' = [in EXCEPT ![t] = None]
    BY <1>23 DEF P!Remove
  <2>2. PlanTypes' /\ PlansMade'
    BY <1>1, <2>1 DEF PlanInv, PlanTypes, P!TypeOK, PlansMade
  <2>3. \A q \in Plan : P!Tasks(q)' \subseteq P!Tasks(q)
    BY <1>1, <2>1 DEF P!Tasks, P!TypeOK
  <2>4. ShownOrLate'
    BY <1>2, <2>1, <2>3 DEF PlanInv, ShownOrLate, P!Tasks
  <2>. QED
    BY <2>2, <2>4 DEF PlanInv
<1>24. ASSUME NEW t \in Task, NEW q \in Plan, P!File(t, q) PROVE PlanInv'
  <2>1. UNCHANGED <<launcherPid, alive, trees, plan>> /\ in' = [in EXCEPT ![t] = q]
    BY <1>24 DEF P!File
  <2>2. \A l \in Launcher : ln'[l] = IF ln[l].pc = "approve" /\ ln[l].plan = q
                                     THEN [ln[l] EXCEPT !.late = @ \cup {t}] ELSE ln[l]
    BY <1>24 DEF P!File
  <2>3. \A l \in Launcher :
          /\ ln'[l] \in Launches /\ ln'[l].pc = ln[l].pc /\ ln'[l].plan = ln[l].plan /\ ln'[l].seen = ln[l].seen
          /\ ln'[l].late = IF ln[l].pc = "approve" /\ ln[l].plan = q THEN ln[l].late \cup {t} ELSE ln[l].late
    <3>. SUFFICES ASSUME NEW l \in Launcher
                  PROVE  /\ ln'[l] \in Launches /\ ln'[l].pc = ln[l].pc /\ ln'[l].plan = ln[l].plan
                         /\ ln'[l].seen = ln[l].seen
                         /\ ln'[l].late = IF ln[l].pc = "approve" /\ ln[l].plan = q
                                          THEN ln[l].late \cup {t} ELSE ln[l].late
      OBVIOUS
    <3>1. CASE ln[l].pc = "approve" /\ ln[l].plan = q
      <4>. DEFINE ts == ln[l].late \cup {t}
      <4>1. ln'[l] = [ln[l] EXCEPT !.late = ts]
        BY <2>2, <3>1
      <4>2. ln[l] \in Launches
        BY <1>2
      <4>3. ts \in SUBSET Task
        BY <4>2 DEF Launches
      <4>. HIDE DEF ts
      <4>4. /\ ln'[l] \in Launches /\ ln'[l].pc = ln[l].pc /\ ln'[l].plan = ln[l].plan
            /\ ln'[l].seen = ln[l].seen /\ ln'[l].late = ts
        BY <4>1, <4>2, <4>3 DEF Launches
      <4>. QED
        BY <3>1, <4>4 DEF ts
    <3>2. CASE ~(ln[l].pc = "approve" /\ ln[l].plan = q)
      BY <1>2, <2>2, <3>2
    <3>. QED
      BY <3>1, <3>2
  <2>4. PlanTypes'
    <3>1. ln' \in [Launcher -> Launches]
      BY <1>24, <2>3 DEF P!File
    <3>. QED
      BY <1>1, <2>1, <3>1 DEF PlanTypes, P!TypeOK, Launches, Stages, Outcomes
  <2>5. PlansMade'
    BY <2>1, <2>3 DEF PlanInv, PlansMade
  <2>6. ShownOrLate'
    <3>. SUFFICES ASSUME NEW l \in Launcher, ln'[l].pc = "approve", NEW u \in Task, in'[u] = ln'[l].plan
                  PROVE  u \in ln'[l].seen \cup ln'[l].late
      BY DEF ShownOrLate, P!Tasks
    <3>1. ln[l].pc = "approve" /\ ln'[l].plan = ln[l].plan
      BY <2>3
    <3>2. CASE in[u] = ln[l].plan
      <4>1. u \in ln[l].seen \cup ln[l].late
        BY <3>1, <3>2 DEF PlanInv, ShownOrLate, P!Tasks
      <4>. QED
        BY <2>3, <4>1
    <3>3. CASE u = t /\ ln[l].plan = q
      BY <2>3, <3>1, <3>3
    <3>. QED
      BY <1>1, <2>1, <3>1, <3>2, <3>3 DEF P!TypeOK
  <2>. QED
    BY <2>4, <2>5, <2>6 DEF PlanInv
<1>25. ASSUME NEW q \in Plan, P!DecideElsewhere(q) PROVE PlanInv'
  <2>1. PICK d \in {"approved", "discarded"} : plan' = [plan EXCEPT ![q] = d]
    BY <1>25 DEF P!DecideElsewhere
  <2>2. UNCHANGED <<launcherPid, alive, trees, in, ln>>
    BY <1>25 DEF P!DecideElsewhere
  <2>. QED
    BY <1>1, <2>1, <2>2 DEF PlanInv, PlanTypes, P!TypeOK, PlansMade, ShownOrLate, P!Tasks
<1>26. CASE P!Stop
  BY <1>1, <1>26 DEF P!Stop, PlanInv, PlanTypes, P!TypeOK, PlansMade, ShownOrLate, P!Tasks
<1>27. CASE P!Next
  BY <1>11, <1>12, <1>14, <1>15, <1>16, <1>17, <1>18, <1>19, <1>20, <1>21, <1>22, <1>23, <1>24, <1>25,
     <1>26, <1>27 DEF P!Next
<1>. QED
  BY <1>0, <1>27

\* by-hand.ts: whoever claims, edits, confirms, finishes and releases by hand, a task is finished
\* over the checks it was claimed with, all confirmed, and a forced release ends the attempt
\* that was read.
THEOREM HandledAsWasRead == Spec => []HandledAsRead
<1>1. Init => HandInv /\ PlanInv
  BY HandInit, PlanInit DEF Init
<1>2. HandInv /\ PlanInv /\ [Next]_vars => (HandInv /\ PlanInv)'
  <2>1. [Next]_vars => [H!Next]_byhandVars /\ [P!Next]_planningVars
    BY DEF Next, vars
  <2>. QED
    BY <2>1, HandNext, PlanNext
<1>3. HandInv /\ PlanInv => HandledAsRead
  BY DEF HandInv, HandTypes, PlanInv, PlanTypes, HandledAsRead
<1>. QED
  BY <1>1, <1>2, <1>3, PTL DEF Spec

\* suthradhara.ts decidePlan: however many sessions, shells and launchers file into plans, decide
\* them and die, the plan a launcher approves holds what was shown and what was filed since the
\* comparison.
THEOREM ApprovalsWereSeen == Spec => ApprovedWasSeen
<1>1. Init => PlanInv
  BY PlanInit DEF Init
<1>2. PlanInv /\ [Next]_vars => PlanInv'
  <2>1. [Next]_vars => [P!Next]_planningVars
    BY DEF Next, vars
  <2>. QED
    BY <2>1, PlanNext
<1>3. PlanInv => \A l \in Launcher : (ln[l].pc = "approve" /\ ln'[l].outcome = "approved") =>
                   P!Tasks(ln[l].plan) \subseteq ln[l].seen \cup ln[l].late
  BY DEF PlanInv, ShownOrLate
<1>. QED
  BY <1>1, <1>2, <1>3, PTL DEF Spec, ApprovedWasSeen, P!ApprovedWasSeen

----------------------------------------------------------------------------
(* Dumps                                                                     *)

DumpTypes ==
  /\ D!TypeOK /\ clock \in 0..MaxDays
  /\ name \in [Dumper -> D!Name \cup {None}] /\ migrated \in [Dumper -> D!Name \cup {None}]
  /\ \A p \in Dumper : dpc[p] \in {"dump", "finish"} => name[p] \in D!Name /\ name[p].kind = KindOf[p]

\* Who is gone does nothing; who moves a lock aside read one of a process that was gone, and
\* has it aside no longer than it takes to look at it.
Movers ==
  /\ \A p \in gone : dpc[p] = "done"
  /\ \A p \in Dumper :
       /\ dpc[p] = "take" => saw[p] # None
       /\ dpc[p] = "back" => saw[p] \in gone
       /\ aside[p] # None => dpc[p] \in {"back", "done"}
       /\ aside[p] \notin {None, saw[p]} => dpc[p] = "back" \/ ousted # {}

\* Who dumps has the lock, or someone has just moved it aside by mistake.
DumperLocks ==
  ousted = {} =>
    \A p \in Dumper : dpc[p] \in D!Working => dumpLock = p \/ \E q \in Dumper : aside[q] = p /\ dpc[q] = "back"

\* A migration's dump is there under its name, which is not a daily dump's.
DumpKept ==
  \A p \in Dumper : migrated[p] # None =>
    migrated[p].kind = "pre-migrate" /\ \E d \in dumps : d.name = migrated[p]

DumpInv == DumpTypes /\ Movers /\ DumperLocks /\ DumpKept

LEMMA DumpInit == D!Init => DumpInv
<1>. SUFFICES ASSUME D!Init PROVE DumpInv
  OBVIOUS
<1>. USE DumpAssumption DEF D!Working
<1>1. PICK dead \in Dumper \cup {None} :
        /\ dumpLock = dead /\ gone = {dead} \ {None}
        /\ dpc = [p \in Dumper |-> IF p = dead THEN "done" ELSE "start"]
  BY DEF D!Init
<1>2. /\ aside = [p \in Dumper |-> None] /\ saw = [p \in Dumper |-> None] /\ name = [p \in Dumper |-> None]
      /\ dumps = {} /\ clock = 0 /\ ousted = {} /\ migrated = [p \in Dumper |-> None]
  BY DEF D!Init
<1>3. DumpTypes
  BY <1>1, <1>2 DEF DumpTypes, D!TypeOK
<1>4. Movers /\ DumperLocks /\ DumpKept
  BY <1>1, <1>2 DEF Movers, DumperLocks, DumpKept
<1>. QED
  BY <1>3, <1>4 DEF DumpInv

LEMMA DumpNext == DumpInv /\ [D!Next]_dumpsVars => DumpInv'
<1>. SUFFICES ASSUME DumpInv, [D!Next]_dumpsVars PROVE DumpInv'
  OBVIOUS
<1>. USE DumpAssumption DEF DumpInv, D!Working, D!Goto, D!files
<1>0. CASE UNCHANGED dumpsVars
  BY <1>0 DEF dumpsVars, DumpTypes, D!TypeOK, Movers, DumperLocks, DumpKept
<1>1. ASSUME NEW p \in Dumper, D!NotDue(p) PROVE DumpInv'
  <2>1. /\ dpc[p] = "start" /\ dpc' = [dpc EXCEPT ![p] = "done"]
        /\ UNCHANGED <<dumpLock, aside, saw, name, dumps, clock, gone, ousted, migrated>>
    BY <1>1 DEF D!NotDue
  <2>2. DumpTypes' /\ DumpKept'
    BY <2>1 DEF DumpTypes, D!TypeOK, DumpKept
  <2>3. Movers' /\ DumperLocks'
    BY <2>1 DEF DumpTypes, D!TypeOK, Movers, DumperLocks
  <2>. QED
    BY <2>2, <2>3
<1>2. ASSUME NEW p \in Dumper, D!Acquire(p) PROVE DumpInv'
  <2>1. /\ dpc[p] \in {"start", "look"} /\ aside[p] = None
        /\ UNCHANGED <<aside, name, dumps, clock, gone, ousted, migrated>>
    BY <1>2 DEF D!Acquire, Movers
  <2>2. CASE dumpLock = None /\ dumpLock' = p /\ dpc' = [dpc EXCEPT ![p] = "clean"] /\ UNCHANGED saw
    <3>1. DumpTypes' /\ DumpKept'
      BY <2>1, <2>2 DEF DumpTypes, D!TypeOK, DumpKept
    <3>2. Movers'
      BY <2>1, <2>2 DEF DumpTypes, D!TypeOK, Movers
    <3>3. DumperLocks'
      BY <2>1, <2>2 DEF DumpTypes, D!TypeOK, DumperLocks
    <3>. QED
      BY <3>1, <3>2, <3>3
  <2>3. CASE /\ dumpLock # None /\ saw' = [saw EXCEPT ![p] = dumpLock] /\ dpc' = [dpc EXCEPT ![p] = "take"]
             /\ UNCHANGED dumpLock
    <3>1. DumpTypes' /\ DumpKept'
      BY <2>1, <2>3 DEF DumpTypes, D!TypeOK, DumpKept
    <3>2. Movers'
      BY <2>1, <2>3 DEF DumpTypes, D!TypeOK, Movers
    <3>3. DumperLocks'
      BY <2>1, <2>3 DEF DumpTypes, D!TypeOK, DumperLocks
    <3>. QED
      BY <3>1, <3>2, <3>3
  <2>. QED
    BY <1>2, <2>2, <2>3 DEF D!Acquire
<1>3. ASSUME NEW p \in Dumper, D!Look(p) PROVE DumpInv'
  <2>1. /\ dpc[p] = "take" /\ aside[p] = None /\ saw[p] # None
        /\ UNCHANGED <<saw, name, dumps, clock, gone, ousted, migrated>>
    BY <1>3 DEF D!Look, Movers
  <2>2. CASE dpc' \in {[dpc EXCEPT ![p] = "done"], [dpc EXCEPT ![p] = "look"]} /\ UNCHANGED <<dumpLock, aside>>
    <3>1. DumpTypes' /\ DumpKept'
      BY <2>1, <2>2 DEF DumpTypes, D!TypeOK, DumpKept
    <3>2. Movers' /\ DumperLocks'
      BY <2>1, <2>2 DEF DumpTypes, D!TypeOK, Movers, DumperLocks
    <3>. QED
      BY <3>1, <3>2
  <2>3. CASE /\ ~D!Held(saw[p]) /\ aside' = [aside EXCEPT ![p] = dumpLock] /\ dumpLock' = None
             /\ dpc' = [dpc EXCEPT ![p] = "back"]
    <3>1. DumpTypes' /\ DumpKept'
      BY <2>1, <2>3 DEF DumpTypes, D!TypeOK, DumpKept
    <3>2. Movers'
      BY <2>1, <2>3 DEF DumpTypes, D!TypeOK, Movers, D!Held
    <3>3. DumperLocks'
      BY <2>1, <2>3 DEF DumpTypes, D!TypeOK, DumperLocks
    <3>. QED
      BY <3>1, <3>2, <3>3
  <2>. QED
    BY <1>3, <2>2, <2>3 DEF D!Look
<1>4. ASSUME NEW p \in Dumper, D!PutBack(p) PROVE DumpInv'
  <2>1. /\ dpc[p] = "back" /\ saw[p] \in gone /\ dpc[saw[p]] = "done"
        /\ aside' = [aside EXCEPT ![p] = None] /\ dpc' = [dpc EXCEPT ![p] = "look"]
        /\ dumpLock' = (IF D!PutsBack(p) /\ dumpLock = None THEN aside[p] ELSE dumpLock)
        /\ ousted' = (IF D!PutsBack(p) /\ dumpLock # None THEN ousted \cup {aside[p]} ELSE ousted)
        /\ UNCHANGED <<saw, name, dumps, clock, gone, migrated>>
    BY <1>4 DEF D!PutBack, Movers
  <2>2. DumpTypes' /\ DumpKept'
    BY <2>1 DEF DumpTypes, D!TypeOK, DumpKept, D!PutsBack
  <2>3. Movers'
    BY <2>1 DEF DumpTypes, D!TypeOK, Movers, D!PutsBack
  <2>4. DumperLocks'
    <3>. SUFFICES ASSUME ousted' = {}, NEW r \in Dumper, dpc'[r] \in D!Working
                  PROVE  dumpLock' = r \/ \E q \in Dumper : aside'[q] = r /\ dpc'[q] = "back"
      BY DEF DumperLocks
    <3>1. /\ ousted = {} /\ ~(D!PutsBack(p) /\ dumpLock # None)
      BY <2>1
    <3>2. r # p /\ dpc[r] \in D!Working /\ r # saw[p]
      BY <2>1 DEF DumpTypes, D!TypeOK
    <3>3. CASE dumpLock = r
      BY <2>1, <3>3
    <3>4. CASE aside[p] = r
      BY <2>1, <3>1, <3>2, <3>4 DEF D!PutsBack
    <3>5. ASSUME NEW q \in Dumper, q # p, aside[q] = r, dpc[q] = "back"
          PROVE  aside'[q] = r /\ dpc'[q] = "back"
      BY <2>1, <3>5 DEF DumpTypes, D!TypeOK
    <3>. QED
      BY <3>1, <3>2, <3>3, <3>4, <3>5 DEF DumperLocks
  <2>. QED
    BY <2>2, <2>3, <2>4
<1>5. ASSUME NEW p \in Dumper, D!Clean(p) PROVE DumpInv'
  <2>1. /\ dpc[p] = "clean" /\ name' = [name EXCEPT ![p] = [at |-> clock, kind |-> KindOf[p]]]
        /\ dpc' = [dpc EXCEPT ![p] = "dump"]
        /\ UNCHANGED <<dumpLock, aside, saw, dumps, clock, gone, ousted, migrated>>
    BY <1>5 DEF D!Clean
  <2>2. DumpTypes'
    BY <2>1 DEF DumpTypes, D!TypeOK, D!Name
  <2>3. Movers' /\ DumperLocks' /\ DumpKept'
    BY <2>1 DEF DumpTypes, D!TypeOK, Movers, DumperLocks, DumpKept
  <2>. QED
    BY <2>2, <2>3
<1>6. ASSUME NEW p \in Dumper, D!Dump(p) PROVE DumpInv'
  <2>1. /\ dpc[p] = "dump" /\ dpc' = [dpc EXCEPT ![p] = "finish"]
        /\ UNCHANGED <<dumpLock, aside, saw, dumps, name, clock, gone, ousted, migrated>>
    BY <1>6 DEF D!Dump
  <2>2. DumpTypes' /\ DumpKept'
    BY <2>1 DEF DumpTypes, D!TypeOK, DumpKept
  <2>3. Movers' /\ DumperLocks'
    BY <2>1 DEF DumpTypes, D!TypeOK, Movers, DumperLocks
  <2>. QED
    BY <2>2, <2>3
<1>7. ASSUME NEW p \in Dumper, D!Finish(p) PROVE DumpInv'
  <2>. DEFINE new == [name |-> name[p], whole |-> partial[name[p]].by = p]
              with == {d \in dumps : d.name # name[p]} \cup {new}
  <2>1. /\ dpc[p] = "finish" /\ dpc' = [dpc EXCEPT ![p] = "unlock"]
        /\ UNCHANGED <<dumpLock, aside, saw, name, clock, gone, ousted>>
        /\ \/ UNCHANGED <<dumps, migrated>>
           \/ /\ dumps' = (IF D!Daily(p) THEN with \ D!Prunable(with) ELSE with)
              /\ migrated' = (IF KindOf[p] = "pre-migrate" THEN [migrated EXCEPT ![p] = name[p]] ELSE migrated)
    BY <1>7 DEF D!Finish
  <2>2. name[p] \in D!Name /\ name[p].kind = KindOf[p]
    BY <2>1 DEF DumpTypes
  <2>3. \A d \in with : d.name \in D!Name /\ d.whole \in BOOLEAN
    <3>1. new.name = name[p] /\ new.whole = (partial[name[p]].by = p)
      BY Zenon
    <3>2. new.name \in D!Name /\ new.whole \in BOOLEAN
      BY <2>2, <3>1, Zenon
    <3>3. \A d \in dumps : d.name \in D!Name /\ d.whole \in BOOLEAN
      BY DEF DumpTypes, D!TypeOK
    <3>. HIDE DEF new
    <3>. QED
      BY <3>2, <3>3, Zenon
  <2>4. \A d \in D!Prunable(with) : d.name.kind = "daily"
    BY DEF D!Prunable, D!Oldest
  <2>5. \A n : (\E d \in dumps : d.name = n) \/ n = name[p] => \E d \in with : d.name = n
    <3>1. new.name = name[p]
      BY Zenon
    <3>. HIDE DEF new
    <3>. QED
      BY <3>1
  <2>. HIDE DEF with
  <2>6. DumpTypes'
    BY <2>1, <2>2, <2>3 DEF DumpTypes, D!TypeOK
  <2>7. Movers' /\ DumperLocks'
    BY <2>1 DEF DumpTypes, D!TypeOK, Movers, DumperLocks
  <2>8. DumpKept'
    <3>. SUFFICES ASSUME NEW q \in Dumper, migrated'[q] # None
                  PROVE  migrated'[q].kind = "pre-migrate" /\ \E d \in dumps' : d.name = migrated'[q]
      BY DEF DumpKept
    <3>1. CASE UNCHANGED <<dumps, migrated>>
      BY <3>1 DEF DumpKept
    <3>2. CASE /\ dumps' = (IF D!Daily(p) THEN with \ D!Prunable(with) ELSE with)
               /\ migrated' = (IF KindOf[p] = "pre-migrate" THEN [migrated EXCEPT ![p] = name[p]] ELSE migrated)
      <4>1. /\ migrated'[q].kind = "pre-migrate"
            /\ (\E d \in dumps : d.name = migrated'[q]) \/ migrated'[q] = name[p]
        BY <2>2, <3>2 DEF DumpKept, DumpTypes
      <4>2. \E d \in with : d.name = migrated'[q]
        BY <2>5, <4>1
      <4>3. \A d \in with : d.name = migrated'[q] => d \in dumps'
        BY <2>4, <3>2, <4>1
      <4>. QED
        BY <4>1, <4>2, <4>3
    <3>. QED
      BY <2>1, <3>1, <3>2
  <2>. QED
    BY <2>6, <2>7, <2>8
<1>8. ASSUME NEW p \in Dumper, D!Unlock(p) PROVE DumpInv'
  <2>1. /\ dpc[p] = "unlock" /\ dpc' = [dpc EXCEPT ![p] = "done"]
        /\ dumpLock' = (IF dumpLock = p THEN None ELSE dumpLock)
        /\ UNCHANGED <<aside, saw, name, dumps, clock, gone, ousted, migrated>>
    BY <1>8 DEF D!Unlock, D!OwnLock
  <2>2. DumpTypes' /\ DumpKept'
    BY <2>1 DEF DumpTypes, D!TypeOK, DumpKept
  <2>3. Movers'
    BY <2>1 DEF DumpTypes, D!TypeOK, Movers
  <2>4. DumperLocks'
    BY <2>1 DEF DumpTypes, D!TypeOK, DumperLocks
  <2>. QED
    BY <2>2, <2>3, <2>4
<1>9. ASSUME NEW p \in Dumper, D!Kill(p) PROVE DumpInv'
  <2>1. /\ gone' = gone \cup {p} /\ dpc' = [dpc EXCEPT ![p] = "done"] /\ dpc[p] # "done"
        /\ ousted' = (IF aside[p] \notin {None, saw[p]} THEN ousted \cup {aside[p]} ELSE ousted)
        /\ UNCHANGED <<dumpLock, aside, saw, name, dumps, clock, migrated>>
    BY <1>9 DEF D!Kill
  <2>2. DumpTypes' /\ DumpKept'
    BY <2>1 DEF DumpTypes, D!TypeOK, DumpKept
  <2>3. Movers'
    BY <2>1 DEF DumpTypes, D!TypeOK, Movers
  <2>4. DumperLocks'
    <3>. SUFFICES ASSUME ousted' = {}, NEW r \in Dumper, dpc'[r] \in D!Working
                  PROVE  dumpLock' = r \/ \E q \in Dumper : aside'[q] = r /\ dpc'[q] = "back"
      BY DEF DumperLocks
    <3>1. ousted = {} /\ aside[p] \in {None, saw[p]} /\ r # p /\ dpc[r] \in D!Working
      BY <2>1 DEF DumpTypes, D!TypeOK
    <3>2. r \notin gone
      BY <3>1 DEF Movers
    <3>3. ~(aside[p] = r /\ dpc[p] = "back")
      BY <3>1, <3>2 DEF Movers
    <3>. QED
      BY <2>1, <3>1, <3>3 DEF DumperLocks, DumpTypes, D!TypeOK
  <2>. QED
    BY <2>2, <2>3, <2>4
<1>10. CASE D!Tick
  <2>1. /\ clock < MaxDays /\ clock' = clock + 1
        /\ UNCHANGED <<dumpLock, aside, saw, dpc, name, dumps, gone, ousted, migrated>>
    BY <1>10 DEF D!Tick
  <2>. QED
    BY <2>1 DEF DumpTypes, D!TypeOK, Movers, DumperLocks, DumpKept
<1>. HIDE DEF DumpInv, D!Working, D!Goto, D!files
<1>11. CASE D!Next
  BY <1>1, <1>2, <1>3, <1>4, <1>5, <1>6, <1>7, <1>8, <1>9, <1>10, <1>11 DEF D!Next
<1>. QED
  BY <1>0, <1>11

\* At most one dumps, as all who do have the one lock.
LEMMA DumpsOne == DumpInv => D!OneDumper
<1>. SUFFICES ASSUME DumpInv, ousted = {}, \A q \in Dumper : aside[q] \in {None, saw[q]},
                     NEW p \in Dumper, dpc[p] \in D!Working
              PROVE  dumpLock = p
  BY DEF D!OneDumper
<1>1. ASSUME NEW q \in Dumper, aside[q] = p, dpc[q] = "back" PROVE FALSE
  <2>1. p = saw[q] /\ saw[q] \in gone
    BY <1>1, DumpAssumption DEF DumpInv, Movers
  <2>. QED
    BY <2>1 DEF DumpInv, Movers, D!Working
<1>. QED
  BY <1>1 DEF DumpInv, DumperLocks

----------------------------------------------------------------------------
(* Snapshots                                                                 *)

Content == 0..MaxWrites \cup {None}
Rest == S!Part \ {"project"}

Snap == [part : [S!Part -> Content], full : BOOLEAN, manifest : BOOLEAN]
Restoring == [pc : {"no", "lock", "archive", "purge", "import", "back", "away", "copy", "verify"},
              from : Nat, old : Content, todo : SUBSET Rest]

SnapTypes ==
  /\ S!TypeOK /\ own \in [S!Part -> Content] /\ writes \in 0..MaxWrites
  /\ snaps \in Seq(Snap) /\ freeze \in [on : BOOLEAN, todo : SUBSET Rest] /\ rs \in Restoring
  /\ working \in BOOLEAN /\ overlap \in BOOLEAN

\* A freeze under way fills the newest directory, which is full when nothing is left to copy;
\* a directory with a manifest is full, and a restore is from one.
ManifestLast ==
  /\ freeze.on => /\ Len(snaps) > 0 /\ ~snaps[Len(snaps)].manifest
                  /\ freeze.todo = {} => snaps[Len(snaps)].full
  /\ \A i \in 1..Len(snaps) : snaps[i].manifest => snaps[i].full
  /\ rs.pc # "no" => rs.from \in 1..Len(snaps) /\ snaps[rs.from].manifest

\* What the worker last wrote to a part is in an archive, where that wrote anything.
Archived(p) == own[p] \in {None} \cup archives[p]

\* While no worker started under it, a restore works alone, and each part is archived before it
\* is taken away and is the snapshot's once it is put back.
StepsKeep ==
  ~overlap /\ rs.pc # "no" =>
    /\ ~working
    /\ rs.pc \in {"purge", "import", "back", "away", "copy", "verify"} => Archived("project")
    /\ rs.pc = "away" => \A p \in Rest \ rs.todo : Archived(p)
    /\ rs.pc \in {"copy", "verify"} => \A p \in Rest : Archived(p)
    /\ rs.pc \in {"away", "copy", "verify"} => cur["project"] = snaps[rs.from].part["project"]
    /\ rs.pc = "copy" => \A p \in Rest \ rs.todo : cur[p] = snaps[rs.from].part[p]
    /\ rs.pc = "verify" => \A p \in Rest : cur[p] = snaps[rs.from].part[p]

SnapInv == SnapTypes /\ ManifestLast /\ StepsKeep /\ S!NothingLost

LEMMA LatestListed == SnapTypes /\ S!Listed # {} => S!Latest \in 1..Len(snaps) /\ snaps[S!Latest].manifest
<1>. SUFFICES ASSUME SnapTypes, S!Listed # {} PROVE S!Latest \in S!Listed
  BY DEF S!Listed
<1>1. Len(snaps) \in Nat /\ S!Listed \in SUBSET (1..Len(snaps))
  BY DEF SnapTypes, S!Listed
<1>2. S!Listed \in SUBSET Nat /\ \A j \in S!Listed : j <= Len(snaps)
  BY <1>1
<1>3. \E i \in S!Listed : \A j \in S!Listed : i >= j
  BY <1>1, <1>2, GreatestNatural
<1>4. \E i \in S!Listed : \A j \in S!Listed : j <= i
  BY <1>2, <1>3
<1>. QED
  BY <1>4 DEF S!Latest

LEMMA SnapInit == S!Init => SnapInv
<1>. SUFFICES ASSUME S!Init PROVE SnapInv
  OBVIOUS
<1>. USE NamesAssumption, ProjectAssumption DEF S!Init, S!NoRestore, S!NoFreeze
<1>1. SnapTypes
  <2>1. cur \in [S!Part -> Content]
    BY DEF Content
  <2>2. rs \in Restoring /\ freeze \in [on : BOOLEAN, todo : SUBSET Rest]
    BY DEF Restoring, Content
  <2>3. archives \in [S!Part -> SUBSET (0..MaxWrites)]
    OBVIOUS
  <2>4. snaps \in Seq(Snap)
    OBVIOUS
  <2>5. S!TypeOK
    BY <2>1, <2>2, <2>3 DEF S!TypeOK, Content, Restoring
  <2>6. own \in [S!Part -> Content] /\ writes \in 0..MaxWrites
    BY <2>1
  <2>7. working \in BOOLEAN /\ overlap \in BOOLEAN
    OBVIOUS
  <2>. QED
    BY <2>2, <2>4, <2>5, <2>6, <2>7 DEF SnapTypes
<1>2. ManifestLast /\ StepsKeep /\ S!NothingLost
  BY DEF ManifestLast, StepsKeep, S!NothingLost
<1>. QED
  BY <1>1, <1>2 DEF SnapInv

\* While a restore's place and the project's parts are as they were, what it keeps is kept.
LEMMA SnapFrame ==
  ASSUME SnapTypes, StepsKeep, ManifestLast, S!NothingLost,
         UNCHANGED <<cur, own, archives>>, rs' \in {rs, S!NoRestore},
         ~overlap' => ~overlap, ~overlap' /\ rs'.pc # "no" => ~working',
         rs.pc # "no" => snaps'[rs.from] = snaps[rs.from]
  PROVE  StepsKeep' /\ S!NothingLost'
<1>1. CASE rs' = S!NoRestore
  BY <1>1 DEF StepsKeep, S!NothingLost, S!NoRestore
<1>2. CASE rs' = rs
  BY <1>2 DEF StepsKeep, S!NothingLost, Archived
<1>. QED
  BY <1>1, <1>2

\* A snapshot's record, changed where a freeze changes it.
LEMMA SnapRow ==
  ASSUME NEW s \in Seq(Snap), NEW i \in 1..Len(s), NEW r \in Snap
  PROVE  [s EXCEPT ![i] = r] \in Seq(Snap) /\ Len([s EXCEPT ![i] = r]) = Len(s)
OBVIOUS

LEMMA SnapPart ==
  ASSUME NEW s \in Seq(Snap), NEW i \in 1..Len(s), NEW p \in S!Part, NEW c \in Content
  PROVE  /\ [s EXCEPT ![i].part[p] = c] \in Seq(Snap) /\ Len([s EXCEPT ![i].part[p] = c]) = Len(s)
         /\ [s EXCEPT ![i].part[p] = c][i].manifest = s[i].manifest
<1>1. s[i] \in Snap
  OBVIOUS
<1>2. [s[i].part EXCEPT ![p] = c] \in [S!Part -> Content]
  BY <1>1 DEF Snap
<1>3. [s[i] EXCEPT !.part[p] = c] \in Snap /\ [s[i] EXCEPT !.part[p] = c].manifest = s[i].manifest
  BY <1>1, <1>2 DEF Snap
<1>. QED
  BY <1>3, SnapRow

LEMMA SnapFull ==
  ASSUME NEW s \in Seq(Snap), NEW i \in 1..Len(s), NEW b \in BOOLEAN
  PROVE  /\ [s EXCEPT ![i].full = b] \in Seq(Snap) /\ Len([s EXCEPT ![i].full = b]) = Len(s)
         /\ [s EXCEPT ![i].full = b][i].manifest = s[i].manifest /\ [s EXCEPT ![i].full = b][i].full = b
<1>1. s[i] \in Snap
  OBVIOUS
<1>2. /\ [s[i] EXCEPT !.full = b] \in Snap /\ [s[i] EXCEPT !.full = b].manifest = s[i].manifest
      /\ [s[i] EXCEPT !.full = b].full = b
  BY <1>1 DEF Snap
<1>. QED
  BY <1>2, SnapRow

LEMMA SnapManifest ==
  ASSUME NEW s \in Seq(Snap), NEW i \in 1..Len(s)
  PROVE  /\ [s EXCEPT ![i].manifest = TRUE] \in Seq(Snap) /\ Len([s EXCEPT ![i].manifest = TRUE]) = Len(s)
         /\ [s EXCEPT ![i].manifest = TRUE][i].full = s[i].full
<1>1. s[i] \in Snap
  OBVIOUS
<1>2. [s[i] EXCEPT !.manifest = TRUE] \in Snap /\ [s[i] EXCEPT !.manifest = TRUE].full = s[i].full
  BY <1>1 DEF Snap
<1>. QED
  BY <1>2, SnapRow

LEMMA SnapNext == SnapInv /\ [S!Next]_snapshotsVars => SnapInv'
<1>. SUFFICES ASSUME SnapInv, [S!Next]_snapshotsVars PROVE SnapInv'
  OBVIOUS
<1>. USE NamesAssumption, ProjectAssumption DEF SnapInv, S!state, S!freezing, S!restoring
<1>0. CASE UNCHANGED snapshotsVars
  BY <1>0 DEF snapshotsVars, SnapTypes, S!TypeOK, ManifestLast, StepsKeep, Archived, S!NothingLost
<1>1. /\ "project" \in S!Part /\ S!Part = Rest \cup {"project"} /\ "project" \notin Rest /\ "flags" \in Rest
      /\ Rest \subseteq S!Part
  BY DEF S!Part, Rest
<1>2. /\ cur \in [S!Part -> Content] /\ own \in [S!Part -> Content] /\ S!NoRestore \in Restoring
      /\ archives \in [S!Part -> SUBSET (0..MaxWrites)] /\ Len(snaps) \in Nat /\ rs \in Restoring
      /\ S!NoFreeze \in [on : BOOLEAN, todo : SUBSET Rest] /\ S!NoRestore.pc = "no" /\ S!NoFreeze.on = FALSE
  BY DEF SnapTypes, S!TypeOK, Content, Restoring, S!NoRestore, S!NoFreeze
<1>3. rs.pc # "no" => rs.from \in 1..Len(snaps) /\ snaps[rs.from] \in Snap
  BY DEF SnapTypes, ManifestLast
<1>4. CASE S!StartWorker \/ S!StopWorker
  <2>1. /\ UNCHANGED <<cur, own, writes, snaps, freeze, archives, rs>>
        /\ working' \in BOOLEAN /\ slock' \in {"free", "worker"} /\ overlap' \in BOOLEAN
        /\ ~overlap' => ~overlap
        /\ ~overlap' /\ rs.pc # "no" => ~working'
    BY <1>4 DEF S!StartWorker, S!StopWorker, SnapTypes, S!TypeOK, StepsKeep
  <2>2. SnapTypes' /\ ManifestLast'
    BY <2>1 DEF SnapTypes, S!TypeOK, ManifestLast
  <2>3. StepsKeep' /\ S!NothingLost'
    BY <2>1, SnapFrame
  <2>. QED
    BY <2>2, <2>3
<1>5. ASSUME NEW p \in S!Part, S!Work(p) PROVE SnapInv'
  <2>1. /\ working /\ writes' = writes + 1 /\ writes < MaxWrites
        /\ cur' = [cur EXCEPT ![p] = writes + 1] /\ own' = [own EXCEPT ![p] = writes + 1]
        /\ UNCHANGED <<working, slock, snaps, freeze, overlap, archives, rs>>
    BY <1>5 DEF S!Work
  <2>2. writes + 1 \in Content /\ writes + 1 \in 0..MaxWrites
    BY <2>1 DEF SnapTypes, Content
  <2>3. cur' \in [S!Part -> Content] /\ own' \in [S!Part -> Content]
    <3>. HIDE DEF Content
    <3>. QED
      BY <1>2, <2>1, <2>2
  <2>4. SnapTypes' /\ ManifestLast'
    BY <2>1, <2>2, <2>3 DEF SnapTypes, S!TypeOK, ManifestLast, Content
  <2>5. StepsKeep'
    BY <2>1 DEF StepsKeep
  <2>6. S!NothingLost'
    BY <1>2, <2>1 DEF S!NothingLost
  <2>. QED
    BY <2>4, <2>5, <2>6
<1>6. ASSUME NEW force \in BOOLEAN, S!Freeze(force) PROVE SnapInv'
  <2>. DEFINE new == [part |-> [p \in S!Part |-> IF p = "project" THEN cur[p] ELSE None],
                      full |-> FALSE, manifest |-> FALSE]
  <2>1. /\ snaps' = Append(snaps, new) /\ freeze' = [on |-> TRUE, todo |-> Rest]
        /\ UNCHANGED <<cur, own, writes, working, slock, overlap, archives, rs>>
    BY <1>6 DEF S!Freeze, Rest
  <2>2. new \in Snap /\ ~new.manifest
    BY <1>2 DEF Snap, Content
  <2>. HIDE DEF new
  <2>3. /\ snaps' \in Seq(Snap) /\ Len(snaps') = Len(snaps) + 1 /\ snaps'[Len(snaps) + 1] = new
        /\ \A i \in 1..Len(snaps) : snaps'[i] = snaps[i]
    BY <2>1, <2>2 DEF SnapTypes
  <2>4. freeze' \in [on : BOOLEAN, todo : SUBSET Rest] /\ freeze'.todo = Rest
    BY <2>1
  <2>5. SnapTypes'
    BY <2>1, <2>3, <2>4 DEF SnapTypes, S!TypeOK
  <2>6. ManifestLast'
    <3>1. \A i \in 1..Len(snaps') : i \in 1..Len(snaps) \/ i = Len(snaps) + 1
      BY <1>2, <2>3
    <3>. QED
      BY <1>1, <1>2, <2>1, <2>2, <2>3, <2>4, <3>1 DEF ManifestLast
  <2>7. StepsKeep' /\ S!NothingLost'
    BY <1>3, <2>1, <2>3, SnapFrame DEF StepsKeep
  <2>. QED
    BY <2>5, <2>6, <2>7
<1>7. ASSUME NEW p \in S!Part, S!Copy(p) PROVE SnapInv'
  <2>. DEFINE n == Len(snaps)
              b == freeze.todo = {p}
              s1 == [snaps EXCEPT ![n].part[p] = cur[p]]
  <2>1. /\ freeze.on /\ p \in freeze.todo /\ snaps' = [s1 EXCEPT ![n].full = b]
        /\ freeze' = [freeze EXCEPT !.todo = @ \ {p}]
        /\ UNCHANGED <<cur, own, writes, working, slock, overlap, archives, rs>>
    BY <1>7 DEF S!Copy
  <2>2. n \in Nat /\ n \in 1..Len(snaps) /\ cur[p] \in Content /\ b \in BOOLEAN
    BY <1>2, <2>1 DEF ManifestLast
  <2>. HIDE DEF b
  <2>3. s1 \in Seq(Snap) /\ Len(s1) = n /\ s1[n].manifest = snaps[n].manifest
    <3>1. snaps \in Seq(Snap)
      BY DEF SnapTypes
    <3>. QED
      BY <2>2, <3>1, SnapPart
  <2>4. \A i \in 1..n : i # n => s1[i] = snaps[i]
    BY <2>2 DEF SnapTypes
  <2>. HIDE DEF s1
  <2>5. snaps' \in Seq(Snap) /\ Len(snaps') = n /\ snaps'[n].manifest = s1[n].manifest /\ snaps'[n].full = b
    BY <2>1, <2>2, <2>3, SnapFull
  <2>6. \A i \in 1..n : i # n => snaps'[i] = snaps[i]
    BY <2>1, <2>2, <2>3, <2>4
  <2>7. freeze' \in [on : BOOLEAN, todo : SUBSET Rest] /\ freeze'.todo = freeze.todo \ {p} /\ freeze'.on = freeze.on
    BY <2>1 DEF SnapTypes
  <2>8. SnapTypes'
    BY <2>1, <2>5, <2>7 DEF SnapTypes, S!TypeOK
  <2>9. ~snaps[n].manifest
    BY <2>1 DEF ManifestLast
  <2>10. ManifestLast'
    <3>1. freeze'.todo = {} => b
      BY <2>1, <2>7 DEF b
    <3>. QED
      BY <2>1, <2>2, <2>3, <2>5, <2>6, <2>7, <2>9, <3>1 DEF ManifestLast
  <2>11. rs.pc # "no" => snaps'[rs.from] = snaps[rs.from]
    BY <2>6, <2>9 DEF ManifestLast
  <2>12. StepsKeep' /\ S!NothingLost'
    BY <2>1, <2>11, SnapFrame DEF StepsKeep
  <2>. QED
    BY <2>8, <2>10, <2>12
<1>8. CASE S!WriteManifest
  <2>. DEFINE n == Len(snaps)
  <2>1. /\ freeze.on /\ freeze.todo = {} /\ ~snaps[n].manifest /\ snaps' = [snaps EXCEPT ![n].manifest = TRUE]
        /\ freeze' = S!NoFreeze /\ UNCHANGED <<cur, own, writes, working, slock, overlap, archives, rs>>
    BY <1>8 DEF S!WriteManifest, S!Captured
  <2>2. n \in Nat /\ n \in 1..Len(snaps) /\ "project" \in S!Part /\ cur["project"] \in Content /\ snaps[n].full
    BY <1>1, <1>2, <2>1 DEF ManifestLast
  <2>3. snaps' \in Seq(Snap) /\ Len(snaps') = n /\ snaps'[n].full = snaps[n].full
    BY <2>1, <2>2, SnapManifest DEF SnapTypes
  <2>4. \A i \in 1..n : i # n => snaps'[i] = snaps[i]
    BY <2>1, <2>2 DEF SnapTypes
  <2>5. SnapTypes'
    BY <1>2, <2>1, <2>3 DEF SnapTypes, S!TypeOK
  <2>6. rs.pc # "no" => snaps'[rs.from] = snaps[rs.from] /\ rs.from # n
    BY <2>1, <2>4 DEF ManifestLast
  <2>7. ManifestLast'
    BY <1>2, <2>1, <2>2, <2>3, <2>4, <2>6 DEF ManifestLast
  <2>8. StepsKeep' /\ S!NothingLost'
    BY <2>1, <2>6, SnapFrame DEF StepsKeep
  <2>. QED
    BY <2>5, <2>7, <2>8
<1>9. CASE S!FreezeDies
  <2>1. freeze' = S!NoFreeze /\ UNCHANGED <<cur, own, writes, working, slock, overlap, snaps, archives, rs>>
    BY <1>9 DEF S!FreezeDies
  <2>2. SnapTypes' /\ ManifestLast'
    BY <1>2, <2>1 DEF SnapTypes, S!TypeOK, ManifestLast
  <2>3. StepsKeep' /\ S!NothingLost'
    BY <2>1, SnapFrame DEF StepsKeep
  <2>. QED
    BY <2>2, <2>3
<1>10. CASE S!Restore
  <2>1. /\ ~working /\ S!Listed # {} /\ rs' = [S!NoRestore EXCEPT !.pc = "lock", !.from = S!Latest]
        /\ UNCHANGED <<cur, own, writes, working, slock, snaps, freeze, overlap, archives>>
    BY <1>10 DEF S!Restore
  <2>2. S!Latest \in 1..Len(snaps) /\ snaps[S!Latest].manifest
    BY <2>1, LatestListed
  <2>3. rs' \in Restoring /\ rs'.pc = "lock" /\ rs'.from = S!Latest
    <3>1. rs' = [pc |-> "lock", from |-> S!Latest, old |-> None, todo |-> {}]
      BY <2>1 DEF S!NoRestore
    <3>2. S!Latest \in Nat /\ None \in Content /\ {} \in SUBSET Rest
      BY <1>2, <2>2 DEF Content
    <3>. QED
      BY <3>1, <3>2 DEF Restoring
  <2>4. SnapTypes'
    BY <2>1, <2>3 DEF SnapTypes, S!TypeOK
  <2>5. ManifestLast'
    BY <2>1, <2>2, <2>3 DEF ManifestLast
  <2>6. StepsKeep' /\ S!NothingLost'
    BY <2>1, <2>3 DEF StepsKeep, S!NothingLost
  <2>. QED
    BY <2>4, <2>5, <2>6
<1>11. CASE S!TakeLock
  <2>1. /\ rs.pc = "lock" /\ UNCHANGED <<cur, own, writes, working, snaps, freeze, overlap, archives>>
        /\ slock' \in {slock, "restore"} /\ (rs' = S!NoRestore \/ rs' = [rs EXCEPT !.pc = "archive"])
    BY <1>11 DEF S!TakeLock
  <2>2. /\ rs' \in Restoring /\ rs'.pc \in {"no", "archive"} /\ (rs'.pc # "no" => rs'.from = rs.from)
    BY <1>2, <2>1 DEF Restoring
  <2>3. SnapTypes' /\ ManifestLast'
    BY <2>1, <2>2 DEF SnapTypes, S!TypeOK, ManifestLast
  <2>4. StepsKeep' /\ S!NothingLost'
    BY <2>1, <2>2 DEF StepsKeep, S!NothingLost
  <2>. QED
    BY <2>3, <2>4
\* What is archived of a part, and that nothing leaves an archive.
<1>12. \A p \in S!Part :
         /\ S!Kept(p) \in [S!Part -> SUBSET (0..MaxWrites)]
         /\ \A q \in S!Part : archives[q] \subseteq S!Kept(p)[q]
         /\ own[p] \in {cur[p], None} \cup archives[p] => own[p] \in {None} \cup S!Kept(p)[p]
  BY <1>2 DEF S!Kept, Content
<1>13. CASE S!Archive
  <2>1. /\ rs.pc = "archive" /\ archives' = S!Kept("project")
        /\ rs' = [rs EXCEPT !.pc = IF cur["project"] = None THEN "import" ELSE "purge", !.old = cur["project"]]
        /\ UNCHANGED <<cur, own, writes, working, slock, snaps, freeze, overlap>>
    BY <1>13 DEF S!Archive
  <2>2. rs' \in Restoring /\ rs'.pc \in {"import", "purge"} /\ rs'.from = rs.from
    BY <1>1, <1>2, <2>1 DEF Restoring
  <2>3. SnapTypes' /\ ManifestLast'
    BY <1>1, <1>12, <2>1, <2>2 DEF SnapTypes, S!TypeOK, ManifestLast
  <2>4. S!NothingLost' /\ (~overlap => own["project"] \in {None} \cup archives'["project"])
    BY <1>1, <1>12, <2>1 DEF S!NothingLost
  <2>5. StepsKeep'
    BY <2>1, <2>2, <2>4 DEF StepsKeep, Archived
  <2>. QED
    BY <2>3, <2>4, <2>5
<1>14. CASE S!Purge
  <2>1. /\ rs.pc = "purge" /\ cur' = [cur EXCEPT !["project"] = None] /\ rs' = [rs EXCEPT !.pc = "import"]
        /\ UNCHANGED <<own, writes, working, slock, snaps, freeze, overlap, archives>>
    BY <1>14 DEF S!Purge
  <2>2. rs' \in Restoring /\ rs'.pc = "import" /\ rs'.from = rs.from
    BY <1>2, <2>1 DEF Restoring
  <2>3. cur' \in [S!Part -> Content] /\ \A q \in S!Part \ {"project"} : cur'[q] = cur[q]
    BY <1>1, <1>2, <2>1 DEF Content
  <2>4. SnapTypes' /\ ManifestLast'
    BY <2>1, <2>2, <2>3 DEF SnapTypes, S!TypeOK, ManifestLast, Content
  <2>5. StepsKeep'
    BY <2>1, <2>2 DEF StepsKeep, Archived
  <2>6. S!NothingLost'
    BY <2>1, <2>3 DEF StepsKeep, Archived, S!NothingLost
  <2>. QED
    BY <2>4, <2>5, <2>6
<1>15. CASE S!Import
  <2>1. /\ rs.pc = "import" /\ UNCHANGED <<own, writes, working, snaps, freeze, overlap, archives>>
    BY <1>15 DEF S!Import
  <2>2. CASE /\ cur' = [cur EXCEPT !["project"] = snaps[rs.from].part["project"]]
             /\ rs' = [rs EXCEPT !.pc = "away", !.todo = Rest] /\ slock' = "free"
    <3>1. rs' \in Restoring /\ rs'.pc = "away" /\ rs'.from = rs.from /\ rs'.todo = Rest
      BY <1>2, <2>2 DEF Restoring
    <3>2. snaps[rs.from].part["project"] \in Content
      BY <1>1, <1>3, <2>1 DEF Snap
    <3>3. /\ cur' \in [S!Part -> Content] /\ \A q \in S!Part \ {"project"} : cur'[q] = cur[q]
          /\ cur'["project"] = snaps[rs.from].part["project"]
      BY <1>1, <1>2, <2>2, <3>2
    <3>4. SnapTypes' /\ ManifestLast'
      BY <2>1, <2>2, <3>1, <3>3 DEF SnapTypes, S!TypeOK, ManifestLast, Content
    <3>5. StepsKeep'
      BY <2>1, <3>1, <3>3 DEF StepsKeep, Archived
    <3>6. S!NothingLost'
      BY <2>1, <3>3 DEF StepsKeep, Archived, S!NothingLost
    <3>. QED
      BY <3>4, <3>5, <3>6
  <2>3. CASE rs' = [rs EXCEPT !.pc = "back"] /\ UNCHANGED <<cur, slock>>
    <3>1. rs' \in Restoring /\ rs'.pc = "back" /\ rs'.from = rs.from
      BY <1>2, <2>3 DEF Restoring
    <3>2. SnapTypes' /\ ManifestLast'
      BY <2>1, <2>3, <3>1 DEF SnapTypes, S!TypeOK, ManifestLast
    <3>3. StepsKeep' /\ S!NothingLost'
      BY <2>1, <2>3, <3>1 DEF StepsKeep, Archived, S!NothingLost
    <3>. QED
      BY <3>2, <3>3
  <2>4. CASE rs' = S!NoRestore /\ slock' = "free" /\ UNCHANGED cur
    <3>1. SnapTypes' /\ ManifestLast'
      BY <1>2, <2>1, <2>4 DEF SnapTypes, S!TypeOK, ManifestLast
    <3>2. StepsKeep' /\ S!NothingLost'
      BY <1>2, <2>1, <2>4 DEF StepsKeep, S!NothingLost
    <3>. QED
      BY <3>1, <3>2
  <2>. QED
    BY <1>15, <2>2, <2>3, <2>4 DEF S!Import, Rest
<1>16. CASE S!PutBack
  <2>1. /\ rs.pc = "back" /\ rs' = S!NoRestore /\ slock' = "free"
        /\ cur' = [cur EXCEPT !["project"] = rs.old] \/ cur' = cur
        /\ UNCHANGED <<own, writes, working, snaps, freeze, overlap, archives>>
    BY <1>16 DEF S!PutBack
  <2>2. rs.old \in Content
    BY <1>2 DEF Restoring
  <2>3. cur' \in [S!Part -> Content] /\ \A q \in S!Part \ {"project"} : cur'[q] = cur[q]
    BY <1>1, <1>2, <2>1, <2>2
  <2>4. SnapTypes' /\ ManifestLast'
    BY <1>2, <2>1, <2>3 DEF SnapTypes, S!TypeOK, ManifestLast, Content
  <2>5. StepsKeep'
    BY <1>2, <2>1 DEF StepsKeep
  <2>6. S!NothingLost'
    BY <2>1, <2>3 DEF StepsKeep, Archived, S!NothingLost
  <2>. QED
    BY <2>4, <2>5, <2>6
<1>17. ASSUME NEW p \in S!Part, S!MoveAway(p) PROVE SnapInv'
  <2>1. /\ rs.pc = "away" /\ p \in rs.todo /\ archives' = S!Kept(p)
        /\ cur' = (IF p = "flags" THEN cur ELSE [cur EXCEPT ![p] = None])
        /\ rs' = (IF rs.todo = {p} THEN [rs EXCEPT !.pc = "copy", !.todo = Rest]
                  ELSE [rs EXCEPT !.todo = @ \ {p}])
        /\ UNCHANGED <<own, writes, working, slock, snaps, freeze, overlap>>
    BY <1>17 DEF S!MoveAway, Rest
  <2>2. p \in Rest /\ rs.todo \subseteq Rest
    BY <1>2, <2>1 DEF Restoring
  <2>3. /\ rs' \in Restoring /\ rs'.from = rs.from
        /\ \/ rs.todo = {p} /\ rs'.pc = "copy" /\ rs'.todo = Rest
           \/ rs'.pc = "away" /\ rs'.todo = rs.todo \ {p}
    BY <1>2, <2>1, <2>2 DEF Restoring
  <2>4. cur' \in [S!Part -> Content] /\ \A q \in S!Part \ {p} : cur'[q] = cur[q]
    BY <1>2, <2>1 DEF Content
  <2>5. SnapTypes' /\ ManifestLast'
    BY <1>12, <2>1, <2>3, <2>4 DEF SnapTypes, S!TypeOK, ManifestLast, Content
  <2>6. ~overlap => own[p] \in {None} \cup archives'[p]
    BY <1>12, <2>1 DEF S!NothingLost
  <2>7. \A q \in S!Part : archives[q] \subseteq archives'[q]
    BY <1>12, <2>1
  <2>8. S!NothingLost'
    BY <2>1, <2>4, <2>6, <2>7 DEF S!NothingLost
  <2>9. StepsKeep'
    <3>. SUFFICES ASSUME ~overlap PROVE StepsKeep'
      BY <2>1 DEF StepsKeep
    <3>1. ~working /\ Archived("project")' /\ cur'["project"] = snaps'[rs'.from].part["project"]
      BY <1>1, <2>1, <2>2, <2>3, <2>4, <2>7 DEF StepsKeep, Archived
    <3>2. \A q \in Rest : q \notin rs.todo \/ q = p => Archived(q)'
      BY <1>1, <2>1, <2>6, <2>7 DEF StepsKeep, Archived
    <3>. QED
      BY <2>1, <2>2, <2>3, <3>1, <3>2 DEF StepsKeep
  <2>. QED
    BY <2>5, <2>8, <2>9
<1>18. ASSUME NEW p \in S!Part, S!CopyBack(p) PROVE SnapInv'
  <2>1. /\ rs.pc = "copy" /\ p \in rs.todo /\ cur' = [cur EXCEPT ![p] = snaps[rs.from].part[p]]
        /\ rs' = (IF rs.todo = {p} THEN [rs EXCEPT !.pc = "verify", !.todo = {}]
                  ELSE [rs EXCEPT !.todo = @ \ {p}])
        /\ UNCHANGED <<own, writes, working, slock, snaps, freeze, overlap, archives>>
    BY <1>18 DEF S!CopyBack
  <2>2. p \in Rest /\ rs.todo \subseteq Rest
    BY <1>2, <2>1 DEF Restoring
  <2>3. /\ rs' \in Restoring /\ rs'.from = rs.from
        /\ \/ rs.todo = {p} /\ rs'.pc = "verify"
           \/ rs'.pc = "copy" /\ rs'.todo = rs.todo \ {p}
    BY <1>2, <2>1, <2>2 DEF Restoring
  <2>4. snaps[rs.from].part[p] \in Content
    BY <1>3, <2>1 DEF Snap
  <2>5. /\ cur' \in [S!Part -> Content] /\ \A q \in S!Part \ {p} : cur'[q] = cur[q]
        /\ cur'[p] = snaps[rs.from].part[p]
    BY <1>2, <2>1, <2>4
  <2>6. SnapTypes' /\ ManifestLast'
    BY <2>1, <2>3, <2>5 DEF SnapTypes, S!TypeOK, ManifestLast, Content
  <2>7. S!NothingLost'
    BY <2>1, <2>2, <2>5 DEF StepsKeep, Archived, S!NothingLost
  <2>8. StepsKeep'
    <3>. SUFFICES ASSUME ~overlap PROVE StepsKeep'
      BY <2>1 DEF StepsKeep
    <3>1. /\ ~working /\ Archived("project")' /\ cur'["project"] = snaps'[rs'.from].part["project"]
          /\ \A q \in Rest : Archived(q)'
      BY <1>1, <2>1, <2>2, <2>3, <2>5 DEF StepsKeep, Archived
    <3>2. \A q \in Rest : q \notin rs.todo \/ q = p => cur'[q] = snaps'[rs'.from].part[q]
      BY <1>1, <2>1, <2>3, <2>5 DEF StepsKeep
    <3>. QED
      BY <2>1, <2>2, <2>3, <3>1, <3>2 DEF StepsKeep
  <2>. QED
    BY <2>6, <2>7, <2>8
<1>19. CASE S!Verify \/ S!RestoreDies
  <2>1. /\ rs' = S!NoRestore /\ slock' \in {slock, "free"}
        /\ UNCHANGED <<cur, own, writes, working, snaps, freeze, overlap, archives>>
    BY <1>19 DEF S!Verify, S!RestoreDies
  <2>2. SnapTypes' /\ ManifestLast'
    BY <1>2, <2>1 DEF SnapTypes, S!TypeOK, ManifestLast
  <2>3. StepsKeep' /\ S!NothingLost'
    BY <1>2, <2>1 DEF StepsKeep, S!NothingLost
  <2>. QED
    BY <2>2, <2>3
<1>. HIDE DEF SnapInv, S!state, S!freezing, S!restoring
<1>20. CASE S!Next
  BY <1>4, <1>5, <1>6, <1>7, <1>8, <1>9, <1>10, <1>11, <1>13, <1>14, <1>15, <1>16, <1>17, <1>18, <1>19, <1>20
     DEF S!Next
<1>. QED
  BY <1>0, <1>20

\* A restore that says so put back what the snapshot holds.
LEMMA SnapWhole ==
  ASSUME SnapInv, [S!Next]_snapshotsVars, said' = "restored", said # "restored", ~overlap
  PROVE  \E i \in 1..Len(snaps) : snaps[i].full /\ cur = snaps[i].part
<1>1. rs.pc = "verify"
  BY DEF snapshotsVars, S!Next, S!StartWorker, S!StopWorker, S!Work, S!Copy, S!MoveAway, S!CopyBack, S!Freeze,
         S!WriteManifest, S!FreezeDies, S!Restore, S!TakeLock, S!Archive, S!Purge, S!Import, S!PutBack, S!Verify,
         S!RestoreDies, S!restoring
<1>2. rs.from \in 1..Len(snaps) /\ snaps[rs.from].manifest /\ snaps[rs.from].full /\ snaps[rs.from] \in Snap
  BY <1>1 DEF SnapInv, SnapTypes, ManifestLast
<1>3. \A p \in S!Part : cur[p] = snaps[rs.from].part[p]
  BY <1>1 DEF SnapInv, StepsKeep, S!Part, Rest
<1>4. cur \in [S!Part -> Content] /\ snaps[rs.from].part \in [S!Part -> Content]
  BY <1>2 DEF SnapInv, SnapTypes, S!TypeOK, Content, Snap
<1>. QED
  BY <1>2, <1>3, <1>4

\* backups.ts, restore.ts: among any processes, killed wherever they are, one dumps at a time
\* unless a lock was moved by mistake, a migration's dump stays, and what a restore replaces is
\* there or in an archive.
THEOREM CopiesAreKept == Spec => []CopiesKept
<1>1. Init => DumpInv /\ SnapInv
  BY DumpInit, SnapInit DEF Init
<1>2. DumpInv /\ SnapInv /\ [Next]_vars => (DumpInv /\ SnapInv)'
  <2>1. [Next]_vars => [D!Next]_dumpsVars /\ [S!Next]_snapshotsVars
    BY DEF Next, vars
  <2>. QED
    BY <2>1, DumpNext, SnapNext
<1>3. DumpInv /\ SnapInv => CopiesKept
  BY DumpsOne DEF DumpInv, DumpTypes, DumpKept, SnapInv, SnapTypes, CopiesKept, D!MigrationsBackedUp
<1>. QED
  BY <1>1, <1>2, <1>3, PTL DEF Spec

----------------------------------------------------------------------------
(* Moving off beads                                                          *)

Manifests == [id : M!Ids, files : [M!Files -> {"beads", "engine"}], through : 0..MaxWork \cup {None}]

MoveTypes ==
  /\ M!TypeOK /\ runs \in 0..MaxRuns /\ (pc # "idle" => runs > 0) /\ late \in BOOLEAN
  /\ manifest \in Manifests \cup {None} /\ mine \in Manifests \cup {None}

\* A repository without a manifest is on beads; what the database holds and the config names is
\* the manifest's; a command under way holds the manifest that is there.
OneManifest ==
  /\ manifest = None => /\ config = None /\ DOMAIN project = {} /\ pc \in {"idle", "save"}
                        /\ \A f \in RepoFile : file[f] = "beads"
  /\ manifest # None => /\ DOMAIN project \subseteq {manifest.id} /\ config \in {None, manifest.id}
                        /\ manifest.files = [f \in M!Files |-> "beads"]
  /\ pc # "idle" => mine = manifest

\* The config names the project only after the import was recorded, so it was recorded before
\* any work.
RecordedFirst ==
  manifest # None =>
    /\ manifest.through \in {None, 0}
    /\ manifest.through = None => config = None /\ \A i \in DOMAIN project : project[i] = 0

UndoOrder ==
  /\ pc \in {"record", "purge"} => mine.id \in DOMAIN project
  /\ pc = "save" => DOMAIN project = {} /\ config = None /\ (manifest # None => manifest.through = None)
  /\ pc = "import" => manifest.through = None
  /\ pc = "record" => manifest.through = None
  /\ pc = "clean" => manifest.through # None
  /\ pc = "purge" => manifest.through # None /\ (project[mine.id] = 0 \/ late)
  /\ pc \in {"restore", "forget"} => DOMAIN project = {}
  /\ pc = "forget" => config = None /\ \A f \in RepoFile : file[f] = "beads"

MoveInv == MoveTypes /\ OneManifest /\ RecordedFirst /\ UndoOrder

LEMMA MoveInit == M!Init => MoveInv
<1>. SUFFICES ASSUME M!Init PROVE MoveInv
  OBVIOUS
<1>1. DOMAIN project = {}
  BY DEF M!Init
<1>2. /\ file \in [RepoFile -> {"beads", "engine"}] /\ config = None /\ manifest = None /\ mine = None
      /\ pc = "idle" /\ runs = 0 /\ late = FALSE
  BY DEF M!Init
<1>3. MoveTypes
  <2>1. {manifest, mine} \ {None} = {}
    BY <1>2
  <2>2. M!TypeOK
    BY <1>1, <1>2, <2>1 DEF M!TypeOK
  <2>3. runs \in 0..MaxRuns
    BY <1>2, ProjectAssumption
  <2>4. late \in BOOLEAN
    BY <1>2
  <2>. QED
    BY <1>2, <2>2, <2>3, <2>4 DEF MoveTypes
<1>. QED
  BY <1>1, <1>3 DEF M!Init, MoveInv, OneManifest, RecordedFirst, UndoOrder

\* A manifest that is there is one, and the files it saved are named.
LEMMA ManifestIs ==
  ASSUME MoveInv, manifest # None
  PROVE  /\ manifest \in Manifests /\ manifest.id \in M!Ids
         /\ \A f \in M!Files : manifest.files[f] = "beads"
         /\ DOMAIN project \subseteq {manifest.id} /\ config \in {None, manifest.id}
         /\ manifest.through \in {None, 0}
BY DEF MoveInv, MoveTypes, OneManifest, RecordedFirst, Manifests

\* The types, where a step leaves the manifests' forms alone.
LEMMA MoveTyped ==
  ASSUME MoveTypes, file' \in [RepoFile -> {"beads", "engine"}], config' \in M!Ids \cup {None},
         DOMAIN project' \subseteq M!Ids, \A i \in DOMAIN project' : project'[i] \in 0..MaxWork,
         manifest' \in Manifests \cup {None}, mine' \in Manifests \cup {None},
         pc' \in {"idle", "save", "import", "record", "clean", "config", "purge", "restore", "forget"},
         runs' \in 0..MaxRuns, pc' # "idle" => runs' > 0, late' \in BOOLEAN
  PROVE  MoveTypes'
BY DEF MoveTypes, M!TypeOK, Manifests

LEMMA MoveNext == MoveInv /\ [M!Next]_migrationVars => MoveInv'
<1>. SUFFICES ASSUME MoveInv, [M!Next]_migrationVars PROVE MoveInv'
  OBVIOUS
<1>. USE ProjectAssumption
<1>1. MoveTypes /\ OneManifest /\ RecordedFirst /\ UndoOrder
  BY DEF MoveInv
<1>2. /\ file \in [RepoFile -> {"beads", "engine"}] /\ config \in M!Ids \cup {None}
      /\ DOMAIN project \subseteq M!Ids /\ \A i \in DOMAIN project : project[i] \in 0..MaxWork
      /\ manifest \in Manifests \cup {None} /\ mine \in Manifests \cup {None}
      /\ pc \in {"idle", "save", "import", "record", "clean", "config", "purge", "restore", "forget"}
      /\ runs \in 0..MaxRuns /\ (pc # "idle" => runs > 0) /\ late \in BOOLEAN
  BY <1>1 DEF MoveTypes, M!TypeOK
<1>3. None \notin M!Ids
  BY DEF M!Ids
<1>. SUFFICES MoveTypes' /\ OneManifest' /\ RecordedFirst' /\ UndoOrder'
  BY DEF MoveInv
<1>4. CASE UNCHANGED migrationVars
  BY <1>1, <1>4 DEF migrationVars, MoveTypes, M!TypeOK, OneManifest, RecordedFirst, UndoOrder
<1>5. CASE M!Migrate
  <2>1. config # None => manifest # None /\ manifest.id = config
    BY <1>1 DEF OneManifest
  <2>2. /\ mine' = manifest /\ UNCHANGED <<file, config, project, late, manifest>>
        /\ runs' \in 0..MaxRuns /\ runs' > 0
        /\ ~(manifest # None /\ manifest.id \notin DOMAIN project /\ manifest.through # None)
        /\ pc' = IF ~M!Resumes THEN "save" ELSE IF M!Unrecorded(manifest) THEN "record" ELSE "clean"
    BY <1>2, <1>5, <2>1 DEF M!Migrate, M!repo, M!db, M!Exists
  <2>3. MoveTypes'
    BY <1>1, <1>2, <2>2, MoveTyped
  <2>4. pc' = "save" => /\ manifest = None \/ manifest.id \notin DOMAIN project
                        /\ DOMAIN project = {} /\ (manifest # None => manifest.through = None) /\ config = None
    BY <1>1, <2>2 DEF M!Resumes, M!Exists, OneManifest, RecordedFirst
  <2>5. pc' # "save" => /\ manifest # None /\ manifest.id \in DOMAIN project /\ pc' \in {"record", "clean"}
                        /\ pc' = "record" <=> manifest.through = None
    BY <2>2 DEF M!Resumes, M!Exists, M!Unrecorded
  <2>6. OneManifest' /\ RecordedFirst'
    BY <1>1, <2>2, <2>4, <2>5 DEF OneManifest, RecordedFirst
  <2>7. UndoOrder'
    BY <1>1, <2>2, <2>4, <2>5 DEF UndoOrder
  <2>. QED
    BY <2>3, <2>6, <2>7
<1>6. CASE M!Save
  <2>1. /\ pc = "save" /\ DOMAIN project = {} /\ config = None /\ (manifest # None => manifest.through = None)
        /\ mine = manifest /\ UNCHANGED <<file, config, project, late, looked, runs>>
    BY <1>1, <1>6 DEF M!Save, M!repo, M!db, UndoOrder, OneManifest
  <2>2. CASE pc' = "idle" /\ UNCHANGED <<manifest, mine>>
    <3>1. MoveTypes'
      BY <1>1, <1>2, <2>1, <2>2, MoveTyped
    <3>. QED
      BY <1>1, <2>1, <2>2, <3>1 DEF OneManifest, RecordedFirst, UndoOrder
  <2>3. CASE pc' = "import" /\ mine = None
             /\ mine' = [id |-> runs, files |-> [f \in M!Files |-> M!Now(f)], through |-> None] /\ manifest' = mine'
    <3>1. \A f \in M!Files : M!Now(f) = "beads"
      BY <1>1, <2>1, <2>3 DEF M!Files, M!Now, OneManifest
    <3>2. mine'.files = [f \in M!Files |-> "beads"]
      BY <2>3, <3>1
    <3>3. mine' \in Manifests /\ mine'.id = runs /\ mine'.through = None /\ mine' # None
      <4>1. runs \in M!Ids
        BY <1>2, <2>1 DEF M!Ids
      <4>2. mine' \in Manifests /\ mine'.through = None /\ mine'.id = runs
        BY <2>3, <3>1, <4>1 DEF Manifests
      <4>. QED
        BY <4>2, ManifestAssumption DEF Manifests, M!Ids, M!Files
    <3>4. MoveTypes'
      BY <1>1, <1>2, <2>1, <2>3, <3>3, MoveTyped
    <3>. QED
      BY <1>1, <2>1, <2>3, <3>2, <3>3, <3>4 DEF OneManifest, RecordedFirst, UndoOrder
  <2>4. CASE pc' = "import" /\ mine # None /\ UNCHANGED <<mine, manifest>>
    <3>1. MoveTypes'
      BY <1>1, <1>2, <2>1, <2>4, MoveTyped
    <3>. QED
      BY <1>1, <2>1, <2>4, <3>1 DEF OneManifest, RecordedFirst, UndoOrder
  <2>. QED
    BY <1>6, <2>1, <2>2, <2>3, <2>4 DEF M!Save, M!Written
<1>7. CASE M!Import
  <2>1. /\ pc = "import" /\ mine = manifest /\ manifest # None /\ manifest.through = None
        /\ UNCHANGED <<file, config, late, manifest, mine, looked, runs>>
    BY <1>1, <1>7 DEF M!Import, M!repo, UndoOrder, OneManifest
  <2>2. manifest.id \in M!Ids /\ DOMAIN project \subseteq {manifest.id} /\ config = None
    BY <2>1, <1>1, ManifestIs DEF RecordedFirst
  <2>3. CASE pc' = "idle" /\ UNCHANGED project
    <3>1. MoveTypes'
      BY <1>1, <1>2, <2>1, <2>3, MoveTyped
    <3>. QED
      BY <1>1, <2>1, <2>3, <3>1 DEF OneManifest, RecordedFirst, UndoOrder
  <2>4. CASE pc' = "record" /\ project' = [i \in DOMAIN project \cup {mine.id} |-> IF i = mine.id THEN 0 ELSE project[i]]
    <3>1. DOMAIN project' = {manifest.id} /\ project'[manifest.id] = 0
      BY <2>1, <2>2, <2>4
    <3>2. MoveTypes'
      BY <1>1, <1>2, <2>1, <2>2, <2>4, <3>1, MoveTyped
    <3>3. OneManifest' /\ RecordedFirst'
      BY <1>1, <2>1, <2>2, <2>4, <3>1 DEF OneManifest, RecordedFirst
    <3>4. UndoOrder'
      BY <1>1, <2>1, <2>2, <2>4, <3>1 DEF UndoOrder
    <3>. QED
      BY <3>2, <3>3, <3>4
  <2>. QED
    BY <1>7, <2>3, <2>4 DEF M!Import
<1>8. CASE M!Record
  <2>1. /\ pc = "record" /\ pc' = "clean" /\ mine = manifest /\ manifest # None /\ manifest.through = None
        /\ mine' = [mine EXCEPT !.through = project[mine.id]] /\ manifest' = mine'
        /\ mine.id \in DOMAIN project /\ UNCHANGED <<file, config, project, late, looked, runs>>
    BY <1>1, <1>8 DEF M!Record, M!repo, M!db, UndoOrder, OneManifest
  <2>2. project[mine.id] = 0 /\ config = None /\ manifest \in Manifests
    BY <1>1, <1>2, <2>1 DEF RecordedFirst
  <2>3. /\ mine' \in Manifests /\ mine'.through = 0 /\ mine'.id = mine.id /\ mine'.files = mine.files
    BY <2>1, <2>2 DEF Manifests
  <2>4. mine' # None
    BY <2>3, ManifestAssumption DEF Manifests, M!Ids, M!Files
  <2>5. MoveTypes'
    BY <1>1, <1>2, <2>1, <2>3, MoveTyped
  <2>6. OneManifest' /\ RecordedFirst'
    BY <1>1, <2>1, <2>2, <2>3, <2>4 DEF OneManifest, RecordedFirst
  <2>7. UndoOrder'
    BY <1>1, <2>1, <2>2, <2>3 DEF UndoOrder
  <2>. QED
    BY <2>5, <2>6, <2>7
<1>9. CASE M!Clean
  <2>1. /\ pc = "clean" /\ manifest # None /\ file' \in [RepoFile -> {"beads", "engine"}]
        /\ UNCHANGED <<config, project, late, manifest, pc, mine, looked, runs>>
    BY <1>1, <1>2, <1>9 DEF M!Clean, M!db, OneManifest
  <2>2. MoveTypes'
    BY <1>1, <1>2, <2>1, MoveTyped
  <2>. QED
    BY <1>1, <2>1, <2>2 DEF OneManifest, RecordedFirst, UndoOrder
<1>10. CASE M!NameProject
  <2>1. /\ pc = "clean" /\ pc' = "idle" /\ manifest # None /\ mine = manifest /\ config' = manifest.id
        /\ manifest.through # None
        /\ UNCHANGED <<file, project, late, manifest, mine, looked, runs>>
    BY <1>1, <1>10 DEF M!NameProject, M!db, OneManifest, UndoOrder
  <2>2. MoveTypes'
    BY <1>1, <1>2, <2>1, ManifestIs, MoveTyped
  <2>. QED
    BY <1>1, <2>1, <2>2 DEF OneManifest, RecordedFirst, UndoOrder
<1>11. CASE M!Undo
  <2>1. /\ manifest # None /\ mine' = manifest /\ UNCHANGED <<file, config, project, manifest>>
        /\ late' = FALSE /\ runs' \in 0..MaxRuns /\ runs' > 0
        /\ pc' = IF manifest.id \notin DOMAIN project THEN "restore" ELSE IF M!Untouched THEN "purge" ELSE "idle"
    BY <1>2, <1>11 DEF M!Undo, M!repo, M!Exists, M!IfGone
  <2>2. pc' = "purge" => /\ manifest.id \in DOMAIN project /\ manifest.through # None
                         /\ project[manifest.id] = 0
    BY <1>1, <2>1 DEF M!Untouched, RecordedFirst
  <2>3. pc' = "restore" => DOMAIN project = {}
    BY <2>1, ManifestIs
  <2>4. MoveTypes'
    BY <1>1, <1>2, <2>1, MoveTyped
  <2>5. OneManifest' /\ RecordedFirst'
    BY <1>1, <2>1 DEF OneManifest, RecordedFirst
  <2>6. UndoOrder'
    BY <1>1, <2>1, <2>2, <2>3 DEF UndoOrder
  <2>. QED
    BY <2>4, <2>5, <2>6
<1>12. CASE M!Purge
  <2>1. /\ pc = "purge" /\ pc' = "restore" /\ mine = manifest /\ manifest # None /\ manifest.through # None
        /\ project' = [i \in DOMAIN project \ {mine.id} |-> project[i]]
        /\ UNCHANGED <<file, config, late, manifest, mine, looked, runs>>
    BY <1>1, <1>12 DEF M!Purge, M!repo, OneManifest, UndoOrder
  <2>2. DOMAIN project' = {}
    BY <2>1, ManifestIs
  <2>3. MoveTypes'
    BY <1>1, <1>2, <2>1, <2>2, MoveTyped
  <2>. QED
    BY <1>1, <2>1, <2>2, <2>3 DEF OneManifest, RecordedFirst, UndoOrder
<1>13. CASE M!Restore
  <2>1. /\ pc = "restore" /\ mine = manifest /\ manifest # None /\ DOMAIN project = {}
        /\ \A f \in M!Files : mine.files[f] = "beads"
        /\ UNCHANGED <<project, late, manifest, mine, looked, runs>>
    BY <1>1, <1>13, ManifestIs DEF M!Restore, M!db, OneManifest, UndoOrder
  <2>2. CASE (\E f \in RepoFile : file' = [file EXCEPT ![f] = mine.files[f]]) /\ UNCHANGED <<config, pc>>
    <3>1. file' \in [RepoFile -> {"beads", "engine"}]
      BY <1>2, <2>1, <2>2 DEF M!Files
    <3>2. MoveTypes'
      BY <1>1, <1>2, <2>1, <2>2, <3>1, MoveTyped
    <3>. QED
      BY <1>1, <2>1, <2>2, <3>2 DEF OneManifest, RecordedFirst, UndoOrder
  <2>3. CASE config' = None /\ UNCHANGED <<file, pc>>
    <3>1. MoveTypes'
      BY <1>1, <1>2, <2>1, <2>3, MoveTyped
    <3>. QED
      BY <1>1, <2>1, <2>3, <3>1 DEF OneManifest, RecordedFirst, UndoOrder
  <2>4. CASE (\A f \in M!Files : M!Now(f) = mine.files[f]) /\ pc' = "forget" /\ UNCHANGED <<file, config>>
    <3>1. config = None /\ \A f \in RepoFile : file[f] = "beads"
      BY <2>1, <2>4, NamesAssumption DEF M!Files, M!Now
    <3>2. MoveTypes'
      BY <1>1, <1>2, <2>1, <2>4, MoveTyped
    <3>. QED
      BY <1>1, <2>1, <2>4, <3>1, <3>2 DEF OneManifest, RecordedFirst, UndoOrder
  <2>. QED
    BY <1>13, <2>2, <2>3, <2>4 DEF M!Restore, M!repo
<1>14. CASE M!Forget
  <2>1. /\ pc = "forget" /\ pc' = "idle" /\ manifest' = None
        /\ config = None /\ DOMAIN project = {} /\ \A f \in RepoFile : file[f] = "beads"
        /\ UNCHANGED <<file, config, project, late, mine, looked, runs>>
    BY <1>1, <1>14 DEF M!Forget, M!repo, M!db, UndoOrder
  <2>2. MoveTypes'
    BY <1>1, <1>2, <2>1, MoveTyped
  <2>. QED
    BY <2>1, <2>2 DEF OneManifest, RecordedFirst, UndoOrder
<1>15. CASE M!Crash
  <2>1. pc' = "idle" /\ UNCHANGED <<file, config, project, late, manifest, mine, looked, runs>>
    BY <1>15 DEF M!Crash, M!repo, M!db
  <2>2. MoveTypes'
    BY <1>1, <1>2, <2>1, MoveTyped
  <2>. QED
    BY <1>1, <2>1, <2>2 DEF OneManifest, RecordedFirst, UndoOrder
<1>16. CASE M!Work
  <2>1. /\ config # None /\ config \in DOMAIN project /\ project[config] < MaxWork
        /\ project' = [project EXCEPT ![config] = @ + 1]
        /\ late' = (late \/ (pc = "purge" /\ config = mine.id))
        /\ UNCHANGED <<file, config, manifest, pc, mine, looked, runs>>
    BY <1>16 DEF M!Work, M!repo, M!Exists
  <2>2. /\ manifest # None /\ config = manifest.id /\ manifest.through = 0
        /\ DOMAIN project' = DOMAIN project
    BY <1>1, <2>1 DEF OneManifest, RecordedFirst
  <2>3. \A i \in DOMAIN project' : project'[i] \in 0..MaxWork
    BY <1>2, <2>1
  <2>4. MoveTypes'
    <3>1. late' \in BOOLEAN
      BY <2>1
    <3>. QED
      BY <1>1, <1>2, <2>1, <2>2, <2>3, <3>1, MoveTyped
  <2>5. OneManifest' /\ RecordedFirst'
    BY <1>1, <2>1, <2>2 DEF OneManifest, RecordedFirst
  <2>6. pc = "purge" => late'
    BY <1>1, <2>1, <2>2 DEF OneManifest
  <2>7. UndoOrder'
    BY <1>1, <2>1, <2>2, <2>6 DEF UndoOrder
  <2>. QED
    BY <2>4, <2>5, <2>7
<1>. HIDE DEF MoveInv, M!repo, M!db
<1>17. CASE M!Next
  BY <1>5, <1>6, <1>7, <1>8, <1>9, <1>10, <1>11, <1>12, <1>13, <1>14, <1>15, <1>16, <1>17 DEF M!Next
<1>. QED
  BY <1>4, <1>17

\* One project at most; what undo takes from the database nobody worked on since it looked, and
\* when undo ends the repository is on beads.
LEMMA MoveKeeps ==
  ASSUME MoveInv
  PROVE  /\ M!OneProject
         /\ pc = "forget" => config = None /\ (\A f \in RepoFile : file[f] = "beads") /\ DOMAIN project = {}
         /\ [M!Next]_migrationVars => \A i \in DOMAIN project : i \notin DOMAIN project' => project[i] = 0 \/ late
<1>1. M!OneProject
  BY DEF MoveInv, OneManifest, M!OneProject
<1>2. pc = "forget" => config = None /\ (\A f \in RepoFile : file[f] = "beads") /\ DOMAIN project = {}
  BY DEF MoveInv, UndoOrder
<1>3. ASSUME [M!Next]_migrationVars, NEW i \in DOMAIN project, i \notin DOMAIN project'
      PROVE  project[i] = 0 \/ late
  <2>1. CASE M!Import
    BY <1>3, <2>1 DEF M!Import
  <2>2. CASE M!Work
    BY <1>3, <2>2 DEF M!Work
  <2>3. CASE M!Purge
    <3>1. i = mine.id /\ pc = "purge"
      BY <1>3, <2>3 DEF M!Purge
    <3>. QED
      BY <3>1 DEF MoveInv, UndoOrder
  <2>4. CASE UNCHANGED project
    BY <1>3, <2>4
  <2>. QED
    BY <1>3, <2>1, <2>2, <2>3, <2>4
       DEF migrationVars, M!Next, M!Migrate, M!Save, M!Record, M!Clean, M!NameProject, M!Undo, M!Restore,
         M!Forget,
           M!Crash, M!db
<1>. QED
  BY <1>1, <1>2, <1>3

----------------------------------------------------------------------------
(* Init                                                                      *)

Phases == {"idle", "app", "push", "database", "config", "project", "record", "remove", "register", "unregister",
           "rename", "done"}
Runs == [at : Phases, mode : I!Mode, had : BOOLEAN, other : BOOLEAN, id : {0} \cup I!Project]

InitTypes == I!TypeOK /\ run \in Runs

Before == {"app", "push", "database", "config"}
Filed == {"record", "remove", "register", "unregister", "rename", "done"}

\* A project has the number of the run that made it; files and runs name ones that are there, and
\* all the same.
OneName ==
  /\ \A p \in DOMAIN modeOf : p <= inits
  /\ run.at \in Before \cup {"project"} => inits > 0 /\ inits \notin DOMAIN modeOf
  /\ I!Named \subseteq DOMAIN modeOf
  /\ kshetra \in I!Project /\ tracker \in I!Project => kshetra = tracker
  /\ run.at # "idle" => I!Named \subseteq {run.id} /\ (run.id # 0 => run.id \in DOMAIN modeOf)
  /\ run.at = "idle" => run = I!Idle

\* What a run under way in a mode knows of the files, and what it has done to them.
PhasesTrue ==
  /\ run.at \in Filed => run.id # 0 /\ modeOf[run.id] = run.mode
  /\ run.mode = "kshetra" =>
       /\ run.at \notin {"unregister", "rename"}
       /\ run.at = "push" => app = "wired"
       /\ run.at \in Before => (run.had <=> kshetra # None)
       /\ run.at \in Before \cup {"project", "record", "remove"} => (run.other <=> tracker # None)
       /\ run.at \in {"project", "record"} => kshetra # None
       /\ run.at \in {"remove", "register", "done"} => kshetra = run.id
       /\ run.at \in {"register", "done"} => tracker = None
       /\ run.at = "done" => registered
  /\ run.mode = "tracker" =>
       /\ run.at \notin {"app", "push", "remove", "register"}
       /\ run.at \in {"project", "record", "unregister", "rename", "done"} => tracker # None
       /\ run.at \in {"unregister", "rename", "done"} => tracker = run.id
       /\ run.at \notin {"idle", "done"} => (run.other <=> kshetra # None)
       /\ run.at \in {"rename", "done"} => ~registered
       /\ run.at = "done" => kshetra = None

\* What is registered has a config; a worker that did not slip in works no tracker's repository
\* and none that is becoming one.
WorkersTrue ==
  /\ registered => kshetra # None
  /\ worker /\ ~slipped => tracker = None /\ kshetra # None /\ run.mode = "kshetra"

InitInv == InitTypes /\ OneName /\ PhasesTrue /\ WorkersTrue

\* A run's record, moved to another phase.
LEMMA RunGoes ==
  ASSUME run \in Runs, NEW x \in Phases, run' = [run EXCEPT !.at = x]
  PROVE  /\ run' \in Runs /\ run'.at = x /\ run'.mode = run.mode /\ run'.id = run.id
         /\ run'.had = run.had /\ run'.other = run.other
BY DEF Runs

LEMMA InitTyped ==
  ASSUME app' \in {"none", "created", "wired", "pushed"}, beads' \in BOOLEAN,
         kshetra' \in {None, 0} \cup I!Project, tracker' \in {None, 0} \cup I!Project,
         registered' \in BOOLEAN, worker' \in BOOLEAN, slipped' \in BOOLEAN,
         DOMAIN modeOf' \subseteq I!Project, \A p \in DOMAIN modeOf' : modeOf'[p] \in I!Mode,
         run' \in Runs, inits' \in 0..MaxInits
  PROVE  InitTypes'
BY DEF InitTypes, I!TypeOK, I!File, I!Unnamed, Runs

LEMMA InitInit == I!Init => InitInv
<1>. SUFFICES ASSUME I!Init PROVE InitInv
  OBVIOUS
<1>1. DOMAIN modeOf = {}
  BY DEF I!Init
<1>2. /\ app \in {"none", "pushed"} /\ beads \in BOOLEAN /\ kshetra = None /\ tracker = None
      /\ registered = FALSE /\ worker = FALSE /\ slipped = FALSE /\ run = I!Idle /\ inits = 0
  BY DEF I!Init
<1>3. run \in Runs /\ run.at = "idle" /\ run.mode = "kshetra"
  BY <1>2 DEF I!Idle, I!Unnamed, I!Mode, Runs, Phases
<1>4. inits \in 0..MaxInits /\ None \notin I!Project
  BY <1>2, ProjectAssumption DEF I!Project
<1>5. registered \in BOOLEAN /\ worker \in BOOLEAN /\ slipped \in BOOLEAN
  BY <1>2
<1>6. I!TypeOK
  BY <1>1, <1>2, <1>3, <1>4, <1>5 DEF I!TypeOK, I!File, I!Unnamed, Runs
<1>7. OneName
  BY <1>1, <1>2, <1>3, <1>4 DEF OneName, I!Named, Before
<1>8. PhasesTrue /\ WorkersTrue
  BY <1>2, <1>3 DEF PhasesTrue, WorkersTrue, Before, Filed
<1>. QED
  BY <1>3, <1>6, <1>7, <1>8 DEF InitInv, InitTypes

LEMMA InitNext ==
  ASSUME InitInv, [I!Next]_initVars
  PROVE  InitInv' /\ I!Named \subseteq I!Named'
<1>1. InitTypes /\ OneName /\ PhasesTrue /\ WorkersTrue
  BY DEF InitInv
<1>2. /\ app \in {"none", "created", "wired", "pushed"} /\ beads \in BOOLEAN
      /\ kshetra \in {None, 0} \cup I!Project /\ tracker \in {None, 0} \cup I!Project
      /\ registered \in BOOLEAN /\ worker \in BOOLEAN /\ slipped \in BOOLEAN
      /\ DOMAIN modeOf \subseteq I!Project /\ (\A p \in DOMAIN modeOf : modeOf[p] \in I!Mode)
      /\ run \in Runs /\ inits \in 0..MaxInits
  BY <1>1 DEF InitTypes, I!TypeOK, I!File, I!Unnamed
<1>3. /\ run.at \in Phases /\ run.mode \in I!Mode /\ run.had \in BOOLEAN /\ run.other \in BOOLEAN
      /\ run.id \in {0} \cup I!Project
  BY <1>2 DEF Runs
<1>4. 0 \notin I!Project /\ None \notin I!Project /\ None # 0
  BY ProjectAssumption DEF I!Project
<1>. SUFFICES InitTypes' /\ OneName' /\ PhasesTrue' /\ WorkersTrue' /\ I!Named \subseteq I!Named'
  BY DEF InitInv
<1>5. CASE UNCHANGED initVars
  BY <1>1, <1>5 DEF initVars, InitTypes, I!TypeOK, I!File, OneName, PhasesTrue, WorkersTrue, I!Named
<1>6. ASSUME NEW m \in I!Mode, I!Begin(m)
      PROVE  InitTypes' /\ OneName' /\ PhasesTrue' /\ WorkersTrue' /\ I!Named \subseteq I!Named'
  <2>1. /\ run.at = "idle" /\ inits' = inits + 1 /\ inits < MaxInits /\ ~I!Refused(m)
        /\ UNCHANGED <<app, beads, kshetra, tracker, registered, modeOf, worker, slipped>>
    BY <1>6 DEF I!Begin, I!At, I!repo, I!files, I!work
  <2>2. /\ I!Kept(m) \in {0} \cup I!Project /\ I!Named \subseteq {I!Kept(m)}
        /\ I!Kept(m) # 0 => I!Kept(m) \in DOMAIN modeOf
    BY <1>1, <1>2, <1>4 DEF I!Kept, I!Or, I!ProjectIn, I!Unnamed, I!Named, I!Mode, OneName
  <2>3. /\ run'.at = (IF m = "kshetra" THEN "app" ELSE "database") /\ run'.mode = m /\ run'.id = I!Kept(m)
        /\ run'.had <=> (IF m = "kshetra" THEN kshetra ELSE tracker) # None
        /\ run'.other <=> (IF m = "kshetra" THEN tracker ELSE kshetra) # None
    BY <1>6 DEF I!Begin
  <2>4. run' \in Runs
    BY <1>6, <2>2 DEF I!Begin, Runs, Phases
  <2>5. inits' \in 0..MaxInits /\ inits' > 0 /\ inits' \notin DOMAIN modeOf /\ \A p \in DOMAIN modeOf : p <= inits'
    BY <1>1, <1>2, <2>1, ProjectAssumption DEF OneName, I!Project
  <2>6. InitTypes'
    BY <1>2, <2>1, <2>4, <2>5, InitTyped
  <2>7. OneName' /\ I!Named \subseteq I!Named'
    BY <1>1, <2>1, <2>2, <2>3, <2>5 DEF OneName, I!Named
  <2>8. PhasesTrue'
    BY <2>1, <2>3 DEF PhasesTrue, Before, Filed, I!Mode
  <2>9. WorkersTrue'
    BY <1>1, <2>1, <2>3 DEF WorkersTrue, I!Refused, I!Mode
  <2>. QED
    BY <2>6, <2>7, <2>8, <2>9
<1>7. CASE I!EnsureAppRepo \/ I!Push \/ I!Database
  <2>1. run.at \in {"app", "push"} => run.mode = "kshetra"
    BY <1>1, <1>3 DEF PhasesTrue, I!Mode
  <2>2. PICK x \in {"app", "push", "database", "config"} :
          /\ run' = [run EXCEPT !.at = x]
          /\ run.at \in {"app", "push", "database"}
          /\ run.mode = "tracker" => x = "config"
          /\ x = "push" => app' = "wired"
          /\ app' \in {"none", "created", "wired", "pushed"}
          /\ UNCHANGED <<beads, kshetra, tracker, registered, modeOf, worker, slipped, inits>>
    <3>1. CASE I!EnsureAppRepo
      <4>1. I!AppNext \in {"created", "wired", "pushed"} \/ I!Wired
        BY <1>2 DEF I!AppNext, I!Wired
      <4>. QED
        BY <1>2, <2>1, <3>1, <4>1 DEF I!EnsureAppRepo, I!At, I!Go, I!files, I!work
    <3>2. CASE I!Push
      <4>1. I!AppNext \in {"created", "wired", "pushed"}
        BY <1>1, <2>1, <3>2 DEF I!Push, I!At, I!AppNext, PhasesTrue
      <4>. QED
        BY <2>1, <3>2, <4>1 DEF I!Push, I!At, I!Go, I!files, I!work
    <3>3. CASE I!Database
      BY <1>2, <3>3 DEF I!Database, I!At, I!Go, I!repo, I!files, I!work
    <3>. QED
      BY <1>7, <3>1, <3>2, <3>3
  <2>3. /\ run' \in Runs /\ run'.at = x /\ run'.mode = run.mode /\ run'.id = run.id
        /\ run'.had = run.had /\ run'.other = run.other
    BY <1>2, <2>2, RunGoes DEF Phases
  <2>4. InitTypes'
    BY <1>2, <2>2, <2>3, InitTyped
  <2>5. OneName' /\ I!Named \subseteq I!Named'
    BY <1>1, <2>2, <2>3 DEF OneName, I!Named, Before
  <2>6. PhasesTrue'
    BY <1>1, <2>2, <2>3 DEF PhasesTrue, Before, Filed
  <2>7. WorkersTrue'
    BY <1>1, <2>2, <2>3 DEF WorkersTrue
  <2>. QED
    BY <2>4, <2>5, <2>6, <2>7
<1>8. CASE I!Config
  <2>1. /\ run.at = "config" /\ run' = [run EXCEPT !.at = "project"]
        /\ UNCHANGED <<app, beads, registered, modeOf, worker, slipped, inits>>
    BY <1>8 DEF I!Config, I!At, I!Go, I!repo, I!work
  <2>2. /\ run' \in Runs /\ run'.at = "project" /\ run'.mode = run.mode /\ run'.id = run.id
        /\ run'.had = run.had /\ run'.other = run.other
    BY <1>2, <2>1, RunGoes DEF Phases
  <2>3. CASE run.mode = "kshetra"
    <3>1. kshetra' = (IF kshetra # None THEN kshetra ELSE run.id) /\ tracker' = tracker
      BY <1>1, <1>8, <2>1, <2>3 DEF I!Config, PhasesTrue, Before
    <3>2. InitTypes'
      BY <1>2, <1>3, <2>1, <2>2, <3>1, InitTyped
    <3>3. OneName' /\ I!Named \subseteq I!Named'
      BY <1>1, <1>3, <1>4, <2>1, <2>2, <3>1 DEF OneName, I!Named, Before
    <3>4. PhasesTrue'
      BY <1>1, <1>3, <1>4, <2>1, <2>2, <2>3, <3>1 DEF PhasesTrue, Before, Filed
    <3>5. WorkersTrue'
      BY <1>1, <1>3, <1>4, <2>1, <2>2, <3>1 DEF WorkersTrue
    <3>. QED
      BY <3>2, <3>3, <3>4, <3>5
  <2>4. CASE run.mode = "tracker"
    <3>1. tracker' = (IF tracker = None THEN run.id ELSE tracker) /\ kshetra' = kshetra
      BY <1>8, <2>4 DEF I!Config
    <3>2. InitTypes'
      BY <1>2, <1>3, <2>1, <2>2, <3>1, InitTyped
    <3>3. OneName' /\ I!Named \subseteq I!Named'
      BY <1>1, <1>3, <1>4, <2>1, <2>2, <3>1 DEF OneName, I!Named, Before
    <3>4. PhasesTrue'
      BY <1>1, <1>3, <1>4, <2>1, <2>2, <2>4, <3>1 DEF PhasesTrue, Before, Filed
    <3>5. WorkersTrue'
      BY <1>1, <2>1, <2>2, <2>4, <3>1 DEF WorkersTrue
    <3>. QED
      BY <3>2, <3>3, <3>4, <3>5
  <2>. QED
    BY <1>3, <2>3, <2>4 DEF I!Mode
<1>9. CASE I!EngineProject
  <2>1. run.at = "project" /\ UNCHANGED <<app, beads, kshetra, registered, worker, slipped, inits>>
    BY <1>9 DEF I!EngineProject, I!At, I!repo, I!work
  <2>2. PICK id : /\ id = (IF run.id # 0 THEN run.id ELSE inits)
                  /\ I!RegisterProject(id) /\ run' = [run EXCEPT !.at = "record", !.id = id]
                  /\ tracker' = IF run.mode = "tracker" /\ run.id = 0 /\ beads THEN id ELSE tracker
    BY <1>9 DEF I!EngineProject, I!Unnamed, I!Fresh
  <2>3. id \in I!Project
    BY <1>1, <1>2, <1>3, <2>1, <2>2, ProjectAssumption DEF OneName, I!Project
  <2>4. /\ run'.at = "record" /\ run'.mode = run.mode /\ run'.id = id
        /\ run'.had = run.had /\ run'.other = run.other
    BY <1>2, <2>2 DEF Runs
  <2>5. run' \in Runs
    <3>1. [run EXCEPT !.at = "record"] \in Runs
      BY <1>2 DEF Runs, Phases
    <3>. QED
      BY <2>2, <2>3, <3>1 DEF Runs
  <2>6. /\ DOMAIN modeOf' = DOMAIN modeOf \cup {id} /\ modeOf'[id] = run.mode
        /\ \A p \in DOMAIN modeOf \ {id} : modeOf'[p] = modeOf[p]
    BY <2>2 DEF I!RegisterProject
  <2>7. InitTypes'
    BY <1>2, <1>3, <2>1, <2>2, <2>3, <2>5, <2>6, InitTyped
  <2>8. I!Named' \subseteq {id} /\ I!Named \subseteq I!Named'
    BY <1>1, <1>4, <2>1, <2>2, <2>3 DEF OneName, I!Named
  <2>9. id <= inits
    BY <1>1, <1>2, <2>1, <2>2 DEF OneName
  <2>10. OneName'
    BY <1>1, <2>1, <2>3, <2>4, <2>6, <2>8, <2>9 DEF OneName, I!Named, Before
  <2>11. PhasesTrue'
    BY <1>1, <1>3, <1>4, <2>1, <2>2, <2>3, <2>4, <2>6 DEF PhasesTrue, Before, Filed, I!Mode
  <2>12. WorkersTrue'
    BY <1>1, <2>1, <2>2, <2>4 DEF WorkersTrue
  <2>. QED
    BY <2>7, <2>8, <2>10, <2>11, <2>12
<1>10. CASE I!RecordProjectId
  <2>1. /\ run.at = "record" /\ run.id \in I!Project /\ UNCHANGED <<app, beads, registered, modeOf, worker, slipped, inits>>
    BY <1>1, <1>3, <1>10 DEF I!RecordProjectId, I!At, I!repo, I!work, PhasesTrue, Filed
  <2>2. PICK x \in {"remove", "unregister"} : run' = [run EXCEPT !.at = x] /\ x = (IF run.mode = "kshetra" THEN "remove" ELSE "unregister")
    BY <1>10 DEF I!RecordProjectId, I!Go, I!LeaveOrder
  <2>3. /\ run' \in Runs /\ run'.at = x /\ run'.mode = run.mode /\ run'.id = run.id
        /\ run'.had = run.had /\ run'.other = run.other
    BY <1>2, <2>2, RunGoes DEF Phases
  <2>4. IF run.mode = "kshetra" THEN kshetra' = run.id /\ tracker' = tracker ELSE tracker' = run.id /\ kshetra' = kshetra
    BY <1>10 DEF I!RecordProjectId
  <2>5. InitTypes'
    BY <1>2, <2>1, <2>3, <2>4, InitTyped
  <2>6. OneName' /\ I!Named \subseteq I!Named'
    BY <1>1, <1>4, <2>1, <2>3, <2>4 DEF OneName, I!Named, Before
  <2>7. PhasesTrue'
    BY <1>1, <1>3, <1>4, <2>1, <2>2, <2>3, <2>4 DEF PhasesTrue, Before, Filed, I!Mode
  <2>8. WorkersTrue'
    BY <1>1, <1>3, <1>4, <2>1, <2>3, <2>4 DEF WorkersTrue
  <2>. QED
    BY <2>5, <2>6, <2>7, <2>8
<1>11. CASE I!RemoveTracker \/ I!Register
  <2>1. /\ run.at \in {"remove", "register"} /\ run.mode = "kshetra" /\ run.id \in I!Project /\ kshetra = run.id
        /\ UNCHANGED <<app, beads, kshetra, modeOf, worker, slipped, inits>>
    BY <1>1, <1>3, <1>11 DEF I!RemoveTracker, I!Register, I!At, I!repo, I!files, I!work, PhasesTrue, Filed,
      I!Mode
  <2>2. PICK x \in {"register", "done"} : run' = [run EXCEPT !.at = x]
    BY <1>11 DEF I!RemoveTracker, I!Register, I!Go
  <2>3. /\ run' \in Runs /\ run'.at = x /\ run'.mode = run.mode /\ run'.id = run.id
        /\ run'.had = run.had /\ run'.other = run.other
    BY <1>2, <2>2, RunGoes DEF Phases
  <2>4. tracker' = None /\ registered' \in BOOLEAN /\ (x = "done" => registered')
    <3>1. CASE I!RemoveTracker
      BY <1>1, <1>2, <2>1, <2>2, <2>3, <3>1, RunGoes DEF I!RemoveTracker, I!At, I!Go, PhasesTrue, Runs
    <3>2. CASE I!Register
      BY <1>1, <2>1, <3>2 DEF I!Register, I!At, I!files, PhasesTrue
    <3>. QED
      BY <1>11, <3>1, <3>2
  <2>5. InitTypes'
    BY <1>2, <2>1, <2>3, <2>4, InitTyped
  <2>6. OneName' /\ I!Named \subseteq I!Named'
    BY <1>1, <1>4, <2>1, <2>3, <2>4 DEF OneName, I!Named, Before
  <2>7. PhasesTrue'
    BY <1>1, <2>1, <2>2, <2>3, <2>4 DEF PhasesTrue, Before, Filed
  <2>8. WorkersTrue'
    BY <1>1, <1>4, <2>1, <2>3, <2>4 DEF WorkersTrue
  <2>. QED
    BY <2>5, <2>6, <2>7, <2>8
<1>12. CASE I!Unregister \/ I!Rename
  <2>1. /\ run.at \in {"unregister", "rename"} /\ run.mode = "tracker" /\ run.id \in I!Project /\ tracker = run.id
        /\ UNCHANGED <<app, beads, tracker, modeOf, worker, slipped, inits>>
    BY <1>1, <1>3, <1>12 DEF I!Unregister, I!Rename, I!At, I!repo, I!files, I!work, PhasesTrue, Filed, I!Mode
  <2>2. run.other <=> kshetra # None
    BY <1>1, <2>1 DEF PhasesTrue
  <2>3. PICK x \in {"rename", "done"} :
          /\ run' = [run EXCEPT !.at = x]
          /\ kshetra' \in {kshetra, None}
          /\ x = "done" => kshetra' = None
          /\ x = "rename" => kshetra' = kshetra
          /\ registered' = FALSE
    <3>1. CASE I!Unregister
      <4>1. run' = [run EXCEPT !.at = "rename"] /\ kshetra' = kshetra
        BY <3>1 DEF I!Unregister, I!Go, I!AfterLeave, I!LeaveOrder, I!files
      <4>2. registered' = (registered /\ ~run.other)
        BY <3>1 DEF I!Unregister
      <4>3. registered' = FALSE
        BY <1>1, <2>2, <4>2 DEF WorkersTrue
      <4>. QED
        BY <4>1, <4>3
    <3>2. CASE I!Rename
      <4>1. run' = [run EXCEPT !.at = "done"] /\ run.at = "rename"
        BY <3>2 DEF I!Rename, I!At, I!Go, I!AfterLeave, I!LeaveOrder
      <4>2. kshetra' = None
        BY <2>2, <3>2 DEF I!Rename
      <4>3. ~registered /\ registered' = registered
        BY <1>1, <2>1, <3>2, <4>1 DEF I!Rename, PhasesTrue
      <4>4. registered' = FALSE
        BY <1>2, <4>3
      <4>. QED
        BY <4>1, <4>2, <4>4
    <3>. QED
      BY <1>12, <3>1, <3>2
  <2>4. /\ run' \in Runs /\ run'.at = x /\ run'.mode = run.mode /\ run'.id = run.id
        /\ run'.had = run.had /\ run'.other = run.other
    BY <1>2, <2>3, RunGoes DEF Phases
  <2>5. registered' \in BOOLEAN /\ ~registered'
    BY <2>3
  <2>6. InitTypes'
    BY <1>2, <2>1, <2>3, <2>4, <2>5, InitTyped
  <2>7. OneName' /\ I!Named \subseteq I!Named'
    BY <1>1, <1>4, <2>1, <2>3, <2>4 DEF OneName, I!Named, Before
  <2>8. PhasesTrue'
    BY <1>1, <1>4, <2>1, <2>2, <2>3, <2>4, <2>5 DEF PhasesTrue, Before, Filed
  <2>9. WorkersTrue'
    BY <1>1, <2>1, <2>4, <2>5 DEF WorkersTrue
  <2>. QED
    BY <2>6, <2>7, <2>8, <2>9
<1>13. CASE I!Stop
  <2>1. /\ run' = I!Idle /\ UNCHANGED <<app, beads, kshetra, tracker, registered, modeOf, worker, slipped, inits>>
    BY <1>13 DEF I!Stop, I!repo, I!files, I!work
  <2>2. run' \in Runs /\ run'.at = "idle" /\ run'.mode = "kshetra"
    BY <2>1 DEF I!Idle, I!Unnamed, I!Mode, Runs, Phases
  <2>3. InitTypes'
    BY <1>2, <2>1, <2>2, InitTyped
  <2>4. OneName' /\ I!Named \subseteq I!Named'
    <3>1. (run = I!Idle)'
      BY <2>1 DEF I!Idle
    <3>. QED
      BY <1>1, <2>1, <2>2, <3>1 DEF OneName, I!Named, Before
  <2>5. PhasesTrue' /\ WorkersTrue'
    BY <1>1, <2>1, <2>2 DEF PhasesTrue, WorkersTrue, Before, Filed
  <2>. QED
    BY <2>3, <2>4, <2>5
<1>14. CASE I!StartWorker \/ I!StopWorker
  <2>1. /\ worker' \in BOOLEAN /\ slipped' \in BOOLEAN
        /\ UNCHANGED <<app, beads, kshetra, tracker, registered, modeOf, run, inits>>
    BY <1>14 DEF I!StartWorker, I!StopWorker, I!repo, I!files
  <2>2. InitTypes'
    BY <1>2, <2>1, InitTyped
  <2>3. OneName' /\ PhasesTrue' /\ I!Named \subseteq I!Named'
    BY <1>1, <2>1 DEF OneName, PhasesTrue, I!Named
  <2>4. WorkersTrue'
    <3>1. CASE I!StartWorker
      <4>1. kshetra # None /\ tracker = None /\ registered
        BY <3>1 DEF I!StartWorker, I!StartRefusal
      <4>2. slipped' <=> run.mode = "tracker" /\ run.at \in {"database", "config"}
        BY <3>1 DEF I!StartWorker
      <4>3. run.mode = "tracker" => run.at \in {"database", "config"}
        <5>1. run.at = "idle" => run.mode = "kshetra"
          BY <1>1 DEF OneName, I!Idle
        <5>. QED
          BY <1>1, <1>3, <4>1, <5>1 DEF PhasesTrue, Phases
      <4>. QED
        BY <1>1, <1>3, <2>1, <4>1, <4>2, <4>3 DEF WorkersTrue, I!Mode
    <3>2. CASE I!StopWorker
      BY <1>1, <2>1, <3>2 DEF WorkersTrue, I!StopWorker
    <3>. QED
      BY <1>14, <3>1, <3>2
  <2>. QED
    BY <2>2, <2>3, <2>4
<1>. HIDE DEF InitInv, I!repo, I!files, I!work
<1>15. CASE I!Next
  BY <1>6, <1>7, <1>8, <1>9, <1>10, <1>11, <1>12, <1>13, <1>14, <1>15 DEF I!Next
<1>. QED
  BY <1>5, <1>15

\* init.ts, kshetra.ts: through any number of stopped and repeated runs a repository is of one kind
\* and has one project, and no worker runs on a tracker's.
THEOREM OneKindAlways == Spec => []OneKind
<1>1. Init => MoveInv /\ InitInv
  BY MoveInit, InitInit DEF Init
<1>2. MoveInv /\ InitInv /\ [Next]_vars => (MoveInv /\ InitInv)'
  <2>1. [Next]_vars => [M!Next]_migrationVars /\ [I!Next]_initVars
    BY DEF Next, vars
  <2>. QED
    BY <2>1, MoveNext, InitNext
<1>3. MoveInv /\ InitInv => OneKind
  <2>. SUFFICES ASSUME MoveInv, InitInv PROVE OneKind
    OBVIOUS
  <2>1. M!TypeOK /\ I!TypeOK /\ M!OneProject
    BY MoveKeeps DEF MoveInv, MoveTypes, InitInv, InitTypes
  <2>2. I!OneKind
    <3>1. run.id \in {0} \cup I!Project /\ run.mode \in I!Mode /\ None \notin I!Project
      BY ProjectAssumption DEF InitInv, InitTypes, Runs, I!Project
    <3>. QED
      BY <3>1 DEF InitInv, PhasesTrue, Filed, I!OneKind, I!At, I!ProjectIn, I!Mode
  <2>3. I!TrackerUnworked
    BY DEF InitInv, WorkersTrue, I!TrackerUnworked
  <2>. QED
    BY <2>1, <2>2, <2>3 DEF OneKind
<1>. QED
  BY <1>1, <1>2, <1>3, PTL DEF Spec

\* kshetra.ts, init-kshetra.ts, restore.ts: however often a migration, an init or a restore is killed
\* and begun again, work is not undone, an undo leaves what was there before, the project a file
\* names is kept, and a restore that says so is whole.
THEOREM RerunsKeepAll == Spec => RerunsKeep
<1>1. Init => MoveInv /\ InitInv /\ SnapInv
  BY MoveInit, InitInit, SnapInit DEF Init
<1>2. [Next]_vars => [M!Next]_migrationVars /\ [I!Next]_initVars /\ [S!Next]_snapshotsVars
  BY DEF Next, vars
<1>3. MoveInv /\ InitInv /\ SnapInv /\ [Next]_vars => (MoveInv /\ InitInv /\ SnapInv)'
  BY <1>2, MoveNext, InitNext, SnapNext
<1>4. MoveInv /\ [Next]_vars => \A i \in DOMAIN project : i \notin DOMAIN project' => project[i] = 0 \/ late
  BY <1>2, MoveKeeps
<1>5. MoveInv => (pc = "forget" /\ pc' = "idle" /\ manifest' = None
                    => config = None /\ (\A f \in RepoFile : file[f] = "beads") /\ DOMAIN project = {})
  BY MoveKeeps
<1>6. InitInv /\ [Next]_vars => I!Named \subseteq I!Named' /\ (\A p, q \in I!Named' : p = q)
  <2>. SUFFICES ASSUME InitInv, [Next]_vars PROVE I!Named \subseteq I!Named' /\ (\A p, q \in I!Named' : p = q)
    OBVIOUS
  <2>1. InitInv' /\ I!Named \subseteq I!Named'
    BY <1>2, InitNext
  <2>. QED
    BY <2>1 DEF InitInv, OneName, I!Named
<1>7. SnapInv /\ [Next]_vars =>
        (said' = "restored" /\ said # "restored" /\ ~overlap
           => \E i \in 1..Len(snaps) : snaps[i].full /\ cur = snaps[i].part)
  BY <1>2, SnapWhole
<1>. QED
  BY <1>1, <1>3, <1>4, <1>5, <1>6, <1>7, PTL
     DEF Spec, RerunsKeep, M!WorkKept, M!UndoneExactly, I!OneProjectKept, S!WholeRestored

----------------------------------------------------------------------------
(* Exporting                                                                 *)

\* What is known of the graph that is exported.
LEMMA ExportGraph ==
  ASSUME graph \in Graphs
  PROVE  /\ E!Work \subseteq Bead /\ IsFiniteSet(E!Work)
         /\ E!Edges \subseteq E!Work \X E!Work /\ IsFiniteSet(E!Edges)
         /\ \A b \in Bead : graph.priority[b] \in Nat
<1>1. E!Work \in SUBSET Bead
  BY DEF E!Work
<1>2. E!Edges \in SUBSET (Bead \X Bead) /\ E!Edges \subseteq E!Work \X E!Work
  BY ExportAssumption DEF E!Edges
<1>3. IsFiniteSet(Bead \X Bead)
  BY ExportAssumption, FS_Product
<1>. QED
  BY <1>1, <1>2, <1>3, ExportAssumption, FS_Subset

\* An order the dependencies allow is a list of all the work, once.
LEMMA AllowedIs ==
  ASSUME graph \in Graphs, NEW s \in E!Allowed
  PROVE  /\ s \in Seq(E!Work) /\ Len(s) = Cardinality(E!Work) /\ Listed(s) = E!Work /\ Distinct(s)
         /\ \A e \in E!Edges, i, j \in 1 .. Len(s) : s[i] = e[1] /\ s[j] = e[2] => j < i
<1>1. E!Cardinality(E!Work) = Cardinality(E!Work)
  BY DEF E!Cardinality, Cardinality
<1>2. s \in E!SetToSeqs(E!Work) /\ \A e \in E!Edges, i, j \in DOMAIN s : s[i] = e[1] /\ s[j] = e[2] => j < i
  BY DEF E!Allowed
<1>3. /\ s \in [1 .. Cardinality(E!Work) -> E!Work]
      /\ \A i, j \in 1 .. Cardinality(E!Work) : i # j => s[i] # s[j]
  BY <1>1, <1>2 DEF E!SetToSeqs
<1>4. s \in Seq(E!Work) /\ Len(s) = Cardinality(E!Work) /\ Listed(s) = E!Work /\ Distinct(s)
  BY <1>3, ExportGraph, Permutes
<1>. QED
  BY <1>2, <1>4

\* The blockers a task still has.
Blockers(b) == {e \in E!Edges : e[1] = b /\ e[2] \in remaining}

\* s begins as what was picked, or what was picked comes first.
Leads(s) ==
  \/ \A i \in 1 .. Len(ordered) : s[i] = ordered[i]
  \/ \E k \in 1 .. Len(ordered) : E!Precedes(ordered[k], s[k]) /\ \A i \in 1 .. k - 1 : s[i] = ordered[i]

\* Of the work, each task is picked or remains; what is picked came after what it waits on, a
\* task's count is of the blockers that remain, and no allowed order comes before the one picked.
Picking ==
  /\ remaining \subseteq E!Work /\ Listed(ordered) = E!Work \ remaining /\ Distinct(ordered)
  /\ \A b \in Bead : indegree[b] = Cardinality(Blockers(b))
  /\ \A i \in 1 .. Len(ordered) : \A e \in E!Edges : e[1] = ordered[i] => \E j \in 1 .. i - 1 : ordered[j] = e[2]
  /\ \A s \in E!Allowed : Leads(s)

ExportInv ==
  /\ E!TypeOK /\ graph \in Graphs
  /\ xpc = "build" => ordered = <<>>
  /\ xpc # "build" => Picking
  /\ xpc \notin {"build", "sort"} => remaining = {}

LEMMA ExportInit == Init => ExportInv
<1>. SUFFICES ASSUME Init PROVE ExportInv
  OBVIOUS
<1>1. graph \in Graphs /\ xpc = "build" /\ ordered = <<>> /\ remaining = {} /\ indegree = [b \in Bead |-> 0]
  <2>1. CASE part = "export"
    BY <2>1 DEF Init, E!Init
  <2>2. CASE part # "export"
    BY <2>2, ExportAssumption DEF Init
  <2>. QED
    BY <2>1, <2>2
<1>2. indegree \in [Bead -> Nat] /\ ordered \in Seq(Bead)
  BY <1>1
<1>. QED
  BY <1>1, <1>2 DEF ExportInv, E!TypeOK

\* The work, the edges and so the allowed orders are those of the graph, which stays.
LEMMA SameWork ==
  ASSUME UNCHANGED <<graph, epic>>
  PROVE  /\ E!Work' = E!Work /\ E!Edges' = E!Edges /\ E!Allowed' = E!Allowed
         /\ \A a, b : E!Precedes(a, b)' = E!Precedes(a, b)
<1>1. E!Subtree' = E!Subtree
  BY DEF E!Subtree, E!Levels, E!ChildrenOf
<1>2. E!Work' = E!Work
  BY <1>1 DEF E!Work
<1>3. E!Edges' = E!Edges
  BY <1>2 DEF E!Edges
<1>. QED
  BY <1>2, <1>3 DEF E!Allowed, E!Precedes

LEMMA BuildStep ==
  ASSUME ExportInv, E!Build
  PROVE  ExportInv'
<1>1. /\ xpc = "build" /\ xpc' = "sort" /\ remaining' = E!Work /\ ordered = <<>> /\ ordered' = <<>>
      /\ indegree' = [b \in Bead |-> E!Cardinality({e \in E!Edges : e[1] = b})]
      /\ UNCHANGED <<graph, epic>> /\ graph \in Graphs
  BY DEF E!Build, ExportInv
<1>2. ASSUME NEW b \in Bead PROVE indegree'[b] = Cardinality(Blockers(b)') /\ indegree'[b] \in Nat
  <2>1. Blockers(b)' = {e \in E!Edges : e[1] = b}
    BY <1>1, SameWork, ExportGraph DEF Blockers
  <2>2. E!Cardinality({e \in E!Edges : e[1] = b}) = Cardinality({e \in E!Edges : e[1] = b})
    BY DEF E!Cardinality, Cardinality
  <2>3. IsFiniteSet({e \in E!Edges : e[1] = b})
    BY <1>1, ExportGraph, FS_Subset
  <2>. QED
    BY <1>1, <2>1, <2>2, <2>3, FS_CardinalityType
<1>3. E!TypeOK'
  <2>1. indegree' \in [Bead -> Nat]
    BY <1>1, <1>2
  <2>2. ordered' \in Seq(Bead)
    BY <1>1
  <2>. QED
    BY <1>1, <2>1, <2>2, ExportGraph DEF E!TypeOK
<1>4. Listed(ordered') = {} /\ Distinct(ordered') /\ Len(ordered') = 0
  BY <1>1, EmptyList
<1>5. Picking'
  <2>1. (remaining \subseteq E!Work /\ Listed(ordered) = E!Work \ remaining /\ Distinct(ordered))'
    BY <1>1, <1>4, SameWork
  <2>2. (\A b \in Bead : indegree[b] = Cardinality(Blockers(b)))'
    BY <1>2
  <2>3. (\A i \in 1 .. Len(ordered) : \A e \in E!Edges : e[1] = ordered[i] => \E j \in 1 .. i - 1 : ordered[j] = e[2])'
    BY <1>4
  <2>4. (\A s \in E!Allowed : Leads(s))'
    BY <1>4 DEF Leads
  <2>. QED
    BY <2>1, <2>2, <2>3, <2>4 DEF Picking
<1>. QED
  BY <1>1, <1>3, <1>5 DEF ExportInv

\* The next task of an allowed order that begins as what was picked has no blocker left.
LEMMA NextIsReady ==
  ASSUME ExportInv, Picking, NEW s \in E!Allowed, remaining # {}, \A i \in 1 .. Len(ordered) : s[i] = ordered[i]
  PROVE  /\ Len(ordered) + 1 \in 1 .. Len(s) /\ s[Len(ordered) + 1] \in remaining
         /\ Blockers(s[Len(ordered) + 1]) = {}
<1>. DEFINE n == Len(ordered)
            c == s[n + 1]
<1>1. /\ graph \in Graphs /\ n \in Nat /\ ordered \in Seq(Bead) /\ Distinct(ordered)
      /\ Listed(ordered) = E!Work \ remaining /\ remaining \subseteq E!Work
  BY DEF ExportInv, E!TypeOK, Picking
<1>2. /\ Len(s) \in Nat /\ Len(s) = Cardinality(E!Work) /\ Listed(s) = E!Work /\ Distinct(s)
      /\ \A e \in E!Edges, i, j \in 1 .. Len(s) : s[i] = e[1] /\ s[j] = e[2] => j < i
  BY <1>1, AllowedIs
<1>3. n < Len(s)
  <2>1. Listed(ordered) \subseteq E!Work /\ Listed(ordered) # E!Work /\ IsFiniteSet(E!Work)
    BY <1>1, ExportGraph
  <2>2. IsFiniteSet(Listed(ordered)) /\ Cardinality(Listed(ordered)) = n
    BY <1>1, ListCounts
  <2>3. Cardinality(Listed(ordered)) <= Cardinality(E!Work) /\ Cardinality(Listed(ordered)) # Cardinality(E!Work)
    BY <2>1, <2>2, FS_Subset
  <2>. QED
    BY <1>1, <1>2, <2>2, <2>3
<1>4. n + 1 \in 1 .. Len(s) /\ \A i \in 1 .. n : i \in 1 .. Len(s) /\ i # n + 1
  BY <1>1, <1>2, <1>3
<1>5. c \in E!Work
  BY <1>2, <1>4 DEF Listed
<1>6. c \notin Listed(ordered)
  <2>. SUFFICES ASSUME NEW i \in 1 .. n, ordered[i] = c PROVE FALSE
    BY DEF Listed
  <2>1. s[i] = s[n + 1]
    OBVIOUS
  <2>. QED
    BY <1>2, <1>4, <2>1 DEF Distinct
<1>7. c \in remaining
  BY <1>1, <1>5, <1>6
<1>8. ASSUME NEW e \in E!Edges, e[1] = c, e[2] \in remaining PROVE FALSE
  <2>1. PICK j \in 1 .. Len(s) : s[j] = e[2]
    BY <1>1, <1>2, <1>8 DEF Listed
  <2>2. j < n + 1
    BY <1>2, <1>4, <1>8, <2>1
  <2>3. j \in 1 .. n
    BY <1>1, <2>1, <2>2
  <2>4. ordered[j] = e[2]
    BY <2>1, <2>3
  <2>5. e[2] \in Listed(ordered)
    BY <2>3, <2>4 DEF Listed
  <2>. QED
    BY <1>1, <1>8, <2>5
<1>. QED
  BY <1>4, <1>7, <1>8 DEF Blockers

LEMMA PickStep ==
  ASSUME ExportInv, E!Pick
  PROVE  ExportInv'
<1>. DEFINE n == Len(ordered)
<1>1. /\ xpc = "sort" /\ xpc' = "sort" /\ remaining # {} /\ UNCHANGED <<graph, epic>> /\ Picking /\ graph \in Graphs
      /\ n \in Nat /\ ordered \in Seq(Bead) /\ remaining \subseteq Bead /\ indegree \in [Bead -> Nat]
  BY DEF E!Pick, ExportInv, E!TypeOK
<1>2. PICK b \in E!PickReady :
        /\ remaining' = remaining \ {b} /\ ordered' = Append(ordered, b)
        /\ indegree' = [c \in Bead |-> IF <<c, b>> \in E!Edges THEN indegree[c] - 1 ELSE indegree[c]]
  BY DEF E!Pick
<1>3. b \in remaining /\ indegree[b] = 0 /\ \A c \in remaining : indegree[c] = 0 => E!Before(b, c)
  BY DEF E!PickReady
<1>4. /\ b \in Bead /\ b \in E!Work /\ b \notin Listed(ordered)
      /\ E!Edges \subseteq E!Work \X E!Work
  BY <1>1, <1>3, ExportGraph DEF Picking
<1>5. \A c \in Bead : IsFiniteSet(Blockers(c)) /\ (Blockers(c) = {} <=> indegree[c] = 0)
  <2>1. \A c \in Bead : IsFiniteSet(Blockers(c))
    BY <1>1, ExportGraph, FS_Subset DEF Blockers
  <2>. QED
    BY <1>1, <2>1, FS_EmptySet DEF Picking
<1>6. /\ ordered' \in Seq(Bead) /\ Listed(ordered') = Listed(ordered) \cup {b} /\ Distinct(ordered')
      /\ Len(ordered') = n + 1 /\ ordered'[n + 1] = b /\ \A i \in 1 .. n : ordered'[i] = ordered[i]
  <2>1. Distinct(ordered)
    BY <1>1 DEF Picking
  <2>2. ordered' \in Seq(Bead) /\ Listed(ordered') = Listed(ordered) \cup {b} /\ Distinct(ordered')
    BY <1>1, <1>2, <1>4, <2>1, Appended
  <2>. QED
    BY <1>1, <1>2, <1>4, <2>2
<1>. HIDE DEF n
<1>7. ASSUME NEW c \in Bead PROVE indegree'[c] = Cardinality(Blockers(c)') /\ indegree'[c] \in Nat
  <2>1. Blockers(c)' = Blockers(c) \ {<<c, b>>}
    <3>1. \A e \in E!Edges : e = <<e[1], e[2]>>
      BY <1>4
    <3>2. Blockers(c)' = {e \in E!Edges : e[1] = c /\ e[2] \in remaining /\ e[2] # b}
      BY <1>1, <1>2, SameWork DEF Blockers
    <3>. QED
      BY <3>1, <3>2 DEF Blockers
  <2>2. <<c, b>> \in E!Edges <=> <<c, b>> \in Blockers(c)
    BY <1>3 DEF Blockers
  <2>3. /\ IsFiniteSet(Blockers(c)')
        /\ Cardinality(Blockers(c)') = IF <<c, b>> \in Blockers(c) THEN Cardinality(Blockers(c)) - 1 ELSE Cardinality(Blockers(c))
    <3>1. IsFiniteSet(Blockers(c))
      BY <1>5
    <3>. DEFINE B == Blockers(c)
    <3>2. /\ IsFiniteSet(B \ {<<c, b>>})
          /\ Cardinality(B \ {<<c, b>>}) = IF <<c, b>> \in B THEN Cardinality(B) - 1 ELSE Cardinality(B)
      <4>. HIDE DEF B
      <4>1. IsFiniteSet(B)
        BY <3>1 DEF B
      <4>. QED
        BY <4>1, FS_RemoveElement
    <3>. QED
      BY <2>1, <3>2
  <2>4. indegree[c] = Cardinality(Blockers(c))
    BY <1>1 DEF Picking
  <2>5. Cardinality(Blockers(c)') \in Nat
    BY <2>3, FS_CardinalityType
  <2>. QED
    BY <1>2, <2>2, <2>3, <2>4, <2>5
<1>8. E!TypeOK'
  <2>1. indegree' \in [Bead -> Nat]
    BY <1>2, <1>7
  <2>. QED
    BY <1>1, <1>2, <1>6, <2>1 DEF E!TypeOK
<1>9. ASSUME NEW i \in 1 .. n + 1, NEW e \in E!Edges, e[1] = ordered'[i]
      PROVE  \E j \in 1 .. i - 1 : ordered'[j] = e[2]
  <2>1. CASE i \in 1 .. n
    <3>1. PICK j \in 1 .. i - 1 : ordered[j] = e[2]
      BY <1>1, <1>6, <1>9, <2>1 DEF Picking, n
    <3>2. j \in 1 .. n
      BY <1>1, <2>1
    <3>. QED
      BY <1>6, <3>1, <3>2
  <2>2. CASE i = n + 1
    <3>1. e[1] = b /\ Blockers(b) = {}
      BY <1>3, <1>4, <1>5, <1>6, <1>9, <2>2
    <3>2. e[2] \in E!Work /\ e[2] \notin remaining
      BY <1>4, <3>1 DEF Blockers
    <3>3. e[2] \in Listed(ordered)
      BY <1>1, <3>2 DEF Picking
    <3>4. PICK j \in 1 .. n : ordered[j] = e[2]
      BY <3>3 DEF Listed, n
    <3>. QED
      BY <1>1, <1>6, <2>2, <3>4
  <2>. QED
    BY <1>1, <2>1, <2>2
<1>10. ASSUME NEW s \in E!Allowed PROVE Leads(s)'
  <2>1. CASE \E k \in 1 .. n : E!Precedes(ordered[k], s[k]) /\ \A i \in 1 .. k - 1 : s[i] = ordered[i]
    <3>1. PICK k \in 1 .. n : E!Precedes(ordered[k], s[k]) /\ \A i \in 1 .. k - 1 : s[i] = ordered[i]
      BY <2>1
    <3>2. k \in 1 .. n + 1 /\ ordered'[k] = ordered[k] /\ \A i \in 1 .. k - 1 : ordered'[i] = ordered[i]
      BY <1>1, <1>6
    <3>3. E!Precedes(ordered[k], s[k])'
      BY <1>1, <1>6, <3>1, <3>2 DEF E!Precedes
    <3>. QED
      BY <1>6, <3>1, <3>2, <3>3 DEF Leads
  <2>2. CASE \A i \in 1 .. n : s[i] = ordered[i]
    <3>0. PICK m \in Nat : m = n + 1
      BY <1>1
    <3>. DEFINE c == s[m]
    <3>1. c \in remaining /\ Blockers(c) = {}
      BY <1>1, <2>2, <3>0, NextIsReady DEF n
    <3>2. E!Before(b, c) /\ c \in Bead
      BY <1>1, <1>3, <1>5, <3>1
    <3>3. b \in Nat /\ c \in Nat /\ graph.priority[b] \in Nat /\ graph.priority[c] \in Nat
      BY <1>1, <1>4, <3>2, ExportAssumption
    <3>4. CASE c = b
      <4>1. \A i \in 1 .. n + 1 : i \in 1 .. n \/ i = m
        BY <1>1, <3>0
      <4>. QED
        BY <1>6, <2>2, <3>0, <3>4, <4>1 DEF Leads
    <3>5. CASE c # b
      <4>1. E!Precedes(b, c)
        BY <3>2, <3>3, <3>5 DEF E!Before, E!Precedes
      <4>2. m \in 1 .. n + 1 /\ \A i \in 1 .. m - 1 : i \in 1 .. n /\ s[i] = ordered'[i]
        BY <1>1, <1>6, <2>2, <3>0
      <4>3. E!Precedes(ordered[m], s[m])'
        BY <1>1, <1>6, <3>0, <4>1 DEF E!Precedes
      <4>. QED
        BY <1>6, <4>2, <4>3 DEF Leads
    <3>. QED
      BY <3>4, <3>5
  <2>. QED
    BY <1>1, <2>1, <2>2 DEF Picking, Leads, n
<1>11. Picking'
  <2>1. (remaining \subseteq E!Work /\ Listed(ordered) = E!Work \ remaining /\ Distinct(ordered))'
    BY <1>1, <1>2, <1>3, <1>4, <1>6, SameWork DEF Picking
  <2>2. (\A c \in Bead : indegree[c] = Cardinality(Blockers(c)))'
    BY <1>7
  <2>3. (\A i \in 1 .. Len(ordered) : \A e \in E!Edges : e[1] = ordered[i] => \E j \in 1 .. i - 1 : ordered[j] = e[2])'
    BY <1>1, <1>6, <1>9, SameWork
  <2>4. (\A s \in E!Allowed : Leads(s))'
    BY <1>1, <1>10, SameWork
  <2>. QED
    BY <2>1, <2>2, <2>3, <2>4 DEF Picking
<1>. QED
  BY <1>1, <1>8, <1>11 DEF ExportInv

LEMMA ExportNext == ExportInv /\ [E!Next]_exportVars => ExportInv'
<1>. SUFFICES ASSUME ExportInv, [E!Next]_exportVars PROVE ExportInv'
  OBVIOUS
<1>1. ASSUME UNCHANGED <<graph, epic, indegree, remaining, ordered>>, Picking PROVE Picking'
  <2>1. (remaining \subseteq E!Work /\ Listed(ordered) = E!Work \ remaining /\ Distinct(ordered))'
    BY <1>1, SameWork DEF Picking
  <2>2. \A b : Blockers(b)' = Blockers(b)
    BY <1>1, SameWork DEF Blockers
  <2>3. (\A b \in Bead : indegree[b] = Cardinality(Blockers(b)))'
    BY <1>1, <2>2 DEF Picking
  <2>4. (\A i \in 1 .. Len(ordered) : \A e \in E!Edges : e[1] = ordered[i] => \E j \in 1 .. i - 1 : ordered[j] = e[2])'
    BY <1>1, SameWork DEF Picking
  <2>5. \A s : Leads(s)' = Leads(s)
    BY <1>1 DEF Leads, E!Precedes
  <2>6. (\A s \in E!Allowed : Leads(s))'
    BY <1>1, <2>5, SameWork DEF Picking
  <2>. QED
    BY <2>1, <2>3, <2>4, <2>6 DEF Picking
<1>2. CASE E!Sorted \/ E!Write
  <2>1. /\ xpc # "build" /\ xpc' \in {"guard", "written", "refused"} /\ remaining = {}
        /\ UNCHANGED <<graph, epic, indegree, remaining, ordered>>
    BY <1>2 DEF E!Sorted, E!Write, ExportInv
  <2>2. E!TypeOK'
    BY <2>1 DEF ExportInv, E!TypeOK
  <2>. QED
    BY <1>1, <2>1, <2>2 DEF ExportInv
<1>3. CASE UNCHANGED exportVars
  <2>1. UNCHANGED <<graph, epic, indegree, remaining, ordered, xpc>>
    BY <1>3 DEF exportVars
  <2>. QED
    BY <1>1, <2>1 DEF ExportInv, E!TypeOK
<1>. QED
  BY <1>2, <1>3, BuildStep, PickStep DEF E!Next

\* When nothing remains, what was picked is allowed, and comes before every other such order.
LEMMA ExportInvOrders == ExportInv => ExportsInOrder
<1>. SUFFICES ASSUME ExportInv, xpc = "written"
              PROVE  ordered \in E!Allowed /\ \A s \in E!Allowed : s = ordered \/ E!Earlier(ordered, s)
  BY DEF ExportInv, ExportsInOrder, E!FirstOrder
<1>1. /\ remaining = {} /\ graph \in Graphs /\ ordered \in Seq(Bead) /\ Listed(ordered) = E!Work
      /\ Distinct(ordered) /\ Picking
  BY DEF ExportInv, E!TypeOK, Picking
<1>2. Len(ordered) = Cardinality(E!Work) /\ Len(ordered) \in Nat
  BY <1>1, ListCounts
<1>3. ordered \in [1 .. Cardinality(E!Work) -> E!Work]
  BY <1>1, <1>2 DEF Listed
<1>4. E!Cardinality(E!Work) = Cardinality(E!Work)
  BY DEF E!Cardinality, Cardinality
<1>5. ordered \in E!SetToSeqs(E!Work)
  BY <1>1, <1>2, <1>3, <1>4 DEF E!SetToSeqs, Distinct
<1>6. ASSUME NEW e \in E!Edges, NEW i \in DOMAIN ordered, NEW j \in DOMAIN ordered,
             ordered[i] = e[1], ordered[j] = e[2]
      PROVE  j < i
  <2>1. i \in 1 .. Len(ordered) /\ j \in 1 .. Len(ordered)
    BY <1>1
  <2>2. PICK k \in 1 .. i - 1 : ordered[k] = e[2]
    BY <1>1, <1>6, <2>1 DEF Picking
  <2>3. k \in 1 .. Len(ordered) /\ k < i
    BY <1>2, <2>1
  <2>4. k = j
    BY <1>1, <1>6, <2>1, <2>2, <2>3 DEF Distinct
  <2>. QED
    BY <2>3, <2>4
<1>7. ASSUME NEW s \in E!Allowed PROVE s = ordered \/ E!Earlier(ordered, s)
  <2>1. s \in Seq(E!Work) /\ Len(s) = Len(ordered)
    BY <1>1, <1>2, AllowedIs
  <2>2. CASE \A i \in 1 .. Len(ordered) : s[i] = ordered[i]
    <3>1. s \in [1 .. Len(ordered) -> E!Work] /\ ordered \in [1 .. Len(ordered) -> E!Work]
      BY <1>2, <1>3, <2>1
    <3>2. s = ordered
      BY <2>2, <3>1
    <3>. QED
      BY <3>2
  <2>3. CASE \E k \in 1 .. Len(ordered) : E!Precedes(ordered[k], s[k]) /\ \A i \in 1 .. k - 1 : s[i] = ordered[i]
    BY <1>1, <2>3 DEF E!Earlier
  <2>. QED
    BY <1>1, <2>2, <2>3 DEF Picking, Leads
<1>. QED
  BY <1>5, <1>6, <1>7 DEF E!Allowed

\* export.ts topoOrder ("Same graph -> same order, every run"), for every finite graph and
\* scope: what is written lists each task once after what it waits on, and of all such orders
\* it is the first by priority and id.
THEOREM ExportsAreInOrder == Spec => []ExportsInOrder
<1>1. ExportInv /\ [Next]_vars => ExportInv'
  <2>1. [Next]_vars => [E!Next]_exportVars
    BY DEF Next, vars
  <2>. QED
    BY <2>1, ExportNext
<1>. QED
  BY <1>1, ExportInit, ExportInvOrders, PTL DEF Spec

=============================================================================
