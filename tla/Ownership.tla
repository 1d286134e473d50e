----------------------------- MODULE Ownership -----------------------------
(***************************************************************************)
(* Who works a Kshetra on one machine (pid.ts, start.ts, stop.ts,          *)
(* worker.ts): worker.pid names the owner; claims and releases of it run   *)
(* under a lock file made with O_EXCL, and a lock that has outlived its    *)
(* time is broken by whoever waits for it.  A drain claims for itself;     *)
(* start spawns a daemon, which claims for itself, and claims for it too;  *)
(* stop reads worker.pid and signals, or clears a pid that is not alive.   *)
(***************************************************************************)
EXTENDS Naturals, FiniteSets

CONSTANTS
  Proc,          \* process ids of workers, each started once
  Cmd,           \* invocations of shreni start and shreni stop
  None

Actor == Proc \cup Cmd

VARIABLES
  pidfile,       \* worker.pid
  lock,          \* worker.pid.lock: the actor that made it, or None
  old,           \* the lock file has outlived LOCK_STALE_MS
  os,            \* what runs under each pid: none yet, a worker, another program, nothing
  job,           \* what each actor does: [pc, for (the pid it claims), sees]
  spoiled        \* a file other than the one looked at was removed

vars == <<pidfile, lock, old, os, job, spoiled>>

Job(pc, p) == [pc |-> pc, for |-> p, sees |-> None]
Idle == Job("idle", None)
Inside == {"in", "write", "clear", "unlock", "drop"}   \* withClaimLock has the lock file
Waiting == {"claim", "release"}

TypeOK ==
  /\ pidfile \in Proc \cup {None} /\ lock \in Actor \cup {None} /\ old \in BOOLEAN
  /\ os \in [Proc -> {"unborn", "worker", "other", "dead"}]
  /\ \A a \in Actor : job[a].pc \in {"idle", "own", "break", "signal", "wipe", "done"}
                                     \cup Waiting \cup Inside
  /\ spoiled \in BOOLEAN

Init ==
  /\ pidfile = None /\ lock = None /\ old = FALSE
  /\ os = [p \in Proc |-> "unborn"]
  /\ job = [a \in Actor |-> Idle]
  /\ spoiled = FALSE

\* isAlive asks the system; isLiveWorker also looks at the command line.
IsAlive(p) == os[p] \in {"worker", "other"}
IsLiveWorker(p) == p # None /\ os[p] = "worker"

Goto(a, pc) == job' = [job EXCEPT ![a].pc = pc]
Ends(a) == job' = [job EXCEPT ![a] = Job("done", None)]

----------------------------------------------------------------------------
\* withClaimLock: makes the lock file.  AcquireAnyway does not wait for it to be gone.
AcquireAnyway(a) == TRUE
MayAcquire(a) == lock = None

Acquire(a) ==
  /\ job[a].pc \in Waiting /\ MayAcquire(a)
  /\ lock' = a /\ old' = FALSE
  /\ job' = [job EXCEPT ![a].pc = IF job[a].pc = "claim" THEN "in" ELSE "drop"]
  /\ UNCHANGED <<pidfile, os, spoiled>>

\* It finds the lock file old: unlinks it, which may be another by then, and tries again.
FindsOld(a) ==
  /\ job[a].pc \in Waiting /\ lock # None /\ old
  /\ job' = [job EXCEPT ![a].pc = "break", ![a].sees = <<lock, job[a].pc>>]
  /\ UNCHANGED <<pidfile, lock, old, os, spoiled>>

Break(a) ==
  /\ job[a].pc = "break"
  /\ spoiled' = (spoiled \/ (lock # None /\ ~(lock = job[a].sees[1] /\ old)))
  /\ lock' = None /\ old' = FALSE
  /\ job' = [job EXCEPT ![a].pc = job[a].sees[2], ![a].sees = None]
  /\ UNCHANGED <<pidfile, os>>

\* 500 tries: a claim throws, and a release is left undone.
GiveUp(a) ==
  /\ job[a].pc \in Waiting /\ lock # None /\ ~old
  /\ Ends(a)
  /\ os' = IF a \in Proc THEN [os EXCEPT ![a] = "dead"] ELSE os
  /\ UNCHANGED <<pidfile, lock, old, spoiled>>

\* Nobody is left to remove the lock file, and it ages.
Ages ==
  /\ lock # None /\ ~old /\ job[lock].pc \notin Inside
  /\ old' = TRUE
  /\ UNCHANGED <<pidfile, lock, os, job, spoiled>>

\* claimWorkerPid, inside the lock: refused by a live owner, else the file is replaced.
Judge(a) ==
  LET p == job[a].for IN
  /\ job[a].pc = "in"
  /\ job' = [job EXCEPT ![a] =
               [@ EXCEPT !.sees = pidfile,
                         !.pc = IF pidfile # p /\ IsLiveWorker(pidfile)
                                THEN "unlock" ELSE "write"]]
  /\ UNCHANGED <<pidfile, lock, old, os, spoiled>>

Write(a) ==
  /\ job[a].pc = "write"
  /\ pidfile' = job[a].for
  /\ job' = [job EXCEPT ![a].pc = "unlock", ![a].sees = job[a].for]
  /\ UNCHANGED <<lock, old, os, spoiled>>

\* The lock file goes, whoever made it.  The claimer owns the Kshetra or was refused: a
\* refused worker exits; a refused start signals the child it spawned.
Unlock(a) ==
  LET ok == job[a].sees = job[a].for IN
  /\ job[a].pc = "unlock"
  /\ lock' = None /\ old' = FALSE
  /\ spoiled' = (spoiled \/ lock \notin {a, None})
  /\ \/ a \in Proc /\ ok /\ Goto(a, "own") /\ UNCHANGED os
     \/ a \in Proc /\ ~ok /\ Ends(a) /\ os' = [os EXCEPT ![a] = "dead"]
     \/ a \in Cmd /\ (IF ok THEN Ends(a) ELSE Goto(a, "signal")) /\ UNCHANGED os
  /\ UNCHANGED <<pidfile>>

\* releaseWorkerPid, inside the lock: only a file that names this process is removed.
Drop(p) ==
  /\ job[p].pc = "drop"
  /\ pidfile' = IF pidfile = p THEN None ELSE pidfile
  /\ lock' = None /\ old' = FALSE
  /\ spoiled' = (spoiled \/ lock \notin {p, None})
  /\ Ends(p)
  /\ os' = [os EXCEPT ![p] = "dead"]

----------------------------------------------------------------------------
\* shreni drain, or __worker called directly: claims for itself before anything else.
Drain(p) ==
  /\ os[p] = "unborn"
  /\ os' = [os EXCEPT ![p] = "worker"]
  /\ job' = [job EXCEPT ![p] = Job("claim", p)]
  /\ UNCHANGED <<pidfile, lock, old, spoiled>>

\* shreni start: nothing while a live worker is named; else spawns a child.
Start(c, p) ==
  /\ c \in Cmd /\ job[c] = Idle /\ os[p] = "unborn"
  /\ \/ /\ IsLiveWorker(pidfile)
        /\ Ends(c) /\ UNCHANGED os
     \/ /\ ~IsLiveWorker(pidfile)
        /\ os' = [os EXCEPT ![p] = "worker"]
        /\ job' = [job EXCEPT ![p] = Job("claim", p), ![c] = Job("claim", p)]
  /\ UNCHANGED <<pidfile, lock, old, spoiled>>

\* SIGTERM: an owner has its handler set and leaves in its own time, a process that is
\* still claiming dies where it is, and so does any other program.
Signal(p) ==
  /\ os' = IF IsAlive(p) /\ ~(os[p] = "worker" /\ job[p].pc \in {"own", "release", "drop"})
             THEN [os EXCEPT ![p] = "dead"] ELSE os

Terminate(c) ==
  LET p == job[c].for IN
  /\ c \in Cmd /\ job[c].pc = "signal"
  /\ Signal(p)
  /\ job' = [job EXCEPT ![c] = Job("done", None),
                        ![p] = IF os'[p] = "dead" THEN Job("done", None) ELSE @]
  /\ UNCHANGED <<pidfile, lock, old, spoiled>>

\* shreni stop: nothing to stop; a pid that is alive is signalled; any other is cleared.
Stop(c) ==
  /\ c \in Cmd /\ job[c] = Idle
  /\ job' = [job EXCEPT ![c] =
               IF pidfile = None THEN Job("done", None)
               ELSE IF IsAlive(pidfile) THEN Job("signal", pidfile)
               ELSE [Job("wipe", pidfile) EXCEPT !.sees = pidfile]]
  /\ UNCHANGED <<pidfile, lock, old, os, spoiled>>

\* clearPid, with no lock and no second look.
Wipe(c) ==
  /\ c \in Cmd /\ job[c].pc = "wipe"
  /\ pidfile' = None
  /\ spoiled' = (spoiled \/ pidfile \notin {None, job[c].sees})
  /\ Ends(c)
  /\ UNCHANGED <<lock, old, os>>

\* A worker ends its work, because it was told to or of its own accord, and releases.
Leave(p) ==
  /\ p \in Proc /\ job[p].pc = "own"
  /\ Goto(p, "release")
  /\ UNCHANGED <<pidfile, lock, old, os, spoiled>>

\* kill -9, wherever it is.
Crash(p) ==
  /\ os[p] = "worker"
  /\ os' = [os EXCEPT ![p] = "dead"]
  /\ Ends(p)
  /\ UNCHANGED <<pidfile, lock, old, spoiled>>

\* The system gives a dead worker's pid to some other program.
Recycle(p) ==
  /\ os[p] = "dead"
  /\ os' = [os EXCEPT ![p] = "other"]
  /\ UNCHANGED <<pidfile, lock, old, job, spoiled>>

Next ==
  \/ \E a \in Actor :
       Acquire(a) \/ FindsOld(a) \/ Break(a) \/ GiveUp(a) \/ Judge(a) \/ Write(a) \/ Unlock(a)
  \/ \E p \in Proc : Drain(p) \/ Leave(p) \/ Drop(p) \/ Crash(p) \/ Recycle(p)
  \/ \E c \in Cmd : Stop(c) \/ Wipe(c) \/ Terminate(c) \/ \E p \in Proc : Start(c, p)
  \/ Ages

Spec == Init /\ [][Next]_vars

----------------------------------------------------------------------------
\* One Kshetra, one worker: whoever works the checkout is the one worker.pid names, so a
\* second is refused and stop finds the first; unless a lock was broken after another
\* took its place, or stop cleared a pid that had been claimed since it looked.
OwnerListed == \A p \in Proc : job[p].pc \in {"own", "release"} => pidfile = p \/ spoiled

=============================================================================
