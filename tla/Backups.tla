------------------------------ MODULE Backups ------------------------------
(***************************************************************************)
(* Dumps of one database into ~/.shreni/backups (policy/db/backups.ts,     *)
(* cli/db.ts): processes take a lock file, linked into place with its      *)
(* content whole, dump under a temporary name and rename.  A lock whose    *)
(* process is gone is moved aside, and put back if it was another's.  Only *)
(* daily dumps are pruned.  A migration waits for a dump of its own.       *)
(***************************************************************************)
EXTENDS Naturals, FiniteSets

CONSTANTS
  Proc,          \* processes that dump, each once
  KindOf,        \* why each dumps: daily, manual, pre-migrate
  Keep,          \* KEEP_DAILY
  MaxTime,       \* bound: the clock, whose value is in a dump's name
  None

VARIABLES
  lock,          \* the lock file: the process that made it, or None
  aside,         \* what each process moved aside, or None
  saw,           \* the lock each process read
  pc, name,
  partial,       \* each .partial file: who writes it now, and how whole it is
  dumps,         \* the dumps: [name, whole]
  clock,
  failed,        \* when the last daily dump failed, if none has succeeded since
  gone,          \* processes that were killed
  ousted,        \* processes whose lock was lost to a mistaken take-over
  migrated       \* the dump each migration went ahead on, or None

vars == <<lock, aside, saw, pc, name, partial, dumps, clock, failed, gone, ousted, migrated>>

Name == [at : 0..MaxTime, kind : {"daily", "manual", "pre-migrate"}]
Working == {"clean", "dump", "finish", "unlock"}

TypeOK ==
  /\ lock \in Proc \cup {None} /\ aside \in [Proc -> Proc \cup {None}] /\ saw \in [Proc -> Proc \cup {None}]
  /\ pc \in [Proc -> {"start", "look", "take", "back", "done"} \cup Working]
  /\ \A d \in dumps : d.name \in Name /\ d.whole \in BOOLEAN
  /\ gone \subseteq Proc /\ ousted \subseteq Proc

Init ==
  /\ \E dead \in Proc \cup {None} :       \* a killed dump may have left its lock
       /\ lock = dead /\ gone = {dead} \ {None}
       /\ pc = [p \in Proc |-> IF p = dead THEN "done" ELSE "start"]
  /\ aside = [p \in Proc |-> None] /\ saw = [p \in Proc |-> None]
  /\ name = [p \in Proc |-> None] /\ partial = [n \in Name |-> [by |-> None, whole |-> FALSE]]
  /\ dumps = {} /\ clock = 0 /\ failed = None /\ ousted = {} /\ migrated = [p \in Proc |-> None]

Daily(p) == KindOf[p] = "daily"
Goto(p, to) == pc' = [pc EXCEPT ![p] = to]
files == <<partial, dumps, name, failed>>

----------------------------------------------------------------------------
\* startDailyIfDue: not while the newest dump is of this day, another runs, or the last
\* one failed a short while ago.
Due == failed # clock /\ \A d \in dumps : d.name.at < clock
Held(l) == l # None /\ l \notin gone

NotDue(p) ==
  /\ pc[p] = "start" /\ Daily(p) /\ (~Due \/ Held(lock))
  /\ Goto(p, "done")
  /\ UNCHANGED <<lock, aside, saw, files, clock, gone, ousted, migrated>>

\* acquire: link the lock, whole, unless there is one.
Acquire(p) ==
  /\ \/ pc[p] = "start" /\ (Daily(p) => Due /\ ~Held(lock))
     \/ pc[p] = "look"
  /\ \/ lock = None /\ lock' = p /\ Goto(p, "clean") /\ UNCHANGED saw
     \/ lock # None /\ saw' = [saw EXCEPT ![p] = lock] /\ Goto(p, "take") /\ UNCHANGED lock
  /\ UNCHANGED <<aside, files, clock, gone, ousted, migrated>>

\* The lock it read is held: a daily dump leaves, another waits, and gives up in the end;
\* or it is stale and is moved aside, whatever is there by now.
Look(p) ==
  /\ pc[p] = "take"
  /\ \/ Held(saw[p]) /\ Goto(p, "done") /\ UNCHANGED <<lock, aside>>
     \/ Held(saw[p]) /\ ~Daily(p) /\ Goto(p, "look") /\ UNCHANGED <<lock, aside>>
     \/ /\ ~Held(saw[p])
        /\ aside' = [aside EXCEPT ![p] = lock] /\ lock' = None /\ Goto(p, "back")
  /\ UNCHANGED <<saw, files, clock, gone, ousted, migrated>>

\* takeOverStale: what it moved is dropped if it is the stale lock, else put back; if a
\* third has locked since, the one moved by mistake is lost.
NeverBack(p) == FALSE
PutsBack(p) == aside[p] # None /\ aside[p] # saw[p]
PutBack(p) ==
  /\ pc[p] = "back"
  /\ aside' = [aside EXCEPT ![p] = None] /\ Goto(p, "look")
  /\ lock' = IF PutsBack(p) /\ lock = None THEN aside[p] ELSE lock
  /\ ousted' = IF PutsBack(p) /\ lock # None THEN ousted \cup {aside[p]} ELSE ousted
  /\ UNCHANGED <<saw, files, clock, gone, migrated>>

----------------------------------------------------------------------------
\* The .partial files of killed dumps are removed, as no one else dumps; the dump's name
\* has the time and why.
Clean(p) ==
  /\ pc[p] = "clean"
  /\ partial' = [n \in Name |-> [by |-> None, whole |-> FALSE]]
  /\ name' = [name EXCEPT ![p] = [at |-> clock, kind |-> KindOf[p]]]
  /\ Goto(p, "dump")
  /\ UNCHANGED <<lock, aside, saw, dumps, clock, failed, gone, ousted, migrated>>

\* pg_dump opens the file; it is whole at its end, if it is still the one in the place.
Dump(p) ==
  /\ pc[p] = "dump" /\ Goto(p, "finish")
  /\ partial' = [partial EXCEPT ![name[p]] = [by |-> p, whole |-> FALSE]]
  /\ UNCHANGED <<lock, aside, saw, dumps, name, clock, failed, gone, ousted, migrated>>

\* The rename, and after a daily dump the pruning; or the dump fails.
Oldest(ds) == {d \in ds : Cardinality({e \in ds : e.name.at > d.name.at}) >= Keep}
PruneAll(ds) == Oldest(ds)
Prunable(ds) == Oldest({d \in ds : d.name.kind = "daily"})

\* takeDump: a daily dump that fails is recorded.
FailedSince(p) == IF Daily(p) THEN clock ELSE failed

Finish(p) ==
  LET mine == partial[name[p]].by = p
      with == {d \in dumps : d.name # name[p]} \cup
              {[name |-> name[p], whole |-> mine]} IN
  /\ pc[p] = "finish" /\ Goto(p, "unlock")
  /\ partial' = [partial EXCEPT ![name[p]] = [by |-> None, whole |-> FALSE]]
  /\ \/ /\ partial[name[p]].by # None          \* renames what is in the place
        /\ dumps' = IF Daily(p) THEN with \ Prunable(with) ELSE with
        /\ migrated' = IF KindOf[p] = "pre-migrate" THEN [migrated EXCEPT ![p] = name[p]] ELSE migrated
        /\ failed' = None
     \/ /\ failed' = FailedSince(p)
        /\ UNCHANGED <<dumps, migrated>>
  /\ UNCHANGED <<lock, aside, saw, name, clock, gone, ousted>>

\* The lock is removed if it is still its own.
OwnLock(p) == lock = p
Unlock(p) ==
  /\ pc[p] = "unlock" /\ Goto(p, "done")
  /\ lock' = IF OwnLock(p) THEN None ELSE lock
  /\ UNCHANGED <<aside, saw, files, clock, gone, ousted, migrated>>

\* A process is killed wherever it is.
Kill(p) ==
  /\ pc[p] # "done" /\ p \notin gone /\ gone' = gone \cup {p} /\ Goto(p, "done")
  /\ ousted' = IF aside[p] \notin {None, saw[p]} THEN ousted \cup {aside[p]} ELSE ousted
  /\ UNCHANGED <<lock, aside, saw, files, clock, migrated>>
Tick ==
  /\ clock < MaxTime /\ clock' = clock + 1
  /\ UNCHANGED <<lock, aside, saw, pc, files, gone, ousted, migrated>>

Next ==
  \/ \E p \in Proc : \/ NotDue(p) \/ Acquire(p) \/ Look(p) \/ PutBack(p) \/ Clean(p) \/ Dump(p)
                     \/ Finish(p) \/ Unlock(p) \/ Kill(p)
  \/ Tick

Spec == Init /\ [][Next]_vars

----------------------------------------------------------------------------
\* One dump at a time, through stale locks that several processes find at once, unless a
\* lock that was moved by mistake could not be put back.
OneDumper ==
  \/ \A p, q \in Proc : pc[p] \in Working /\ pc[q] \in Working => p = q
  \/ ousted # {} \/ \E p \in Proc : aside[p] \notin {None, saw[p]}

\* A migration goes ahead on a dump that is there and stays there: pruning, which runs
\* after daily dumps, leaves every other kind alone.
MigrationsBackedUp ==
  \A p \in Proc : migrated[p] # None => \E d \in dumps : d.name = migrated[p]

=============================================================================
