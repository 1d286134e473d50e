------------------------------- MODULE Agents -------------------------------
(***************************************************************************)
(* Agent processes and what they cost (runner.ts, agent-procs.ts,          *)
(* budget-policy.ts, spend.ts): a worker runs agents, each the leader of   *)
(* a process group of its own and recorded in a file while it runs; a      *)
(* worker that is killed leaves them running, and the next one stops them  *)
(* before it claims anything.  A run is retried on transient errors, each  *)
(* attempt a session of its own in the ledger.  SIGKILL takes effect at    *)
(* once, except where recovery waits for it.                               *)
(***************************************************************************)
EXTENDS Naturals, FiniteSets

CONSTANTS
  Pid,           \* process ids agents get
  Run,           \* runs of a worker that overlap: Silpi and a backfill
  MaxStarts,     \* bound: workers started
  MaxAttempts,   \* MAX_ATTEMPTS
  MaxReuse,      \* bound: pids given to other programs
  Cap,           \* perKshetraUsd, in attempts
  None

VARIABLES
  up,            \* down, starting, ready
  inst,          \* the number of the worker; worker pids are told apart by it
  reused,        \* dead workers whose pid another program has
  proc,          \* each pid: [is, leader, kids, by, noted]
  file,          \* the record on disk for each pid: its worker, or 0
  run,           \* each run of the worker: [pc, pid, attempt]
  suite,         \* workers with a suite running in their own group
  ledger,        \* each run's session: none, open, closed, twice
  spend, reuses

vars == <<up, inst, reused, proc, file, run, suite, ledger, spend, reuses>>
world == <<reused, reuses>>

\* What runs under a pid: nothing, an agent's group, another program's group, the remains
\* of one whose leader is gone.
Gone == [is |-> "nothing", leader |-> FALSE, kids |-> FALSE, by |-> 0, noted |-> FALSE]
Still == [pc |-> "idle", pid |-> None, attempt |-> 0]

TypeOK ==
  /\ up \in {"down", "starting", "ready"} /\ inst \in 0..MaxStarts
  /\ proc \in [Pid -> [is : {"nothing", "agent", "other"}, leader : BOOLEAN, kids : BOOLEAN,
                       by : 0..MaxStarts, noted : BOOLEAN]]
  /\ file \in [Pid -> 0..MaxStarts] /\ suite \subseteq 1..MaxStarts
  /\ run \in [Run -> [pc : {"idle", "attempt", "spawned", "live", "closing", "backoff"},
                      pid : Pid \cup {None}, attempt : 0..MaxAttempts]]
  /\ ledger \in [Run -> {"none", "open", "closed", "twice"}]

Init ==
  /\ up = "down" /\ inst = 0 /\ reused = {}
  /\ proc = [p \in Pid |-> Gone] /\ file = [p \in Pid |-> 0] /\ suite = {}
  /\ run = [r \in Run |-> Still] /\ ledger = [r \in Run |-> "none"]
  /\ spend = 0 /\ reuses = 0

----------------------------------------------------------------------------
\* A run.  mayProceed is asked once, on what the ledger of usage shows so far.
MayProceedAlways == TRUE
SpendSoFar == spend                 \* folded from usage.jsonl
MayProceed == SpendSoFar < Cap

StartRun(r) ==
  /\ up = "ready" /\ run[r].pc = "idle" /\ MayProceed
  /\ run' = [run EXCEPT ![r] = [pc |-> "attempt", pid |-> None, attempt |-> 1]]
  /\ ledger' = [ledger EXCEPT ![r] = "open"]
  /\ UNCHANGED <<up, inst, proc, file, suite, spend, world>>

\* runAttempt: spawn, then the record, whose write may fail.
Spawn(r, p) ==
  /\ up = "ready" /\ run[r].pc = "attempt"
  /\ proc[p].is = "nothing"
  /\ proc' = [proc EXCEPT ![p] = [is |-> "agent", leader |-> TRUE, kids |-> FALSE, by |-> inst,
                                  noted |-> FALSE]]
  /\ run' = [run EXCEPT ![r].pc = "spawned", ![r].pid = p]
  /\ UNCHANGED <<up, inst, file, suite, ledger, spend, world>>

Record(r) ==
  LET p == run[r].pid IN
  /\ up = "ready" /\ run[r].pc = "spawned"
  /\ run' = [run EXCEPT ![r].pc = "live"]
  /\ \/ file' = [file EXCEPT ![p] = inst] /\ proc' = [proc EXCEPT ![p].noted = TRUE]
     \/ UNCHANGED <<file, proc>>
  /\ UNCHANGED <<up, inst, suite, ledger, spend, world>>

\* A session closes with run_usage or run_unmetered; a promise settles once.
Closes(r) == ledger' = [ledger EXCEPT ![r] = IF @ = "open" THEN "closed" ELSE "twice"]
SettlesAgain(r) == TRUE
Settles(r) == run[r].pc \in {"attempt", "spawned", "live"}

\* How an attempt ends: the run is over, or a transient error brings another attempt.
EndAttempt(r, transient) ==
  run' = [run EXCEPT ![r] = IF transient /\ run[r].attempt < MaxAttempts
                            THEN [@ EXCEPT !.pc = "backoff", !.pid = None] ELSE Still]

\* The CLI could not be started.
SpawnFails(r) ==
  /\ up = "ready" /\ run[r].pc = "attempt"
  /\ Closes(r) /\ EndAttempt(r, FALSE)
  /\ UNCHANGED <<up, inst, proc, file, suite, spend, world>>

\* untrackLiveAgent: what is left of the group is killed and the record dropped.
Emptied(ps) ==
  /\ proc' = [p \in Pid |-> IF p \in ps THEN Gone ELSE proc[p]]
  /\ file' = [p \in Pid |-> IF p \in ps THEN 0 ELSE file[p]]

Metered == spend' \in {spend, spend + 1}

\* 'close': the agent is gone, and its output is at its end.  What it reports is metered,
\* and counts against the budget, for a failed attempt too.
Close(r) ==
  LET p == run[r].pid IN
  /\ up = "ready" /\ run[r].pc \in {"live", "closing"} /\ ~proc[p].leader
  /\ Emptied({p})
  /\ \/ /\ Settles(r) /\ Closes(r)
        /\ \E transient \in BOOLEAN : EndAttempt(r, transient)
        /\ Metered
     \/ /\ ~Settles(r)
        /\ run' = [run EXCEPT ![r] = Still] /\ UNCHANGED <<ledger, spend>>
  /\ UNCHANGED <<up, inst, suite, world>>

\* The end of a backoff: one run_started per attempt.
Retry(r) ==
  /\ up = "ready" /\ run[r].pc = "backoff"
  /\ run' = [run EXCEPT ![r].pc = "attempt", ![r].attempt = @ + 1]
  /\ ledger' = [ledger EXCEPT ![r] = IF @ = "open" THEN "twice" ELSE "open"]
  /\ UNCHANGED <<up, inst, proc, file, suite, spend, world>>

\* A self-heal aborts the run: the group is killed, the attempt rejects, and its close
\* comes later.
Abort(r) ==
  LET p == run[r].pid IN
  /\ up = "ready" /\ run[r].pc \in {"attempt", "live", "backoff"}
  /\ IF run[r].pc = "backoff" THEN UNCHANGED ledger ELSE Closes(r)
  /\ run' = [run EXCEPT ![r] = [pc |-> IF p = None THEN "idle" ELSE "closing", pid |-> p, attempt |-> 0]]
  /\ proc' = IF p = None THEN proc ELSE [proc EXCEPT ![p].leader = FALSE, ![p].kids = FALSE]
  /\ UNCHANGED <<up, inst, file, suite, spend, world>>

----------------------------------------------------------------------------
\* Agents start tool calls, and end with or without them.
ToolCall(p) ==
  /\ proc[p].is = "agent" /\ proc[p].leader /\ ~proc[p].kids
  /\ proc' = [proc EXCEPT ![p].kids = TRUE]
  /\ UNCHANGED <<up, inst, file, run, suite, ledger, spend, world>>
LeaderEnds(p) ==
  /\ proc[p].leader
  /\ proc' = [proc EXCEPT ![p].leader = FALSE]
  /\ UNCHANGED <<up, inst, file, run, suite, ledger, spend, world>>
KidsEnd(p) ==
  /\ proc[p].kids
  /\ proc' = [proc EXCEPT ![p].kids = FALSE]
  /\ UNCHANGED <<up, inst, file, run, suite, ledger, spend, world>>

Held(p) == \E r \in Run : run[r].pid = p
\* The id of an empty group becomes free, and another program may get it; so may the pid
\* of a dead worker.
Freed(p) ==
  /\ proc[p].is # "nothing" /\ ~proc[p].leader /\ ~proc[p].kids /\ ~Held(p)
  /\ \/ proc' = [proc EXCEPT ![p] = Gone] /\ UNCHANGED reuses
     \/ /\ reuses < MaxReuse /\ reuses' = reuses + 1
        /\ proc' = [proc EXCEPT ![p] = [Gone EXCEPT !.is = "other", !.leader = TRUE]]
  /\ UNCHANGED <<up, inst, reused, file, run, suite, ledger, spend>>
WorkerPidReused(i) ==
  /\ i \in 1..inst \ reused /\ (i # inst \/ up = "down") /\ i \notin suite
  /\ reuses < MaxReuse /\ reuses' = reuses + 1 /\ reused' = reused \cup {i}
  /\ UNCHANGED <<up, inst, proc, file, run, suite, ledger, spend>>

\* Gate suites run in the worker's own group.
Suite ==
  /\ up = "ready"
  /\ suite' = IF inst \in suite THEN suite \ {inst} ELSE suite \cup {inst}
  /\ UNCHANGED <<up, inst, proc, file, run, ledger, spend, world>>

----------------------------------------------------------------------------
\* The end of a worker: killed, and all it started goes on; or an exit, which kills its
\* agents and drops their records.
Down == up' = "down" /\ run' = [r \in Run |-> Still] /\ ledger' = [r \in Run |-> "none"]
Mine == {run[r].pid : r \in {q \in Run : run[q].pc \in {"live", "closing"}}} \ {None}

Killed ==
  /\ up # "down" /\ Down
  /\ UNCHANGED <<inst, proc, file, suite, spend, world>>
Exits ==
  /\ up = "ready" /\ \A r \in Run : run[r].pc # "spawned"
  /\ Down
  /\ Emptied(Mine)
  /\ suite' = suite \ {inst}
  /\ UNCHANGED <<inst, spend, world>>
StartWorker ==
  /\ up = "down" /\ inst < MaxStarts
  /\ up' = "starting" /\ inst' = inst + 1
  /\ UNCHANGED <<proc, file, run, suite, ledger, spend, world>>

\* stopOrphanedAgents.  A program that has a recorded pid and started after the record is
\* not the agent, and one that has the dead worker's pid not its worker.
Running == reused \cup {inst}
AnyProgram(i) == i \in Running /\ i # inst
WorkerLive(i) == i \in Running /\ i # inst /\ i \notin reused
Stranger(p) == proc[p].is = "other" /\ proc[p].leader
Orphans == {p \in Pid : file[p] # 0 /\ ~WorkerLive(file[p]) /\ ~Stranger(p)}
Alive(p) == proc[p].leader \/ proc[p].kids

\* The groups are killed, and the dead workers' own groups with them; a group that
\* survives, or a process table that cannot be read, ends the start.
Recover ==
  /\ up = "starting"
  /\ \/ /\ up' = "ready"
        /\ Emptied(Orphans)
        /\ suite' = suite \ {file[p] : p \in Orphans}
     \/ /\ (\E p \in Pid : file[p] # 0) /\ up' = "down"
        /\ \E killed \in SUBSET Orphans :
             proc' = [p \in Pid |-> IF p \in killed THEN Gone ELSE proc[p]]
        /\ UNCHANGED <<file, suite>>
  /\ UNCHANGED <<inst, run, ledger, spend, world>>

Next ==
  \/ \E r \in Run :
       \/ StartRun(r) \/ Record(r) \/ SpawnFails(r) \/ Close(r) \/ Retry(r) \/ Abort(r)
       \/ \E p \in Pid : Spawn(r, p)
  \/ \E p \in Pid : ToolCall(p) \/ LeaderEnds(p) \/ KidsEnd(p) \/ Freed(p)
  \/ \E i \in 1..MaxStarts : WorkerPidReused(i)
  \/ Suite \/ Killed \/ Exits \/ StartWorker \/ Recover

Spec == Init /\ [][Next]_vars

----------------------------------------------------------------------------
\* A worker that works shares the checkout with no agent of a dead one, however the dead
\* one went and however often the start was refused since: what its record names is
\* stopped with all it started.  Only an agent whose record was never written, its worker
\* killed between the spawn and the record, goes unseen.
NoOrphanWorks ==
  up = "ready" => \A p \in Pid :
    (proc[p].is = "agent" /\ Alive(p) /\ proc[p].by # inst) => ~proc[p].noted

\* reportUnmetered: every run_started closes with exactly one of run_usage and
\* run_unmetered, through aborts that race the end of the process and through retries.
SessionsCloseOnce ==
  \A r \in Run : /\ ledger[r] # "twice"
                 /\ run[r].pc \in {"idle", "backoff", "closing"} => ledger[r] # "open"

\* The budget is passed by less than the attempts of the runs that were under way when
\* it was reached: the cap is looked at once per run and not per attempt.
SpendCapped == spend < Cap + MaxAttempts * Cardinality(Run)

=============================================================================
