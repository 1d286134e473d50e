------------------------------- MODULE Worker -------------------------------
(***************************************************************************)
(* Worker processes on one Kshetra (src/src/cli/worker-runtime.ts, hooks.ts *)
(* and leases.ts of policy/sthapathi, the runs of sthapathi/dispatch.ts,    *)
(* merge.ts, pr-followup-run.ts and errors.ts): a process claims a task,    *)
(* runs agents on a branch of its checkout, lands the branch and ends the   *)
(* claim.  Git and GitHub are outside the database, so their steps and the  *)
(* moves that record them are separate, and a crash, an outage or a lost    *)
(* lease can come between any two.  A process runs one cycle at a time; its *)
(* heartbeats, its pull-request reconcile, its watchdog and its self-heal   *)
(* run between the cycle's awaits.                                          *)
(*                                                                         *)
(* The database is a task's state and lease (TaskGraph has the whole).      *)
(* Each process has a checkout and a state.json of its own, as on two       *)
(* machines.                                                                *)
(***************************************************************************)
EXTENDS Naturals, Sequences, FiniteSets, FiniteSetsExt

CONSTANTS
  Process, Task,
  Scene,        \* the circumstances looked at: each behaviour keeps to one of them
  None

Happening == {"crash", "outage", "lapse", "lock", "git", "api", "hang", "resume", "pause", "decline",
              "feedback", "unblock"}

ASSUME WorkerAssumption ==
  /\ \A s \in Scene :
       /\ s.manual \subseteq Task /\ s.policy \in [Task -> {"push", "pr"}]
       /\ s.happens \subseteq Happening /\ s.attempts \in Nat /\ s.started \subseteq Process /\ s.within \subseteq Task
  /\ None \notin Nat /\ None \notin Task /\ None \notin Process

VARIABLES
  scene,      \* one of Scene, never changed
  \* the database
  state, boosted, lease, lapsed,
  attempts,   \* the attempts table: task and worker; the index is the id
  prNoted,    \* the attempts whose evidence has a pr_url
  landNoted,  \* the attempts whose evidence says landed
  \* origin
  pr, opener, feedback, \* a task's pull request, the attempt that opened it, unaddressed feedback
  landed,     \* the attempts whose change is on origin's main
  \* a process's checkout
  main,       \* the attempts whose change is on the local main
  branches,   \* the tasks that have a bead- branch
  dirty,      \* uncommitted changes
  \* a process
  pc,         \* where its cycle is
  cur,        \* the attempt its cycle works on
  claims,     \* the claims map of hooks.ts, as its values
  ended,      \* the tasks in the ended set of hooks.ts
  err,        \* what the run will throw: nothing, LeaseLost, or another error
  aborted,    \* self-heal aborted the run
  healing,
  wasStuck,   \* the pause the resume watcher last saw was a stuck one
  paused,     \* state.json: no, cooldown, manual or stuck
  stuckMark,  \* state.json: the stuck marker
  engine,     \* the engine is open
  lock,       \* the process that holds the worker session lock
  rec,        \* the reconcile under way: tasks to come, the task at hand, its PR as read
  \* history
  adrift,     \* the attempts under which the worker crashed or lost the database
  cut         \* attempts a second landing of their task is owed to, and why

Manual == scene.manual        \* the tasks with a manual acceptance check, which finish is refused for
Policy == scene.policy        \* resolveMergePolicy, push or pr; a repair task is always pushed
Happens == scene.happens      \* the faults and the acts of people that happen
Started == scene.started      \* the processes somebody starts
Within == scene.within        \* the tasks a claim may choose: all, or an epic's subtree (scopeEpic)
MaxAttempts == scene.attempts \* bound: claims ever made
Attempt == 1 .. MaxAttempts

db == <<state, boosted, lease, lapsed>>
evidence == <<attempts, prNoted, landNoted>>
origin == <<pr, opener, feedback, landed>>
tree == <<main, branches, dirty>>
run == <<cur, claims, ended, err, aborted>>
heal == <<healing, wasStuck>>
pauses == <<paused, stuckMark>>
conn == <<engine, lock>>
history == <<adrift, cut>>
vars == <<db, evidence, origin, tree, pc, run, heal, pauses, conn, rec, history>>

NoRec == [todo |-> {}, task |-> None, saw |-> "none"]

\* The places of a cycle, by the phase the scheduler shows for them.
Selecting == {"select", "peek"}
Preparing == {"claim", "preflight", "prepFollowup", "refuse", "notePutBack", "putBack"}
Noting == {"noteLanded", "notePr", "noteAgain"}
Moving == {"finish", "submit", "resubmit", "flagBlocked", "flagLanded", "flagPr", "flagError",
           "flagGit"}
Working == {"branch", "agents", "followup", "check", "merge", "openPr", "cleanup", "error",
            "end"} \cup Noting \cup Moving
Place == {"down", "idle"} \cup Selecting \cup Preparing \cup Working
\* From the step that lands the change to the record of it.
Landing == {"merge", "noteLanded", "finish", "flagLanded", "openPr", "notePr", "submit", "flagPr"}

\* Why an attempt that landed is followed by another of its task that lands.
Reason == {"expired", "crashed", "outage", "push", "person"}

TypeOK ==
  /\ scene \in Scene
  /\ state \in [Task -> {"open", "claimed", "waiting", "blocked", "done"}]
  /\ boosted \in [Task -> BOOLEAN]
  /\ lease \in [Task -> Attempt \cup {None}]
  /\ lapsed \in [Task -> BOOLEAN]
  /\ attempts \in Seq([task : Task, by : Process]) /\ Len(attempts) \leq MaxAttempts
  /\ {prNoted, landNoted, landed, adrift} \subseteq SUBSET (DOMAIN attempts)
  /\ pr \in [Task -> {"none", "open", "merged", "closed"}]
  /\ opener \in [Task -> DOMAIN attempts \cup {None}]
  /\ feedback \in [Task -> BOOLEAN]
  /\ main \in [Process -> SUBSET (DOMAIN attempts)]
  /\ branches \in [Process -> SUBSET Task]
  /\ dirty \in [Process -> BOOLEAN]
  /\ pc \in [Process -> Place]
  /\ cur \in [Process -> DOMAIN attempts \cup {None}]
  /\ claims \in [Process -> SUBSET (DOMAIN attempts)]
  /\ ended \in [Process -> SUBSET Task]
  /\ err \in [Process -> {"no", "lost", "other"}]
  /\ aborted \in [Process -> BOOLEAN]
  /\ healing \in [Process -> BOOLEAN] /\ wasStuck \in [Process -> BOOLEAN]
  /\ paused \in [Process -> {"no", "cooldown", "manual", "stuck"}]
  /\ stuckMark \in [Process -> BOOLEAN]
  /\ engine \in [Process -> BOOLEAN] /\ lock \in Process \cup {None}
  /\ rec \in [Process -> [todo : SUBSET Task, task : Task \cup {None},
                          saw : {"none", "open", "merged", "closed"}]]
  /\ cut \subseteq (DOMAIN attempts) \X Reason

Init ==
  /\ scene \in Scene
  /\ state = [t \in Task |-> "open"] /\ boosted = [t \in Task |-> FALSE]
  /\ lease = [t \in Task |-> None] /\ lapsed = [t \in Task |-> FALSE]
  /\ attempts = <<>> /\ prNoted = {} /\ landNoted = {}
  /\ pr = [t \in Task |-> "none"] /\ opener = [t \in Task |-> None]
  /\ feedback = [t \in Task |-> FALSE] /\ landed = {}
  /\ main = [p \in Process |-> {}] /\ branches = [p \in Process |-> {}]
  /\ dirty = [p \in Process |-> FALSE]
  /\ pc = [p \in Process |-> "down"] /\ cur = [p \in Process |-> None]
  /\ claims = [p \in Process |-> {}] /\ ended = [p \in Process |-> {}]
  /\ err = [p \in Process |-> "no"] /\ aborted = [p \in Process |-> FALSE]
  /\ healing = [p \in Process |-> FALSE] /\ wasStuck = [p \in Process |-> FALSE]
  /\ paused = [p \in Process |-> "no"] /\ stuckMark = [p \in Process |-> FALSE]
  /\ engine = [p \in Process |-> FALSE] /\ lock = None
  /\ rec = [p \in Process |-> NoRec]
  /\ adrift = {} /\ cut = {}

---------------------------------------------------------------------------
\* The engine's calls, as far as the worker sees them.

TaskOf(a) == attempts[a].task
\* The task of p's run.
Mine(p) == TaskOf(cur[p])
\* The fence of heartbeat and moveClaimed; a lapsed lease is still its holder's.
Held(a) == lease[TaskOf(a)] = a
AttemptsAt(t) == {a \in DOMAIN attempts : TaskOf(a) = t}
\* claimFor: the claim the process keeps for a task, if any.
ClaimFor(p, t) == {a \in claims[p] : TaskOf(a) = t}
\* currentAttempt: the claim's, else the newest.
CurrentAttempt(p, t) ==
  IF ClaimFor(p, t) # {} THEN ClaimFor(p, t) ELSE {Max(AttemptsAt(t))}

\* isKshetraManuallyPaused
ManuallyPaused(p) == paused[p] \in {"manual", "stuck"}

Goto(p, place) == pc' = [pc EXCEPT ![p] = place]
Pause(p, why) == paused' = [paused EXCEPT ![p] = why]
Cut(S, why) == cut' = cut \cup (S \X {why})

\* The row after a move to s.
MoveTask(t, s, boost) ==
  /\ state' = [state EXCEPT ![t] = s]
  /\ boosted' = [boosted EXCEPT ![t] = boost]
  /\ lease' = [lease EXCEPT ![t] = None]
  /\ lapsed' = [lapsed EXCEPT ![t] = FALSE]

\* The moves of the worker: the state they lead to, and what becomes of the boost.
ToStateParked == [finish |-> "done", submit |-> "waiting", flag |-> "parked", release |-> "open",
                  followUp |-> "open"] \* faulty variant
ToState == [finish |-> "done", submit |-> "waiting", flag |-> "blocked", release |-> "open",
            followUp |-> "open"]
BoostAfter(m, b) ==
  IF m \in {"finish", "submit"} THEN FALSE ELSE IF m = "followUp" THEN TRUE ELSE b
\* Their guards: checksPassed and hasOpenPr
GuardPasses(m, t) ==
  /\ m = "finish" => t \notin Manual
  /\ m = "submit" => lease[t] \in prNoted
Make(m, t) == MoveTask(t, ToState[m], BoostAfter(m, boosted[t]))

\* moveTask under p's claim, in three outcomes.  It is made and the claim ended; a
\* heartbeat that came between the two has been told LeaseLost.
Moved(p, m) ==
  /\ Held(cur[p]) /\ GuardPasses(m, Mine(p))
  /\ Make(m, Mine(p))
  /\ ended' = [ended EXCEPT ![p] = @ \cup {Mine(p)}]
  /\ err' \in {err, [err EXCEPT ![p] = "lost"]}
  /\ UNCHANGED history
\* It is refused, by the fence (LeaseLost) or by the guard.
Refused(p, m) ==
  /\ ~(Held(cur[p]) /\ GuardPasses(m, Mine(p)))
  /\ UNCHANGED <<db, ended, history>>
\* The database stays away through the retries; the last try may have been made.
Unreachable(p, m) ==
  /\ "outage" \in Happens
  /\ \/ UNCHANGED db
     \/ Held(cur[p]) /\ GuardPasses(m, Mine(p)) /\ Make(m, Mine(p))
  /\ adrift' = adrift \cup {cur[p]}
  /\ Cut({cur[p]}, "outage")
  /\ UNCHANGED ended

\* expireLeases: every lapsed lease ends, in open, or in blocked for the tasks of third,
\* whose third expiry it is.
Swept(third) ==
  [t \in Task |-> IF lapsed[t] THEN IF t \in third THEN "blocked" ELSE "open" ELSE state[t]]
Unlapsed == [t \in Task |-> IF lapsed[t] THEN None ELSE lease[t]]
Sweep(third) ==
  /\ state' = Swept(third) /\ lease' = Unlapsed
  /\ lapsed' = [t \in Task |-> FALSE]
  /\ UNCHANGED boosted
\* What claim may choose of the tasks in states s: a follow-up goes first.  Nothing is
\* ready past the bound on attempts.
FirstOf(s) ==
  LET open == {t \in Within : s[t] = "open" /\ Len(attempts) < MaxAttempts}
      first == {t \in open : boosted[t]}
  IN IF first # {} THEN first ELSE open

---------------------------------------------------------------------------
\* A process starts and stops.

\* startup: with the worker lock, the checkout is reset and a stuck pause cleared.  A
\* process that finds the lock held exits; one that cannot open the database or reset the
\* checkout arms its loop all the same, on the checkout as it is.
Start(p) ==
  /\ pc[p] = "down" /\ p \in Started
  /\ \/ /\ lock = None /\ lock' = p
        /\ engine' = [engine EXCEPT ![p] = TRUE]
        /\ branches' = [branches EXCEPT ![p] = {}]
        /\ dirty' = [dirty EXCEPT ![p] = FALSE]
        /\ IF paused[p] = "stuck"
             THEN Pause(p, "no") /\ stuckMark' = [stuckMark EXCEPT ![p] = FALSE]
             ELSE UNCHANGED pauses
     \/ /\ "git" \in Happens /\ lock = None /\ lock' = p
        /\ engine' = [engine EXCEPT ![p] = TRUE]
        /\ UNCHANGED <<branches, dirty, pauses>>
     \/ "outage" \in Happens /\ UNCHANGED <<lock, engine, branches, dirty, pauses>>
  /\ Goto(p, "idle")
  /\ UNCHANGED <<db, evidence, origin, main, run, heal, rec, history>>

\* The process is killed, or shut down, at any await.  A squash commit may have been made
\* and not pushed.
Crash(p) ==
  /\ "crash" \in Happens /\ pc[p] # "down"
  /\ Goto(p, "down")
  /\ cur' = [cur EXCEPT ![p] = None] /\ claims' = [claims EXCEPT ![p] = {}]
  /\ ended' = [ended EXCEPT ![p] = {}] /\ err' = [err EXCEPT ![p] = "no"]
  /\ aborted' = [aborted EXCEPT ![p] = FALSE]
  /\ healing' = [healing EXCEPT ![p] = FALSE] /\ wasStuck' = [wasStuck EXCEPT ![p] = FALSE]
  /\ engine' = [engine EXCEPT ![p] = FALSE]
  /\ lock' = IF lock = p THEN None ELSE lock
  /\ rec' = [rec EXCEPT ![p] = NoRec]
  /\ dirty' \in {dirty, [dirty EXCEPT ![p] = pc[p] \in {"agents", "followup"}]}
  /\ main' \in {main, [main EXCEPT ![p] = IF pc[p] = "merge" THEN @ \cup {cur[p]} ELSE @]}
  /\ adrift' = adrift \cup ({cur[p]} \ {None})
  /\ IF pc[p] \in Landing THEN Cut({cur[p]}, "crashed") ELSE UNCHANGED cut
  /\ UNCHANGED <<db, evidence, origin, branches, pauses>>

\* The session connection drops, and nobody tells the process.
LockLost(p) ==
  /\ "lock" \in Happens /\ lock = p /\ pc[p] # "down"
  /\ lock' = None
  /\ UNCHANGED <<db, evidence, origin, tree, pc, run, heal, pauses, engine, rec, history>>

---------------------------------------------------------------------------
\* SELECT and PREPARE

\* tick: runCycle leaves IDLE.
StartCycle(p) ==
  /\ pc[p] = "idle"
  /\ Goto(p, "select")
  /\ UNCHANGED <<db, evidence, origin, tree, run, heal, pauses, conn, rec, history>>

\* The engine's hooks are new with each engine; so are their claims.
FreshHooks(p) ==
  /\ claims' = [claims EXCEPT ![p] = {}] /\ ended' = [ended EXCEPT ![p] = {}]
  /\ rec' = [rec EXCEPT ![p] = NoRec]
  /\ UNCHANGED <<cur, err, aborted>>

MaySelectUnhealed(p) == ~ManuallyPaused(p) \* faulty variant: the gate is not looked at
MaySelect(p) == ~healing[p] /\ ~ManuallyPaused(p)

\* selectNext of the runtime, with ensureEngine.
Select(p) ==
  /\ pc[p] = "select"
  /\ \/ /\ ~MaySelect(p)
        /\ Goto(p, "idle") /\ UNCHANGED <<run, rec, pauses, conn>>
     \/ /\ MaySelect(p)
        /\ \/ /\ engine[p] /\ lock = p
              /\ Goto(p, "peek") /\ UNCHANGED <<run, rec, pauses, conn>>
           \/ /\ engine[p] /\ lock # p
              /\ engine' = [engine EXCEPT ![p] = FALSE]
              /\ FreshHooks(p) /\ Pause(p, "manual")
              /\ Goto(p, "idle") /\ UNCHANGED <<lock, stuckMark>>
           \/ /\ ~engine[p] /\ lock = None
              /\ engine' = [engine EXCEPT ![p] = TRUE] /\ lock' = p
              /\ Goto(p, "peek") /\ UNCHANGED <<run, rec, pauses>>
           \/ /\ ~engine[p] /\ lock # None
              /\ Pause(p, "manual")
              /\ Goto(p, "idle") /\ UNCHANGED <<run, rec, conn, stuckMark>>
           \/ /\ ~engine[p] /\ "outage" \in Happens
              /\ paused' \in {paused, [paused EXCEPT ![p] = "manual"]}
              /\ Goto(p, "idle") /\ UNCHANGED <<run, rec, conn, stuckMark>>
  /\ UNCHANGED <<db, evidence, origin, tree, heal, history>>

PeekUnswept(p) == \* faulty variant: the poll leaves the sweep to the claim
  /\ pc[p] = "peek"
  /\ Goto(p, IF FirstOf(state) # {} THEN "claim" ELSE "idle")
  /\ UNCHANGED <<db, evidence, origin, tree, run, heal, pauses, conn, rec, history>>
\* selectNext of the hooks: a sweep, then the next ready task is looked at.
Peek(p) ==
  /\ pc[p] = "peek"
  /\ \/ \E third \in SUBSET {t \in Task : lapsed[t]} :
          /\ Sweep(third)
          /\ Goto(p, IF FirstOf(Swept(third)) # {} THEN "claim" ELSE "idle")
          /\ UNCHANGED pauses
     \/ /\ "outage" \in Happens
        /\ Pause(p, "manual") /\ Goto(p, "idle") /\ UNCHANGED <<db, stuckMark>>
  /\ UNCHANGED <<evidence, origin, tree, run, heal, conn, rec, history>>

\* isFollowup: boosted, and with a PR on an earlier attempt.
IsFollowup(t) == boosted[t] /\ AttemptsAt(t) \cap prNoted # {}

\* The lease that claim gives p on t, after its sweep.
Lease(p, t, third) ==
  /\ t \in FirstOf(Swept(third))
  /\ attempts' = Append(attempts, [task |-> t, by |-> p])
  /\ state' = [Swept(third) EXCEPT ![t] = "claimed"]
  /\ lease' = [Unlapsed EXCEPT ![t] = Len(attempts) + 1]
  /\ lapsed' = [u \in Task |-> FALSE]
  /\ UNCHANGED <<boosted, prNoted, landNoted>>

\* prepareTask up to its preflight: claim sweeps and takes a task, perhaps another than
\* the one peeked at.
Claim(p) ==
  /\ pc[p] = "claim"
  /\ \E third \in SUBSET {t \in Task : lapsed[t]} :
       \/ \E t \in Task :
            /\ Lease(p, t, third)
            /\ \/ /\ cur' = [cur EXCEPT ![p] = Len(attempts) + 1]
                  /\ claims' = [claims EXCEPT ![p] = (@ \ ClaimFor(p, t)) \cup {Len(attempts) + 1}]
                  /\ ended' = [ended EXCEPT ![p] = @ \ {t}]
                  /\ Goto(p, IF IsFollowup(t) THEN "prepFollowup" ELSE "preflight")
                  /\ UNCHANGED <<pauses, history>>
               \/ \* the reply is lost, and the database with it
                  /\ "outage" \in Happens
                  /\ adrift' = adrift \cup {Len(attempts) + 1}
                  /\ Pause(p, "manual") /\ Goto(p, "idle")
                  /\ UNCHANGED <<cur, claims, ended, cut, stuckMark>>
       \/ /\ FirstOf(Swept(third)) = {}
          /\ Sweep(third)
          /\ Goto(p, "idle")
          /\ UNCHANGED <<evidence, cur, claims, ended, pauses, history>>
       \/ /\ "outage" \in Happens
          /\ Pause(p, "manual") /\ Goto(p, "idle")
          /\ UNCHANGED <<db, evidence, cur, claims, ended, stuckMark, history>>
  /\ UNCHANGED <<origin, tree, err, aborted, heal, conn, rec>>

\* preFlightFresh: the work tree must be clean and the branch not there once main is
\* pulled, and the base green.  A base branch that origin does not have pauses.
Preflight(p) ==
  /\ pc[p] = "preflight"
  /\ \/ /\ ~dirty[p]
        /\ main' = [main EXCEPT ![p] = @ \cup landed]
        /\ \/ Mine(p) \notin branches[p] /\ Goto(p, "branch")
           \/ Goto(p, "refuse")
        /\ UNCHANGED paused
     \/ /\ dirty[p] \/ "git" \in Happens
        /\ Goto(p, "refuse") /\ UNCHANGED <<main, paused>>
     \/ /\ "git" \in Happens
        /\ Goto(p, "refuse") /\ Pause(p, "manual") /\ UNCHANGED main
  /\ UNCHANGED <<db, evidence, origin, branches, dirty, run, heal, stuckMark, conn, rec, history>>

\* prepareFollowupBranch: the branch as origin has it, or the task is put back.  If the
\* database is lost in isFollowup before it, the claim is given back as a fresh task's.
PrepareFollowup(p) ==
  /\ pc[p] = "prepFollowup"
  /\ \/ /\ branches' = [branches EXCEPT ![p] = @ \cup {Mine(p)}]
        /\ dirty' = [dirty EXCEPT ![p] = FALSE]
        /\ Goto(p, "followup")
     \/ "git" \in Happens /\ Goto(p, "notePutBack") /\ UNCHANGED <<branches, dirty>>
     \/ "outage" \in Happens /\ Goto(p, "refuse") /\ UNCHANGED <<branches, dirty>>
  /\ UNCHANGED <<db, evidence, origin, main, run, heal, pauses, conn, rec, history>>

\* The cycle lets go of its claim: claims.delete, and the end of the cycle.
LetGo(p) ==
  /\ claims' = [claims EXCEPT ![p] = @ \ ClaimFor(p, Mine(p))]
  /\ cur' = [cur EXCEPT ![p] = None]
  /\ err' = [err EXCEPT ![p] = "no"] /\ aborted' = [aborted EXCEPT ![p] = FALSE]
  /\ Goto(p, "idle")

\* queue.release in db: a claim that is not held any more is left alone, and an outage
\* pauses the Kshetra.
Release(p) ==
  \/ /\ Held(cur[p]) /\ Make("release", Mine(p)) /\ UNCHANGED <<pauses, history>>
  \/ /\ ~Held(cur[p]) /\ UNCHANGED <<db, pauses, history>>
  \/ /\ "outage" \in Happens
     /\ \/ UNCHANGED db
        \/ Held(cur[p]) /\ Make("release", Mine(p))
     /\ adrift' = adrift \cup {cur[p]}
     /\ Pause(p, "manual") /\ UNCHANGED <<cut, stuckMark>>

\* A fresh task that preflight refuses: its claim is given back.
Refuse(p) ==
  /\ pc[p] = "refuse"
  /\ Release(p) /\ LetGo(p)
  /\ ended' = [ended EXCEPT ![p] = @ \ {Mine(p)}]
  /\ UNCHANGED <<evidence, origin, tree, heal, conn, rec>>

\* onFollowupRefused, resubmit: the task goes back to waiting on its PR.  A LeaseLost is
\* not db's to catch: prepareTask throws it, past its claims.delete.
PutBack(p) ==
  /\ \/ /\ pc[p] = "notePutBack"
        /\ prNoted' = prNoted \cup {cur[p]}
        /\ Goto(p, "putBack")
        /\ UNCHANGED <<db, run, pauses, history>>
     \/ /\ pc[p] = "putBack" /\ Held(cur[p])
        /\ Make("submit", Mine(p)) /\ LetGo(p)
        /\ ended' = [ended EXCEPT ![p] = @ \ {Mine(p)}]
        /\ UNCHANGED <<prNoted, pauses, history>>
     \/ /\ pc[p] = "putBack" /\ ~Held(cur[p])
        /\ cur' = [cur EXCEPT ![p] = None] /\ Goto(p, "idle")
        /\ UNCHANGED <<db, prNoted, claims, ended, err, aborted, pauses, history>>
     \/ /\ "outage" \in Happens /\ pc[p] \in {"notePutBack", "putBack"}
        /\ \/ UNCHANGED db
           \/ pc[p] = "putBack" /\ Held(cur[p]) /\ Make("submit", Mine(p))
        /\ LetGo(p) /\ ended' = [ended EXCEPT ![p] = @ \ {Mine(p)}]
        /\ adrift' = adrift \cup {cur[p]}
        /\ Pause(p, "manual") /\ UNCHANGED <<prNoted, cut, stuckMark>>
  /\ UNCHANGED <<attempts, landNoted, origin, tree, heal, conn, rec>>

---------------------------------------------------------------------------
\* WORK: runTask, whileHeld around it, and the run.

\* createTaskBranch: main as origin has it, and the branch from it.
CreateBranch(p) ==
  /\ pc[p] = "branch"
  /\ \/ /\ main' = [main EXCEPT ![p] = @ \cup landed]
        /\ branches' = [branches EXCEPT ![p] = @ \cup {Mine(p)}]
        /\ Goto(p, "agents")
     \/ "git" \in Happens /\ Goto(p, "flagGit") /\ UNCHANGED <<main, branches>>
  /\ UNCHANGED <<db, evidence, origin, dirty, run, heal, pauses, conn, rec, history>>

\* The rounds of Silpi and Viharapala: approved, out of rounds or off the branch, failed,
\* or stopped by the signal of a lost lease or of a self-heal.
Agents(p) ==
  /\ pc[p] = "agents"
  /\ \/ /\ Goto(p, IF Policy[Mine(p)] = "push" THEN "check" ELSE "openPr")
        /\ UNCHANGED dirty
     \/ Goto(p, "flagBlocked") /\ UNCHANGED dirty
     \/ Goto(p, "error") /\ dirty' \in {dirty, [dirty EXCEPT ![p] = TRUE]}
     \/ "git" \in Happens /\ Goto(p, "flagGit") /\ UNCHANGED dirty
     \/ /\ err[p] = "lost" \/ aborted[p]
        /\ Goto(p, "end") /\ dirty' \in {dirty, [dirty EXCEPT ![p] = TRUE]}
  /\ UNCHANGED <<db, evidence, origin, main, branches, run, heal, pauses, conn, rec, history>>

\* runPrFollowupTask: no open PR or nothing to address, pushed, push failed, handed to a
\* human, failed, or stopped.
Followup(p) ==
  /\ pc[p] = "followup"
  /\ \/ /\ pr[Mine(p)] # "open" \/ ~feedback[Mine(p)]
        /\ Goto(p, "noteAgain") /\ UNCHANGED <<feedback, dirty>>
     \/ /\ pr[Mine(p)] = "open" /\ feedback[Mine(p)]
        /\ \/ /\ feedback' = [feedback EXCEPT ![Mine(p)] = FALSE]
              /\ Goto(p, "noteAgain") /\ UNCHANGED dirty
           \/ "git" \in Happens /\ Goto(p, "noteAgain") /\ UNCHANGED <<feedback, dirty>>
           \/ Goto(p, "flagBlocked") /\ UNCHANGED <<feedback, dirty>>
           \/ /\ Goto(p, "error") /\ UNCHANGED feedback
              /\ dirty' \in {dirty, [dirty EXCEPT ![p] = TRUE]}
           \/ /\ err[p] = "lost" \/ aborted[p]
              /\ Goto(p, "end") /\ UNCHANGED feedback
              /\ dirty' \in {dirty, [dirty EXCEPT ![p] = TRUE]}
  /\ UNCHANGED <<db, evidence, pr, opener, landed, main, branches, run, heal, pauses, conn, rec,
                 history>>

CheckNothing(p) == \* faulty variant: the merge goes ahead on the lease of the last beat
  /\ pc[p] = "check"
  /\ Goto(p, "merge")
  /\ UNCHANGED <<db, evidence, origin, tree, run, heal, pauses, conn, rec, history>>
\* beforeMerge: a heartbeat, which verifies and extends the lease.
CheckLease(p) ==
  /\ pc[p] = "check"
  /\ \/ /\ Held(cur[p])
        /\ lapsed' = [lapsed EXCEPT ![Mine(p)] = FALSE]
        /\ Goto(p, "merge") /\ UNCHANGED adrift
     \/ ~Held(cur[p]) /\ Goto(p, "error") /\ UNCHANGED <<lapsed, adrift>>
     \/ /\ "outage" \in Happens
        /\ adrift' = adrift \cup {cur[p]}
        /\ Goto(p, "error") /\ UNCHANGED lapsed
  /\ UNCHANGED <<state, boosted, lease, evidence, origin, tree, run, heal, pauses, conn, rec, cut>>

MergeUnpushed(p) == \* faulty variant: a push that fails is logged
  /\ pc[p] = "merge"
  /\ main' = [main EXCEPT ![p] = @ \cup {cur[p]}]
  /\ \/ landed \subseteq main[p] /\ landed' = main'[p]
     \/ "git" \in Happens /\ UNCHANGED landed
  /\ Goto(p, "noteLanded")
  /\ UNCHANGED <<db, evidence, pr, opener, feedback, branches, dirty, run, heal, pauses, conn, rec,
                 history>>
\* squashMergeAndClose up to the push: origin takes a push only if the local main has all
\* of its own.  A push that fails leaves the squash commit on the local main, and may have
\* been made.
Merge(p) ==
  /\ pc[p] = "merge"
  /\ \/ /\ landed \subseteq main[p]
        /\ main' = [main EXCEPT ![p] = @ \cup {cur[p]}]
        /\ landed' = main'[p]
        /\ Goto(p, "noteLanded") /\ UNCHANGED <<dirty, cut>>
     \/ /\ "git" \in Happens \* a conflict
        /\ dirty' = [dirty EXCEPT ![p] = TRUE]
        /\ Goto(p, "flagGit") /\ UNCHANGED <<main, landed, cut>>
     \/ /\ "git" \in Happens \/ ~(landed \subseteq main[p])
        /\ main' = [main EXCEPT ![p] = @ \cup {cur[p]}]
        /\ \/ UNCHANGED landed
           \/ landed \subseteq main[p] /\ landed' = main'[p]
        /\ Cut({cur[p]}, "push")
        /\ Goto(p, "flagGit") /\ UNCHANGED dirty
  /\ UNCHANGED <<db, evidence, pr, opener, feedback, branches, run, heal, pauses, conn, rec, adrift>>

\* openPrAndDefer up to the PR: the lease is not looked at.  prCreate answers with the PR
\* that is open already.  Once a branch was pushed for the task, origin may still have it
\* and refuse the push of another.
OpenPr(p) ==
  /\ pc[p] = "openPr"
  /\ \/ /\ pr' = [pr EXCEPT ![Mine(p)] = "open"]
        /\ opener' = [opener EXCEPT ![Mine(p)] = cur[p]]
        /\ feedback' = [feedback EXCEPT ![Mine(p)] = pr[Mine(p)] = "open" /\ @]
        /\ Goto(p, "notePr")
     \/ /\ pr[Mine(p)] # "none" \/ "git" \in Happens
        /\ Goto(p, "flagGit") /\ UNCHANGED <<pr, opener, feedback>>
     \/ /\ "git" \in Happens /\ Goto(p, "error") /\ UNCHANGED <<pr, opener, feedback>>
  /\ UNCHANGED <<db, evidence, landed, tree, run, heal, pauses, conn, rec, history>>

\* putEvidence before the move, in finish, deferForPr and resubmit.  It is not fenced.
AfterNote == [noteLanded |-> "finish", notePr |-> "submit", noteAgain |-> "resubmit"]
NoteFailed == [noteLanded |-> "flagLanded", notePr |-> "flagPr", noteAgain |-> "error"]
Note(p) ==
  /\ pc[p] \in Noting
  /\ \/ /\ Goto(p, AfterNote[pc[p]])
        /\ IF pc[p] = "noteLanded"
             THEN landNoted' = landNoted \cup {cur[p]} /\ UNCHANGED prNoted
             ELSE prNoted' = prNoted \cup {cur[p]} /\ UNCHANGED landNoted
        /\ UNCHANGED history
     \/ /\ "outage" \in Happens
        /\ Goto(p, NoteFailed[pc[p]])
        /\ adrift' = adrift \cup {cur[p]} /\ Cut({cur[p]}, "outage")
        /\ UNCHANGED <<prNoted, landNoted>>
  /\ UNCHANGED <<db, attempts, origin, tree, run, heal, pauses, conn, rec>>

\* The moves of a run, by the place that makes them, and where the run goes then.
MoveOf(place) ==
  IF place = "finish" THEN "finish"
  ELSE IF place \in {"submit", "resubmit"} THEN "submit" ELSE "flag"
AfterMove == [finish |-> "cleanup", submit |-> "end", resubmit |-> "end", flagLanded |-> "cleanup",
              flagPr |-> "end", flagBlocked |-> "end", flagError |-> "end", flagGit |-> "end"]
MoveFailed == [finish |-> "flagLanded", submit |-> "flagPr", resubmit |-> "error",
               flagLanded |-> "error", flagPr |-> "error", flagBlocked |-> "error",
               flagError |-> "end", flagGit |-> "end"]
\* cleanupBranch is a best effort.
CleanupBranch(p) ==
  \/ branches' = [branches EXCEPT ![p] = @ \ {Mine(p)}]
  \/ (dirty[p] \/ "git" \in Happens) /\ UNCHANGED branches
\* A move of the run; the flags of handleCycleError are followed by its cleanup or pause,
\* and what they throw the run throws.
MoveOn(p) ==
  /\ pc[p] \in Moving
  /\ \/ /\ Moved(p, MoveOf(pc[p]))
        /\ Goto(p, AfterMove[pc[p]])
        /\ IF pc[p] = "flagError" THEN CleanupBranch(p) ELSE UNCHANGED branches
        /\ IF pc[p] = "flagGit" THEN Pause(p, "manual") ELSE UNCHANGED paused
     \/ /\ \/ /\ Refused(p, MoveOf(pc[p]))
              /\ err' = IF pc[p] \in {"flagError", "flagGit"} THEN [err EXCEPT ![p] = "lost"] ELSE err
           \/ /\ Unreachable(p, MoveOf(pc[p]))
              /\ err' = IF pc[p] \in {"flagError", "flagGit"} /\ err[p] = "no"
                        THEN [err EXCEPT ![p] = "other"] ELSE err
        /\ Goto(p, MoveFailed[pc[p]])
        /\ UNCHANGED <<branches, paused>>
  /\ UNCHANGED <<evidence, origin, main, dirty, cur, claims, aborted, heal, stuckMark, conn, rec>>

\* The end of squashMergeAndClose: the branch is deleted.
Cleanup(p) ==
  /\ pc[p] = "cleanup"
  /\ \/ branches' = [branches EXCEPT ![p] = @ \ {Mine(p)}] /\ Goto(p, "end")
     \/ "git" \in Happens /\ Goto(p, "flagGit") /\ UNCHANGED branches
  /\ UNCHANGED <<db, evidence, origin, main, dirty, run, heal, pauses, conn, rec, history>>

\* handleCycleError: the provider is down, and the task is left for its claim to be given
\* back; or its flag.
CycleError(p) ==
  /\ pc[p] = "error"
  /\ \/ /\ "api" \in Happens
        /\ CleanupBranch(p) /\ Pause(p, "cooldown")
        /\ Goto(p, "end")
     \/ Goto(p, "flagError") /\ UNCHANGED <<branches, paused>>
  /\ UNCHANGED <<db, evidence, origin, main, dirty, run, heal, stuckMark, conn, rec, history>>

EndRunKept(p) == \* faulty variant: a run that moved nothing keeps its claim
  /\ pc[p] = "end"
  /\ LetGo(p)
  /\ ended' = [ended EXCEPT ![p] = IF err[p] = "other" THEN @ ELSE @ \ {Mine(p)}]
  /\ UNCHANGED <<db, pauses, history, evidence, origin, tree, heal, conn, rec>>
\* The end of the hooks' runTask: a run that threw LeaseLost, or another error, or that
\* moved its task, leaves the claim; any other gives it back.
EndRun(p) ==
  /\ pc[p] = "end"
  /\ LetGo(p)
  /\ ended' = [ended EXCEPT ![p] = IF err[p] = "other" THEN @ ELSE @ \ {Mine(p)}]
  /\ IF err[p] = "no" /\ Mine(p) \notin ended[p]
       THEN Release(p)
       ELSE UNCHANGED <<db, pauses, history>>
  /\ UNCHANGED <<evidence, origin, tree, heal, conn, rec>>

\* whileHeld: a beat extends the lease, or is told that it is lost and stops the agents.
Heartbeat(p) ==
  /\ pc[p] \in Working /\ Mine(p) \notin ended[p] /\ err[p] # "lost"
  /\ IF Held(cur[p])
       THEN lapsed' = [lapsed EXCEPT ![Mine(p)] = FALSE] /\ UNCHANGED err
       ELSE err' = [err EXCEPT ![p] = "lost"] /\ UNCHANGED lapsed
  /\ UNCHANGED <<state, boosted, lease, evidence, origin, tree, pc, cur, claims, ended, aborted,
                 heal, pauses, conn, rec, history>>

\* A lease runs out.  Its holder keeps it until a sweep.
LeaseLapses(t) ==
  /\ "lapse" \in Happens /\ lease[t] # None /\ ~lapsed[t]
  /\ lapsed' = [lapsed EXCEPT ![t] = TRUE]
  /\ LET p == attempts[lease[t]].by
     IN IF cur[p] = lease[t] /\ pc[p] \in Landing
          THEN Cut({lease[t]}, "expired") ELSE UNCHANGED cut
  /\ UNCHANGED <<state, boosted, lease, evidence, origin, tree, pc, run, heal, pauses, conn, rec,
                 adrift>>

\* A shreni task command sweeps before anything else.
SweepElsewhere ==
  /\ "lapse" \in Happens /\ \E t \in Task : lapsed[t]
  /\ \E third \in SUBSET {t \in Task : lapsed[t]} : Sweep(third)
  /\ UNCHANGED <<evidence, origin, tree, pc, run, heal, pauses, conn, rec, history>>

---------------------------------------------------------------------------
\* reconcilePullRequests, on its timer and at startup.

\* The gate is looked at once, before the first await.
RecStart(p) ==
  /\ pc[p] = "idle" /\ ~healing[p] /\ engine[p] /\ rec[p] = NoRec
  /\ \E t \in Task : state[t] = "waiting"
  /\ rec' = [rec EXCEPT ![p].todo = {t \in Task : state[t] = "waiting"}]
  /\ UNCHANGED <<db, evidence, origin, tree, pc, run, heal, pauses, conn, history>>

\* prView of the next task; gh may have no answer.
RecView(p) ==
  /\ rec[p].task = None
  /\ \E t \in rec[p].todo : \E saw \in {pr[t]} \cup (IF "git" \in Happens THEN {"none"} ELSE {}) :
       rec' = [rec EXCEPT ![p] = [todo |-> @.todo \ {t}, task |-> t, saw |-> saw]]
  /\ UNCHANGED <<db, evidence, origin, tree, pc, run, heal, pauses, conn, history>>

\* moveTask outside a run: from the states the move is declared in, and under the claim
\* that claimFor has, if any.
From == [finish |-> {"claimed", "waiting"}, flag |-> {"open", "claimed", "waiting"},
         followUp |-> {"waiting"}]
Movable(p, m, t) ==
  /\ \A a \in ClaimFor(p, t) : Held(a)
  /\ state[t] \in From[m] /\ GuardPasses(m, t)
RecMove(p, m, t) ==
  /\ Movable(p, m, t) /\ Make(m, t)
  /\ ended' = IF ClaimFor(p, t) # {} THEN [ended EXCEPT ![p] = @ \cup {t}] ELSE ended
RecGivesUp(p, possible) ==
  /\ ~possible \/ "outage" \in Happens
  /\ UNCHANGED <<db, ended>>

\* git does not delete the branch that is checked out.
CheckedOut(p, t) == pc[p] \in Working /\ Mine(p) = t

RecMergedUnflagged(p, t) == \* faulty variant: a refused finish is left at that
  /\ landNoted' = landNoted \cup CurrentAttempt(p, t)
  /\ \/ RecMove(p, "finish", t) /\ branches' = [branches EXCEPT ![p] = @ \ {t}]
     \/ RecGivesUp(p, Movable(p, "finish", t)) /\ UNCHANGED branches
\* reconcileOne of a merged PR: finish, or flag if that is refused, then the branch goes.
RecMerged(p, t) ==
  LET noted == landNoted \cup CurrentAttempt(p, t)
      drop == IF CheckedOut(p, t) THEN branches ELSE [branches EXCEPT ![p] = @ \ {t}]
  IN \/ RecMove(p, "finish", t) /\ landNoted' = noted /\ branches' = drop
     \/ /\ \/ ~Movable(p, "finish", t) /\ landNoted' = noted
           \/ "outage" \in Happens /\ landNoted' \in {landNoted, noted}
        /\ RecMove(p, "flag", t) /\ branches' = drop
     \/ /\ RecGivesUp(p, Movable(p, "finish", t) \/ Movable(p, "flag", t))
        /\ landNoted' = noted /\ UNCHANGED branches

RecDeclinedDone(p, t) == \* faulty variant: a PR that is no longer open is done with
  /\ RecMove(p, "finish", t) \/ RecGivesUp(p, Movable(p, "finish", t))
  /\ UNCHANGED <<landNoted, branches>>
\* reconcileOne of a declined PR, and of an open one that has feedback now.
RecDeclined(p, t) ==
  /\ RecMove(p, "flag", t) \/ RecGivesUp(p, Movable(p, "flag", t))
  /\ UNCHANGED <<landNoted, branches>>
RecOpen(p, t) ==
  /\ IF pr[t] = "open" /\ feedback[t]
       THEN RecMove(p, "followUp", t) \/ RecGivesUp(p, Movable(p, "followUp", t))
       ELSE UNCHANGED <<db, ended>>
  /\ UNCHANGED <<landNoted, branches>>

RecAct(p) ==
  /\ rec[p].task # None
  /\ LET t == rec[p].task
     IN \/ rec[p].saw = "merged" /\ RecMerged(p, t)
        \/ rec[p].saw = "closed" /\ RecDeclined(p, t)
        \/ rec[p].saw = "open" /\ RecOpen(p, t)
        \/ rec[p].saw = "none" /\ UNCHANGED <<db, ended, landNoted, branches>>
  /\ rec' = [rec EXCEPT ![p] = [NoRec EXCEPT !.todo = rec[p].todo]]
  /\ UNCHANGED <<attempts, prNoted, origin, main, dirty, pc, cur, claims, err, aborted, heal, pauses,
                 conn, history>>

---------------------------------------------------------------------------
\* The watchdog, the pause and the self-heal.

\* runWatchdogOnce trips on a silent phase, or on stalls with work to do; never while a
\* pause waits for a person, nor while its marker is set.
Watchdog(p) ==
  /\ "hang" \in Happens /\ pc[p] # "down" /\ ~stuckMark[p] /\ ~ManuallyPaused(p)
  /\ pc[p] \in Preparing \cup Working \/ (engine[p] /\ FirstOf(state) # {})
  /\ stuckMark' = [stuckMark EXCEPT ![p] = TRUE]
  /\ Pause(p, "stuck")
  /\ UNCHANGED <<db, evidence, origin, tree, pc, run, heal, conn, rec, history>>

\* shreni pause and shreni resume write state.json from another process.
UserPause(p) ==
  /\ "pause" \in Happens /\ paused[p] # "manual"
  /\ Pause(p, "manual")
  /\ UNCHANGED <<db, evidence, origin, tree, pc, run, heal, stuckMark, conn, rec, history>>
Resume(p) ==
  /\ "resume" \in Happens /\ paused[p] # "no"
  /\ Pause(p, "no") /\ stuckMark' = [stuckMark EXCEPT ![p] = FALSE]
  /\ UNCHANGED <<db, evidence, origin, tree, pc, run, heal, conn, rec, history>>

\* The resume watcher: shouldSelfHeal compares the pause with the one it last saw.
ShouldSelfHeal(p) ==
  wasStuck[p] /\ paused[p] # "stuck" /\ pc[p] \in Working /\ ~healing[p]
ResumeWatch(p) ==
  /\ pc[p] # "down" /\ wasStuck[p] # (paused[p] = "stuck")
  /\ wasStuck' = [wasStuck EXCEPT ![p] = (paused[p] = "stuck")]
  /\ IF ShouldSelfHeal(p)
       THEN /\ healing' = [healing EXCEPT ![p] = TRUE]
            /\ aborted' = [aborted EXCEPT ![p] = TRUE]
       ELSE UNCHANGED <<healing, aborted>>
  /\ UNCHANGED <<db, evidence, origin, tree, pc, cur, claims, ended, err, pauses, conn, rec, history>>

\* Once the aborted run has ended, resetWorkTree; the gate opens though it fail.
ResetTree(p) ==
  /\ healing[p] /\ ~aborted[p]
  /\ \/ /\ branches' = [branches EXCEPT ![p] = {}]
        /\ dirty' = [dirty EXCEPT ![p] = FALSE]
     \/ "git" \in Happens /\ UNCHANGED <<branches, dirty>>
  /\ healing' = [healing EXCEPT ![p] = FALSE]
  /\ UNCHANGED <<db, evidence, origin, main, pc, run, wasStuck, pauses, conn, rec, history>>

---------------------------------------------------------------------------
\* People, on GitHub and at the command line.

PrMerges(t) ==
  /\ pr[t] = "open"
  /\ pr' = [pr EXCEPT ![t] = "merged"]
  /\ landed' = landed \cup {opener[t]}
  /\ UNCHANGED <<db, evidence, opener, feedback, tree, pc, run, heal, pauses, conn, rec, history>>
PrCloses(t) ==
  /\ "decline" \in Happens /\ pr[t] = "open"
  /\ pr' = [pr EXCEPT ![t] = "closed"]
  /\ UNCHANGED <<db, evidence, opener, feedback, landed, tree, pc, run, heal, pauses, conn, rec,
                 history>>
ReviewerAsks(t) ==
  /\ "feedback" \in Happens /\ pr[t] = "open" /\ ~feedback[t]
  /\ feedback' = [feedback EXCEPT ![t] = TRUE]
  /\ UNCHANGED <<db, evidence, pr, opener, landed, tree, pc, run, heal, pauses, conn, rec, history>>

\* shreni task unblock and shreni task confirm
Unblock(t) ==
  /\ "unblock" \in Happens /\ state[t] = "blocked"
  /\ MoveTask(t, "open", boosted[t])
  /\ Cut(AttemptsAt(t), "person")
  /\ UNCHANGED <<evidence, origin, tree, pc, run, heal, pauses, conn, rec, adrift>>
Confirm(t) ==
  /\ t \in Manual /\ state[t] = "blocked"
  /\ AttemptsAt(t) # {} /\ Max(AttemptsAt(t)) \in landNoted
  /\ MoveTask(t, "done", FALSE)
  /\ UNCHANGED <<evidence, origin, tree, pc, run, heal, pauses, conn, rec, history>>

---------------------------------------------------------------------------
\* The steps a process takes by itself, one cycle after another.
CycleStep(p) ==
  \/ StartCycle(p) \/ Select(p) \/ Peek(p) \/ Claim(p)
  \/ Preflight(p) \/ PrepareFollowup(p) \/ Refuse(p) \/ PutBack(p)
  \/ CreateBranch(p) \/ Agents(p) \/ Followup(p) \/ CheckLease(p) \/ Merge(p) \/ OpenPr(p)
  \/ Note(p) \/ MoveOn(p) \/ Cleanup(p) \/ CycleError(p) \/ EndRun(p)

ProcessStep(p) ==
  \/ Start(p) \/ Crash(p) \/ LockLost(p) \/ CycleStep(p) \/ Heartbeat(p)
  \/ RecStart(p) \/ RecView(p) \/ RecAct(p)
  \/ Watchdog(p) \/ UserPause(p) \/ Resume(p) \/ ResumeWatch(p) \/ ResetTree(p)

TaskStep(t) ==
  \/ LeaseLapses(t) \/ PrMerges(t) \/ PrCloses(t) \/ ReviewerAsks(t) \/ Unblock(t) \/ Confirm(t)

Next ==
  /\ \/ \E p \in Process : ProcessStep(p)
     \/ \E t \in Task : TaskStep(t)
     \/ SweepElsewhere
  /\ UNCHANGED scene

Spec == Init /\ [][Next]_<<vars, scene>>

---------------------------------------------------------------------------
\* Properties

\* An attempt that landed a pushed task is the last that lands it, unless a lease ran
\* out, a worker was lost, the database was lost or a push failed in the middle of its
\* landing, or a person handed the task back: what beforeMerge, the fence of the moves
\* and the flag after a refused finish are for.
LandsOnce ==
  \A a, b \in landed :
    a < b /\ TaskOf(a) = TaskOf(b) /\ Policy[TaskOf(a)] = "push"
      => \E why \in Reason : <<a, why>> \in cut

\* Dependents of a task may start once it is done, so a done task has a change on
\* origin's main, by whichever of run, reconcile and confirm it got there.
DoneMeansLanded ==
  \A t \in Task : state[t] = "done" => \E a \in landed : TaskOf(a) = t

\* No worker in order leaves a lease to run out: each is of the attempt its cycle is at,
\* or the worker crashed or lost the database under it.
LeasesAttended ==
  \A t \in Task : lease[t] # None =>
    \/ cur[attempts[lease[t]].by] = lease[t]
    \/ lease[t] \in adrift

\* The branch of a run is there as long as the run is on it: neither the reset of a
\* self-heal nor the deletes of reconcile come under its agents.
BranchKept ==
  \A p \in Process : pc[p] \in {"agents", "followup", "check", "merge", "openPr"}
    => Mine(p) \in branches[p]

\* hooks.ts, worker-runtime.ts: a process, its claims and its checkout keep their shape, and
\* no branch goes while its agents work on it.
BranchesKept == TypeOK /\ BranchKept

\* What the code's scheduling gives.  The loop, the timers and a supervisor keep a process
\* going, agents have time limits, a lease that nobody renews runs out, and the operator
\* resumes.  The strong conditions say that crashes and outages leave room for a poll
\* and for an answer to reconcile and a move of it now and then.
Fair ==
  /\ \A p \in Process :
       /\ WF_vars(Start(p)) /\ WF_vars(CycleStep(p)) /\ WF_vars(Resume(p))
       /\ WF_vars(ResetTree(p)) /\ WF_vars(RecView(p)) /\ WF_vars(RecAct(p))
       /\ SF_vars(StartCycle(p)) /\ SF_vars(RecStart(p))
       /\ SF_vars(RecView(p) /\ rec'[p].saw = pr[rec'[p].task])
       /\ SF_vars(Select(p) /\ pc'[p] = "peek") /\ SF_vars(Peek(p) /\ UNCHANGED pauses)
       /\ \A t \in Task : SF_vars(RecAct(p) /\ state'[t] # state[t])
  /\ \A t \in Task : WF_vars(LeaseLapses(t) /\ cur[attempts[lease[t]].by] # lease[t])
FairSpec == Spec /\ Fair

\* No task stays claimed for good, whatever becomes of the worker that claimed it: the
\* run moves it or gives it back, or a poll sweeps the lease that ran out.
ClaimsEnd == \A t \in Task : state[t] = "claimed" ~> state[t] # "claimed"

\* A task whose PR merged does not stay waiting: reconcile finishes it, or flags it when
\* a manual check refuses the finish.
MergedSettles ==
  \A t \in Task : (state[t] = "waiting" /\ pr[t] = "merged") ~> state[t] # "waiting"

---------------------------------------------------------------------------
\* Statements of the source that the code does not keep.

\* merge.ts, of a finish or a submit that fails: the task is flagged rather than released
\* and worked again, which would be a second landing or a second PR.
NotWorkedAgain ==
  [][\A t \in Task : Len(attempts') > Len(attempts) /\ lease'[t] = Len(attempts') =>
       /\ AttemptsAt(t) \cap landed = {}
       /\ pr[t] = "open" => IsFollowup(t)]_vars

\* watchdog.ts: the latch clears only on an explicit human acknowledgment, a resume or a
\* start.
LatchNeedsAck ==
  [][\A p \in Process : ManuallyPaused(p) /\ ~ManuallyPaused(p)' => Resume(p) \/ Start(p)]_vars

=============================================================================
