------------------------------- MODULE Drain -------------------------------
(***************************************************************************)
(* A drain: the worker run in the foreground until nothing is left to do   *)
(* (driveDrain and runOwnedDrain of drain.ts over the scheduler's cycle,   *)
(* the watchdog, the resume watcher and state.json).  Its cycles are       *)
(* sequential; the backfills it starts, the watchdog, a self-heal, the     *)
(* operator's other process and a signal come between them.                *)
(***************************************************************************)
EXTENDS Naturals, FiniteSets

CONSTANTS
  Task,
  Gap,           \* the tasks a backfill of this drain may file
  Repair,        \* the task the health gate may file
  Happens,       \* which of "refuse", "red", "lost", "agent", "git", "budget", "api", "unblock",
                 \* "approve", "pause" happen
  MaxRepeat,     \* MAX_OUTCOME_REPEAT
  Caps,          \* values of --max-cycles tried, 0 for none
  MaxActs,       \* bound: what the operator does
  None

VARIABLES
  cap,           \* --max-cycles
  pc,            \* where driveDrain is
  probing,       \* the cycle is the probe
  outcome,       \* of the last cycle
  cycles, capped,
  st,            \* each task: unfiled, proposed, ready, held (blocked), mine, theirs, flagged, budget, closed
  cur,           \* the task the cycle is on
  filer,         \* a Parikshaka backfill is in flight
  js,            \* the Kshetra's slice of state.json
  draft,         \* the slice as the operator's process loaded and changed it, or None
  acts,
  late,          \* the operator made work ready since the drain last looked
  wasStuck,      \* the resume watcher's last look
  aborted, healing,
  sig,           \* SIGINT or SIGTERM came
  open,          \* what openInScope answered
  result

vars == <<cap, pc, probing, outcome, cycles, capped, st, cur, filer, js, draft, acts, late,
          wasStuck, aborted, healing, sig, open, result>>
loop == <<cap, probing, outcome, cycles, capped>>
watch == <<wasStuck, aborted, healing>>
operator == <<draft, acts, late>>
exit == <<open, result>>

Quiet == [paused |-> "no", stuck |-> FALSE, last |-> "none", repeat |-> 0]

TypeOK ==
  /\ pc \in {"startup", "loop", "select", "prepare", "begin", "work", "judge", "settle", "list",
             "classify", "done"}
  /\ outcome \in {"none", "ran", "declined", "no-work"}
  /\ st \in [Task -> {"unfiled", "proposed", "ready", "held", "mine", "theirs", "flagged", "budget", "closed"}]
  /\ js \in [paused : {"no", "cooldown", "manual", "stuck"}, stuck : BOOLEAN,
             last : {"none", "preflight", "red", "agent", "git", "api"}, repeat : 0..MaxRepeat]
  /\ result \in {"none", "complete", "stalled", "budget", "capped", "signal"}

Init ==
  /\ cap \in Caps
  /\ pc = "startup" /\ probing = FALSE /\ outcome = "none" /\ cycles = 0 /\ capped = FALSE
  /\ st \in [Task -> {"ready", "held", "unfiled"}]
  /\ \A t \in Task : st[t] = "unfiled" <=> t \in Gap \cup Repair
  /\ cur = None /\ filer = FALSE
  /\ js \in {Quiet, [Quiet EXCEPT !.paused = "stuck", !.stuck = TRUE, !.last = "preflight", !.repeat = MaxRepeat]}
  /\ draft = None /\ acts = 0 /\ late = FALSE
  /\ wasStuck = FALSE /\ aborted = FALSE /\ healing = FALSE
  /\ sig = FALSE /\ open = {} /\ result = "none"

Ready == {t \in Task : st[t] = "ready"}
\* A repair is P0 and goes first.
Foremost == IF Ready \cap Repair # {} THEN Ready \cap Repair ELSE Ready
ManuallyPaused == js.paused \in {"manual", "stuck"}
Settling == filer \/ healing

----------------------------------------------------------------------------
\* state.json.  A count that has reached MaxRepeat says no more when it grows.
NotStalled(o) == js
Stalled(o) == [js EXCEPT !.last = o,
                         !.repeat = IF js.last # o THEN 1 ELSE IF @ < MaxRepeat THEN @ + 1 ELSE @]
Progressed == [js EXCEPT !.last = "none", !.repeat = 0]
\* resumeKshetra, and clearStuckPauseOnRecover at startup.
Resumed(s) == Quiet
Recovered == IF js.paused = "stuck" THEN Resumed(js) ELSE js

Startup ==
  /\ pc = "startup"
  /\ js' = Recovered
  /\ pc' = "loop"
  /\ UNCHANGED <<loop, st, cur, filer, operator, watch, sig, exit>>

\* The head of the loop: a signal ends it, else one more cycle.
Tick ==
  /\ pc = "loop"
  /\ \/ sig /\ pc' = "settle" /\ UNCHANGED cycles
     \/ ~sig /\ pc' = "select" /\ cycles' = IF cap = 0 THEN 0 ELSE cycles + 1
  /\ probing' = FALSE
  /\ UNCHANGED <<cap, outcome, capped, st, cur, filer, js, operator, watch, sig, exit>>

\* selectNext, behind the gates of worker-runtime.ts.
Select ==
  /\ pc = "select"
  /\ \/ /\ ManuallyPaused \/ healing \/ Ready = {}
        /\ outcome' = "no-work" /\ pc' = "judge"
     \/ /\ ~ManuallyPaused /\ ~healing /\ Ready # {}
        /\ pc' = "prepare" /\ UNCHANGED outcome
  /\ late' = FALSE
  /\ UNCHANGED <<cap, probing, cycles, capped, st, cur, filer, js, draft, acts, watch, sig, exit>>

EnsureHealthTask ==
  \E t \in Repair : /\ st[t] # "closed"
                    /\ st' = IF st[t] = "unfiled" THEN [st EXCEPT ![t] = "ready"] ELSE st

\* prepareTask: the claim finds nothing, as another worker has it all by now; preflight
\* refuses, which counts as a stall; the base suite is red, which also queues its repair,
\* once; or the run is on.
Prepare ==
  /\ pc = "prepare"
  /\ \/ /\ "lost" \in Happens \/ Ready = {}
        /\ st' = [t \in Task |-> IF st[t] = "ready" THEN "theirs" ELSE st[t]]
        /\ outcome' = "declined" /\ pc' = "judge" /\ UNCHANGED <<cur, js>>
     \/ /\ "refuse" \in Happens /\ Ready # {}
        /\ js' = Stalled("preflight")
        /\ outcome' = "declined" /\ pc' = "judge" /\ UNCHANGED <<cur, st>>
     \/ /\ "red" \in Happens /\ Ready # {} /\ Ready \cap Repair = {}
        /\ EnsureHealthTask
        /\ js' = Stalled("red")
        /\ outcome' = "declined" /\ pc' = "judge" /\ UNCHANGED cur
     \/ \E t \in Foremost :
          /\ cur' = t /\ st' = [st EXCEPT ![t] = "mine"]
          /\ pc' = "begin" /\ UNCHANGED <<outcome, js>>
  /\ UNCHANGED <<cap, probing, cycles, capped, filer, operator, watch, sig, exit>>

\* runSilpiViharapalaLoop: the claim is progress, and clears the stall count.
Begin ==
  /\ pc = "begin"
  /\ js' = Progressed /\ pc' = "work"
  /\ UNCHANGED <<loop, st, cur, filer, operator, watch, sig, exit>>

\* How a run ends: merged, and a backfill may start on it; denied by the budget; or by
\* handleCycleError, which notes a stall and pauses, for a while or until a resume.  An
\* aborted run, and one the API failed, give the task back.
Work ==
  /\ pc = "work"
  /\ \/ /\ ~aborted
        /\ st' = [st EXCEPT ![cur] = "closed"] /\ js' = Progressed
        /\ filer' \in {filer, TRUE}
     \/ /\ ~aborted /\ UNCHANGED filer
        /\ \/ "budget" \in Happens /\ st' = [st EXCEPT ![cur] = "budget"] /\ UNCHANGED js
           \/ "agent" \in Happens /\ st' = [st EXCEPT ![cur] = "flagged"] /\ js' = Stalled("agent")
           \/ /\ "git" \in Happens /\ st' = [st EXCEPT ![cur] = "flagged"]
              /\ js' = [Stalled("git") EXCEPT !.paused = "manual"]
           \/ /\ "api" \in Happens /\ st' = [st EXCEPT ![cur] = "ready"]
              /\ js' = [Stalled("api") EXCEPT !.paused = "cooldown"]
     \/ aborted /\ st' = [st EXCEPT ![cur] = "ready"] /\ UNCHANGED <<js, filer>>
  /\ cur' = None /\ outcome' = "ran" /\ pc' = "judge"
  /\ UNCHANGED <<cap, probing, cycles, capped, operator, watch, sig, exit>>

\* After a cycle: a signal or the cap ends the loop; work done, work settling and a
\* refusal bring another cycle; nothing to do brings the probe and then the exit.
OnlyRan == outcome = "ran" \/ Settling
GoesOn == outcome # "no-work" \/ Settling
AfterNoWorkEnd == "settle"
AfterNoWork == IF probing THEN "settle" ELSE "select"

Judge ==
  /\ pc = "judge"
  /\ capped' = (~sig /\ cap # 0 /\ cycles >= cap)
  /\ \/ /\ sig \/ capped'
        /\ pc' = "settle" /\ UNCHANGED <<probing, cycles>>
     \/ /\ ~sig /\ ~capped' /\ GoesOn
        /\ pc' = "loop" /\ UNCHANGED <<probing, cycles>>
     \/ /\ ~sig /\ ~capped' /\ ~GoesOn
        /\ pc' = AfterNoWork /\ probing' = ~probing
        /\ cycles' = IF cap = 0 \/ probing THEN cycles ELSE cycles + 1
  /\ UNCHANGED <<cap, outcome, st, cur, filer, js, operator, watch, sig, exit>>

\* The wait before classifying, and the exit on a signal.
DoesNotWait == TRUE
Settled == sig \/ ~Settling

Settle ==
  /\ pc = "settle" /\ Settled
  /\ \/ sig /\ result' = "signal" /\ pc' = "done"
     \/ ~sig /\ pc' = "list" /\ UNCHANGED result
  /\ UNCHANGED <<loop, st, cur, filer, js, operator, watch, sig, open>>

\* openInScope: every task that was approved and is not closed; StatusOpen is bd's literal
\* status open.
StatusOpen == {t \in Task : st[t] \in {"ready", "held"}}
OpenInScope == {t \in Task : st[t] \notin {"unfiled", "proposed", "closed"}}

List ==
  /\ pc = "list"
  /\ open' = OpenInScope
  /\ \/ open' = {} /\ result' = "complete" /\ pc' = "done"
     \/ open' # {} /\ pc' = "classify" /\ UNCHANGED result
  /\ UNCHANGED <<loop, st, cur, filer, js, operator, watch, sig>>

\* classify: a budget note first, then whether the cap left a ready task behind.
Category(t) ==
  CASE st[t] = "budget" -> "budget"
    [] st[t] = "flagged" -> "blocked"
    [] st[t] = "held" -> "blocked-by"
    [] OTHER -> IF js.paused # "no" THEN "paused"
                ELSE IF st[t] # "ready" THEN "open"
                ELSE IF capped THEN "not-reached" ELSE "ready-but-unworked"

Classify ==
  LET categories == {Category(t) : t \in open} IN
  /\ pc = "classify"
  /\ result' = IF "budget" \in categories THEN "budget"
               ELSE IF "not-reached" \in categories THEN "capped" ELSE "stalled"
  /\ pc' = "done"
  /\ UNCHANGED <<loop, st, cur, filer, js, operator, watch, sig, open>>

----------------------------------------------------------------------------
FileGap == \E t \in Gap : st[t] = "unfiled" /\ st' = [st EXCEPT ![t] = "proposed"]
\* The backfill ends, with a gap proposed or not.
FilerEnds ==
  /\ filer /\ filer' = FALSE
  /\ \/ UNCHANGED st
     \/ FileGap
  /\ UNCHANGED <<loop, pc, cur, js, operator, watch, sig, exit>>

\* runWatchdogOnce: a stall that repeats, unless there is nothing to do or the Kshetra
\* is already stopped.
Watchdog ==
  /\ pc # "done" /\ ~js.stuck /\ ~ManuallyPaused
  /\ js.repeat >= MaxRepeat
  /\ pc \in {"prepare", "begin", "work"} \/ Ready # {}
  /\ js' = [js EXCEPT !.stuck = TRUE, !.paused = "stuck"]
  /\ UNCHANGED <<loop, pc, st, cur, filer, operator, watch, sig, exit>>

\* The resume watcher, on its timer: a resume from stuck aborts the run in flight.
ResumeWatch ==
  /\ pc # "done" /\ wasStuck # (js.paused = "stuck")
  /\ wasStuck' = (js.paused = "stuck")
  /\ LET heals == wasStuck /\ js.paused # "stuck" /\ pc \in {"begin", "work"} /\ ~healing IN
       aborted' = (aborted \/ heals) /\ healing' = (healing \/ heals)
  /\ UNCHANGED <<loop, pc, st, cur, filer, js, operator, sig, exit>>

\* The aborted run is over and the work tree is reset.
Healed ==
  /\ healing /\ pc \notin {"begin", "work"}
  /\ healing' = FALSE /\ aborted' = FALSE
  /\ UNCHANGED <<loop, pc, st, cur, filer, js, operator, wasStuck, sig, exit>>

\* shreni pause and shreni resume run in a process of their own: they load the file, and
\* write it back over whatever the drain wrote since.
OperatorLoads ==
  /\ "pause" \in Happens /\ draft = None /\ acts < MaxActs /\ pc # "done"
  /\ acts' = acts + 1
  /\ draft' \in {[js EXCEPT !.paused = "manual"], Resumed(js)}
  /\ UNCHANGED <<late, loop, pc, st, cur, filer, js, watch, sig, exit>>
OperatorSaves ==
  /\ draft # None
  /\ js' = draft /\ draft' = None /\ late' = TRUE
  /\ UNCHANGED <<loop, pc, st, cur, filer, acts, watch, sig, exit>>

\* Someone clears a blocker, or approves a gap.
Unblock(t) ==
  /\ pc # "done"
  /\ \/ "unblock" \in Happens /\ st[t] = "held"
     \/ "approve" \in Happens /\ st[t] = "proposed"
  /\ st' = [st EXCEPT ![t] = "ready"] /\ late' = TRUE
  /\ UNCHANGED <<loop, pc, cur, filer, js, draft, acts, watch, sig, exit>>

Interrupt ==
  /\ ~sig /\ pc # "done"
  /\ sig' = TRUE
  /\ UNCHANGED <<loop, pc, st, cur, filer, js, operator, watch, exit>>

DrainStep == Startup \/ Tick \/ Select \/ Prepare \/ Begin \/ Work \/ Judge \/ Settle \/ List \/ Classify
Next ==
  \/ DrainStep \/ FilerEnds \/ Watchdog \/ ResumeWatch \/ Healed
  \/ OperatorLoads \/ OperatorSaves \/ Interrupt
  \/ \E t \in Task : Unblock(t)

Spec == Init /\ [][Next]_vars
\* Cycles and agents have time limits, and the timers fire.
FairSpec ==
  /\ Spec /\ WF_vars(DrainStep) /\ WF_vars(FilerEnds) /\ WF_vars(Watchdog) /\ WF_vars(Healed)
  /\ WF_vars(OperatorSaves)
\* An agent run succeeds now and then, as it will not while the API is down for good.
Succeeds == Work /\ st'[cur] = "closed"
RecoveringSpec == FairSpec /\ SF_vars(Succeeds)

----------------------------------------------------------------------------
\* A drain that says how it went has no agent of its own at work any more, capped or not:
\* the exit never races a backfill that still files tasks, nor a self-heal.
AgentsSettled == result \notin {"none", "signal"} => ~filer /\ ~healing

\* A stalled drain is never read as a complete one: complete means that every approved
\* task of the scope, flagged, denied and held ones included, is closed.
CompleteMeansClosed ==
  result = "complete" => \A t \in Task : st[t] \in {"closed", "unfiled", "proposed"}

\* A drain that no cap and no signal ended leaves no task that it could have worked: one
\* that is ready at the end was made so, or a pause was lifted, after the drain's last
\* look; refusals, a repair queued between two looks and a self-heal that ended behind its
\* back are no reason to stop.
NoReadyLeft ==
  (result \notin {"none", "signal"} /\ ~capped) =>
    \A t \in open : Category(t) = "ready-but-unworked" => late

\* A drain ends, though every cycle may be refused: the refusals add up until the
\* watchdog pauses the Kshetra.  Two ways out: refusals of two kinds that take turns, each
\* of which starts the count again; and a cooldown pause written over a stuck one, which
\* leaves the marker that keeps the watchdog quiet and not the pause.
Terminates ==
  \/ <>(result # "none" \/ (js.stuck /\ ~ManuallyPaused))
  \/ []<>(js.last = "preflight") /\ []<>(js.last = "red")

=============================================================================
