------------------------------- MODULE Health -------------------------------
(***************************************************************************)
(* The green base (dispatch.ts, health.ts, gates.ts, pickup.ts): a feature *)
(* starts only when main has no more failing tests than the accepted       *)
(* baseline; a red main queues one repair, whose rounds must bring the     *)
(* count down, and which quarantines what is left by raising the baseline. *)
(* The verdict on a commit is cached under its sha.  Agents commit what    *)
(* they change, as their prompt tells them to.                             *)
(***************************************************************************)
EXTENDS Integers

CONSTANTS
  MaxFail,       \* bound: failing tests
  MaxRounds,     \* maxRoundsPerBead
  MaxPushes      \* bound: pushes to main by others

VARIABLES
  fails,         \* failing tests on main
  parses,        \* the runner prints a count that parseFailCount finds
  ablated,       \* the enforcement ablation
  baseline,      \* healthBaseline of state.json
  cache,         \* the cached verdict: [at (the commit), baseline, green]
  repair,        \* the health task: none, open, claimed, flagged, done
  pc, kind, round,
  branch,        \* failing tests on the task's branch
  fresh,         \* the branch has commits of its own
  prev,          \* prevFailCount of the repair
  moved,         \* others pushed to main since the branch was made
  pushes

vars == <<fails, parses, ablated, baseline, cache, repair, pc, kind, round, branch, fresh, prev,
          moved, pushes>>
task == <<kind, round, branch, fresh, prev>>
setup == <<parses, ablated>>

Count == 0..MaxFail
Verdict(at, green) == [at |-> at, baseline |-> baseline, green |-> green]

TypeOK ==
  /\ fails \in Count /\ branch \in Count /\ baseline \in -1..MaxFail /\ prev \in -1..MaxFail
  /\ cache \in [at : {"main", "other"}, baseline : -1..MaxFail, green : BOOLEAN]
  /\ repair \in {"none", "open", "claimed", "flagged", "done"}
  /\ pc \in {"idle", "silpi", "measure", "review", "merge"} /\ round \in 0..MaxRounds

Init ==
  /\ fails \in Count /\ parses \in BOOLEAN /\ ablated \in BOOLEAN
  /\ baseline = 0 /\ cache = Verdict("other", FALSE) /\ repair = "none"
  /\ pc = "idle" /\ kind = "feature" /\ round = 0 /\ branch = 0 /\ fresh = FALSE /\ prev = 0
  /\ moved = FALSE /\ pushes = 0

----------------------------------------------------------------------------
\* runTestSuite and computeStatus: -1 is a red suite with an unknown count.
FailCount(n) == IF n = 0 \/ parses THEN n ELSE -1
Green(n) == n = 0 \/ (FailCount(n) >= 0 /\ FailCount(n) <= baseline)

\* checkHealth: the cached verdict serves while neither the commit nor the baseline moved.
SameCommit == cache.at = "main"
Hit == cache.at = "main" /\ cache.baseline = baseline
CheckHealth == IF Hit THEN cache.green ELSE Green(fails)

Begin(k) ==
  /\ pc' = "silpi" /\ kind' = k /\ round' = 1
  /\ branch' = fails /\ fresh' = FALSE /\ moved' = FALSE

\* preFlightFresh: a feature starts on a green base; a red one queues the repair, unless
\* one is open, and refuses.  A repair that is open goes first.
PickFeature ==
  /\ pc = "idle" /\ repair # "open"
  /\ cache' = Verdict("main", CheckHealth)
  /\ \/ /\ CheckHealth \/ ablated
        /\ Begin("feature") /\ UNCHANGED <<repair, prev>>
     \/ /\ ~CheckHealth /\ ~ablated
        /\ repair' = IF repair \in {"none", "done"} THEN "open" ELSE repair
        /\ UNCHANGED <<pc, task, moved>>
  /\ UNCHANGED <<fails, setup, baseline, pushes>>

\* runHealthRepairLoop measures the branch before any work.
PickRepair ==
  /\ pc = "idle" /\ repair = "open"
  /\ repair' = "claimed" /\ prev' = FailCount(fails)
  /\ cache' = Verdict("main", Green(fails))
  /\ Begin("repair")
  /\ UNCHANGED <<fails, setup, baseline, pushes>>

\* The agent commits something, or changes nothing.
Silpi ==
  /\ pc = "silpi" /\ pc' = "measure"
  /\ \/ branch' \in Count /\ fresh' = TRUE
     \/ UNCHANGED <<branch, fresh>>
  /\ UNCHANGED <<fails, setup, baseline, cache, repair, kind, round, prev, moved, pushes>>

\* The run ends without a merge: the next task may start.
Stop == pc' = "idle" /\ UNCHANGED <<task, moved>>
\* Another round, or the end of them.
Again(Over) ==
  \/ round < MaxRounds /\ round' = round + 1 /\ pc' = "silpi" /\ UNCHANGED <<baseline, repair>>
  \/ round = MaxRounds /\ pc' = "idle" /\ UNCHANGED round /\ Over
Measured ==
  cache' = Verdict(IF fresh \/ moved THEN "other" ELSE "main", Green(branch))

\* evaluateGates: the test gate goes by the baseline; lint, coverage and diff size may
\* fail as well; with enforcement ablated none of them blocks.
LintGate == BOOLEAN
OtherGates == BOOLEAN            \* coverage and diff size, at the level each is set to
GatesOpen(lint, others) == ablated \/ (Green(branch) /\ lint /\ others)

Gates ==
  /\ pc = "measure" /\ kind = "feature" /\ Measured
  /\ \E lint \in LintGate, others \in OtherGates :
       \/ GatesOpen(lint, others) /\ pc' = "review" /\ UNCHANGED <<round, baseline, repair>>
       \/ ~GatesOpen(lint, others) /\ Again(UNCHANGED <<baseline, repair>>)
  /\ UNCHANGED <<fails, setup, kind, branch, fresh, prev, moved, pushes>>

Review ==
  /\ pc = "review"
  /\ \/ pc' = "merge" /\ UNCHANGED <<round, baseline, repair>>
     \/ Again(UNCHANGED <<baseline, repair>>)
  /\ UNCHANGED <<fails, setup, cache, kind, branch, fresh, prev, moved, pushes>>

\* The repair's own gate: merge when green; else the count must come down, and when the
\* rounds are over what is left is accepted.
Lowest == FailCount(branch)
NewPrev == IF FailCount(branch) >= 0 /\ FailCount(branch) < prev THEN FailCount(branch) ELSE prev

Repair ==
  /\ pc = "measure" /\ kind = "repair" /\ Measured
  /\ \/ Green(branch) /\ pc' = "merge" /\ UNCHANGED <<round, baseline, repair, prev>>
     \/ ~Green(branch) /\ prev' = NewPrev /\ Again(baseline' = prev' /\ repair' = "flagged")
  /\ UNCHANGED <<fails, setup, kind, branch, fresh, moved, pushes>>

\* squashMergeAndClose, and for a feature also openPrAndDefer; a push that others came
\* before fails, and the task is flagged.
Merge ==
  /\ pc = "merge"
  /\ \/ /\ ~moved /\ fresh
        /\ fails' = branch /\ cache' = [cache EXCEPT !.at = "other"]
        /\ baseline' = IF kind = "repair" THEN 0 ELSE baseline
        /\ repair' = IF kind = "repair" THEN "done" ELSE repair
     \/ /\ moved \/ ~fresh \/ kind = "feature"
        /\ repair' = IF kind = "repair" THEN "flagged" ELSE repair
        /\ UNCHANGED <<fails, cache, baseline>>
  /\ Stop
  /\ UNCHANGED <<setup, pushes>>

\* An error or an abort ends the run; the task is flagged or given back.
Fail ==
  /\ pc \in {"silpi", "review"}
  /\ repair' \in (IF kind = "repair" THEN {"open", "flagged"} ELSE {repair})
  /\ Stop
  /\ UNCHANGED <<fails, setup, baseline, cache, pushes>>

\* Others push to main, which the next start pulls; a person closes a flagged repair.
OthersPush ==
  /\ pushes < MaxPushes /\ pushes' = pushes + 1
  /\ fails' \in Count /\ moved' = TRUE /\ cache' = [cache EXCEPT !.at = "other"]
  /\ UNCHANGED <<setup, baseline, repair, pc, task>>
CloseRepair ==
  /\ repair = "flagged" /\ repair' = "done"
  /\ UNCHANGED <<fails, setup, baseline, cache, pc, task, moved, pushes>>

Next ==
  \/ PickFeature \/ PickRepair \/ Silpi \/ Gates \/ Review \/ Repair \/ Merge \/ Fail
  \/ OthersPush \/ CloseRepair

Spec == Init /\ [][Next]_vars

----------------------------------------------------------------------------
\* The gate tells the truth about main under the baseline of the moment, though it answers
\* from a cache that measurements of branches, quarantines and merges write in between.
GateTruthful ==
  [][(pc = "idle" /\ UNCHANGED <<fails, pushes>> /\ cache' # cache) =>
       cache'.green = Green(fails)]_vars

\* Accepting failures is the end of a repair, and accepts no more than the repair found at
\* its start: whatever its rounds did, the bar is never raised past it.
QuarantineCapped ==
  [][(baseline' > baseline /\ baseline' > 0) =>
       repair' = "flagged" /\ (baseline' <= fails \/ moved)]_vars

=============================================================================
