--------------------------- MODULE RuntimeProofs ---------------------------
(***************************************************************************)
(* Proofs about a running worker and what watches it, for every number of   *)
(* tasks, runs, process ids, attempts, readers and every bound: a drain's   *)
(* last word, the health gate's cached verdict, agents across restarts,     *)
(* what they cost, and the board's cache.                                   *)
(***************************************************************************)
EXTENDS Runtime, FiniteSetTheorems, TLAPS

---------------------------------------------------------------------------
\* A drain.

Slice == [paused : {"no", "cooldown", "manual", "stuck"}, stuck : BOOLEAN,
          last : {"none", "preflight", "red", "agent", "git", "api"}, repeat : 0 .. MaxRepeat]

DrainTyped == D!TypeOK /\ draft \in Slice \cup {None} /\ open \subseteq Task

\* There is nothing to work, or the operator changed that since the last look.
NothingSeen == late \/ js.paused # "no" \/ D!Ready = {}

\* Who may still be at work, by where the loop is.
Quieted ==
  /\ result # "none" => pc = "done"
  /\ pc \in {"list", "classify"} => ~filer /\ ~healing
  /\ pc = "done" => result = "signal" \/ (~filer /\ ~healing)

\* What the probe saw is what the drain ends on: no self-heal runs when the probe looks, and
\* from its look on only the operator makes work ready or lifts a pause.
LookedTwice ==
  /\ pc = "select" /\ probing => ~healing
  /\ pc = "judge" /\ probing /\ outcome = "no-work" => NothingSeen
  /\ pc = "settle" => sig \/ capped \/ NothingSeen
  /\ pc \in {"list", "classify"} => capped \/ NothingSeen
  /\ pc = "done" => result = "signal" \/ capped \/ NothingSeen

DrainInv == DrainTyped /\ Quieted /\ LookedTwice /\ D!CompleteMeansClosed

---------------------------------------------------------------------------
\* The health gate.

\* The verdict on main that is kept is the one its suite gives under the baseline kept with
\* it, so that it can be trusted again when the baseline comes back to that.
GreenUnder(b, n) == n = 0 \/ (H!FailCount(n) >= 0 /\ H!FailCount(n) <= b)
VerdictKept == cache.at = "main" => cache.green = GreenUnder(cache.baseline, fails)
HealthInv ==
  /\ H!TypeOK /\ pushes \in Nat
  /\ VerdictKept
  /\ hpc # "idle" /\ ~fresh /\ ~moved => branch = fails
  /\ hpc # "idle" /\ kind = "repair" /\ ~moved => prev <= fails

---------------------------------------------------------------------------
\* Agent processes.

RunType == [pc : {"idle", "attempt", "spawned", "live", "closing", "backoff"},
            pid : Pid \cup {None}, attempt : 0 .. MaxAttempts]
ProcType == [is : {"nothing", "agent", "other"}, leader : BOOLEAN, kids : BOOLEAN,
             by : 0 .. MaxStarts, noted : BOOLEAN]

\* A run and its session: the session is open exactly while an attempt is, and a run that
\* waits to try again has attempts left.
Sound(q, l) ==
  /\ q \in RunType /\ l \in {"none", "open", "closed"}
  /\ q.pc \in {"attempt", "spawned", "live"} => l = "open" /\ q.attempt >= 1
  /\ q.pc = "backoff" => l # "open" /\ q.attempt >= 1 /\ q.attempt < MaxAttempts
  /\ q.pc \in {"idle", "closing"} => l # "open"
RunsSound ==
  /\ run \in [Run -> RunType] /\ ledger \in [Run -> {"none", "open", "closed"}]
  /\ \A r \in Run : Sound(run[r], ledger[r])

\* The attempts that the runs under way may still make and meter.
Ticket(q, a) ==
  \/ q.pc \in {"attempt", "spawned", "live"} /\ q.attempt <= a
  \/ q.pc = "backoff" /\ q.attempt < a
Tickets == {k \in Run \X (1 .. MaxAttempts) : Ticket(run[k[1]], k[2])}

\* Spend and the attempts under way stay below the cap and the attempts of every run.
Budgeted == spend \in Nat /\ spend + Cardinality(Tickets) < Cap + MaxAttempts * Cardinality(Run)

\* A record that was written is there while its agent may be; a worker that works has no
\* recorded agent but its own, and a run's agent is of the worker that has the run.
Recorded ==
  /\ up # "down" => inst >= 1
  /\ up # "ready" => \A r \in Run : run[r] = A!Still
  /\ \A p \in Pid : proc[p].is = "agent" /\ proc[p].noted => file[p] # 0
  /\ up = "ready" => \A p \in Pid : proc[p].is = "agent" /\ proc[p].noted => proc[p].by = inst
  /\ \A r \in Run : run[r].pc = "spawned" =>
       run[r].pid \in Pid /\ (proc[run[r].pid].is = "agent" => proc[run[r].pid].by = inst)

Placed ==
  /\ up \in {"down", "starting", "ready"} /\ inst \in 0 .. MaxStarts
  /\ proc \in [Pid -> ProcType] /\ file \in [Pid -> 0 .. MaxStarts] /\ suite \subseteq 1 .. MaxStarts

AgentsInv == Placed /\ RunsSound /\ Budgeted /\ Recorded

---------------------------------------------------------------------------
\* The board's reads.

BoardInv ==
  /\ events \in Nat /\ told \in 0 .. events /\ gen \in Nat
  /\ rows \in Nat \cup {None} /\ (rows # None => rows >= told)
  /\ reads \in [Reader -> [at : {"idle", "begun", "read", "answered"}, gen : Nat, value : Nat, floor : Nat]]
  /\ \A r \in Reader :
       /\ reads[r].gen <= gen /\ reads[r].floor <= told
       /\ reads[r].at = "read" => reads[r].value >= reads[r].floor /\ (reads[r].gen = gen => reads[r].value >= told)
       /\ reads[r].at = "answered" => reads[r].value >= reads[r].floor

Inv == DrainInv /\ HealthInv /\ AgentsInv /\ BoardInv

---------------------------------------------------------------------------
\* What the drain writes into its slice of state.json stays a slice.

LEMMA QuietTyped == D!Quiet \in Slice
  BY DrainAssumption DEF Slice, D!Quiet

LEMMA SliceTyped ==
  ASSUME js \in Slice
  PROVE  /\ \A o \in {"preflight", "red", "agent", "git", "api"} : D!Stalled(o) \in Slice
         /\ D!Progressed \in Slice /\ D!Recovered \in Slice
         /\ \A s \in Slice, p \in {"no", "cooldown", "manual", "stuck"} : [s EXCEPT !.paused = p] \in Slice
         /\ [js EXCEPT !.stuck = TRUE, !.paused = "stuck"] \in Slice
<1>1. \A s \in Slice, p \in {"no", "cooldown", "manual", "stuck"} : [s EXCEPT !.paused = p] \in Slice
  BY DEF Slice
<1>2. [js EXCEPT !.stuck = TRUE, !.paused = "stuck"] \in Slice
  BY DEF Slice
<1>3. D!Progressed \in Slice
  <2>1. 0 \in 0 .. MaxRepeat
    BY DrainAssumption
  <2>2. \A s \in Slice, n \in 0 .. MaxRepeat : [s EXCEPT !.repeat = n] \in Slice
    BY DEF Slice
  <2>3. [js EXCEPT !.last = "none"] \in Slice
    BY DEF Slice
  <2>4. [[js EXCEPT !.last = "none"] EXCEPT !.repeat = 0] \in Slice
    BY <2>1, <2>2, <2>3
  <2>5. D!Progressed = [[js EXCEPT !.last = "none"] EXCEPT !.repeat = 0]
    BY DEF D!Progressed
  <2> QED  BY <2>4, <2>5
<1>4. ASSUME NEW o \in {"preflight", "red", "agent", "git", "api"} PROVE D!Stalled(o) \in Slice
  <2>1. (IF js.last # o THEN 1 ELSE IF js.repeat < MaxRepeat THEN js.repeat + 1 ELSE js.repeat) \in 0 .. MaxRepeat
    BY DrainAssumption DEF Slice
  <2> QED  BY <2>1 DEF Slice, D!Stalled
<1>5. D!Recovered \in Slice
  BY QuietTyped DEF D!Recovered, D!Resumed
<1> QED  BY <1>1, <1>2, <1>3, <1>4, <1>5

LEMMA DrainTypedStep ==
  ASSUME DrainTyped, [D!Next]_drainVars
  PROVE  DrainTyped'
<1> USE DEF DrainTyped
<1>0. js \in Slice
  BY DEF D!TypeOK, Slice
<1>t. ASSUME pc' \in {"startup", "loop", "select", "prepare", "begin", "work", "judge", "settle",
                      "list", "classify", "done"},
             outcome' \in {"none", "ran", "declined", "no-work"},
             st' \in [Task -> {"unfiled", "proposed", "ready", "held", "mine", "theirs", "flagged",
                               "budget", "closed"}],
             js' \in Slice, result' \in {"none", "complete", "stalled", "budget", "capped", "signal"},
             draft' \in Slice \cup {None}, open' \subseteq Task
      PROVE  DrainTyped'
  BY <1>t DEF D!TypeOK, Slice
<1>1. CASE D!Startup
  BY <1>0, <1>1, <1>t, SliceTyped DEF D!Startup, D!TypeOK, D!loop, D!operator, D!watch, D!exit
<1>2. CASE D!Tick
  BY <1>0, <1>2, <1>t DEF D!Tick, D!TypeOK, D!operator, D!watch, D!exit
<1>3. CASE D!Select
  BY <1>0, <1>3, <1>t DEF D!Select, D!TypeOK, D!watch, D!exit
<1>4. CASE D!Prepare
  <2>1. /\ pc' \in {"judge", "begin"} /\ outcome' \in {"declined", outcome}
        /\ js' \in Slice /\ UNCHANGED <<draft, open, result>>
    BY <1>0, <1>4, SliceTyped DEF D!Prepare, D!operator, D!exit
  <2>2. st' \in [Task -> {"unfiled", "proposed", "ready", "held", "mine", "theirs", "flagged",
                          "budget", "closed"}]
    BY <1>4 DEF D!Prepare, D!TypeOK, D!EnsureHealthTask
  <2> QED  BY <2>1, <2>2, <1>t DEF D!TypeOK
<1>5. CASE D!Begin
  BY <1>0, <1>5, <1>t, SliceTyped DEF D!Begin, D!TypeOK, D!loop, D!operator, D!watch, D!exit
<1>6. CASE D!Work
  <2>1. /\ pc' = "judge" /\ outcome' = "ran" /\ UNCHANGED <<draft, open, result>>
    BY <1>6 DEF D!Work, D!operator, D!exit
  <2>2. js' \in Slice
    BY <1>0, <1>6, SliceTyped DEF D!Work
  <2>3. st' \in [Task -> {"unfiled", "proposed", "ready", "held", "mine", "theirs", "flagged",
                          "budget", "closed"}]
    BY <1>6 DEF D!Work, D!TypeOK
  <2> QED  BY <2>1, <2>2, <2>3, <1>t DEF D!TypeOK
<1>7. CASE D!Judge
  BY <1>0, <1>7, <1>t DEF D!Judge, D!TypeOK, D!AfterNoWork, D!operator, D!watch, D!exit
<1>8. CASE D!Settle
  BY <1>0, <1>8, <1>t DEF D!Settle, D!TypeOK, D!loop, D!operator, D!watch
<1>9. CASE D!List
  BY <1>0, <1>9, <1>t DEF D!List, D!TypeOK, D!loop, D!operator, D!watch, D!OpenInScope
<1>10. CASE D!Classify
  BY <1>0, <1>10, <1>t DEF D!Classify, D!TypeOK, D!loop, D!operator, D!watch
<1>11. CASE D!FilerEnds
  BY <1>0, <1>11, <1>t DEF D!FilerEnds, D!FileGap, D!TypeOK, D!loop, D!operator, D!watch, D!exit
<1>12. CASE D!Watchdog
  BY <1>0, <1>12, <1>t, SliceTyped DEF D!Watchdog, D!TypeOK, D!loop, D!operator, D!watch, D!exit
<1>13. CASE D!ResumeWatch
  BY <1>0, <1>13, <1>t DEF D!ResumeWatch, D!TypeOK, D!loop, D!operator, D!exit
<1>14. CASE D!Healed
  BY <1>0, <1>14, <1>t DEF D!Healed, D!TypeOK, D!loop, D!operator, D!exit
<1>15. CASE D!OperatorLoads
  <2>1. draft' \in Slice
    BY <1>0, <1>15, SliceTyped, QuietTyped DEF D!OperatorLoads, D!Resumed
  <2> QED  BY <1>0, <1>15, <2>1, <1>t DEF D!OperatorLoads, D!TypeOK, D!loop, D!watch, D!exit
<1>16. CASE D!OperatorSaves
  BY <1>0, <1>16, <1>t DEF D!OperatorSaves, D!TypeOK, D!loop, D!watch, D!exit
<1>17. CASE D!Interrupt
  BY <1>0, <1>17, <1>t DEF D!Interrupt, D!TypeOK, D!loop, D!operator, D!watch, D!exit
<1>18. CASE \E t \in Task : D!Unblock(t)
  BY <1>0, <1>18, <1>t DEF D!Unblock, D!TypeOK, D!loop, D!watch, D!exit
<1>19. CASE UNCHANGED drainVars
  BY <1>0, <1>19, <1>t DEF drainVars, D!TypeOK
<1> QED
  BY <1>1, <1>2, <1>3, <1>4, <1>5, <1>6, <1>7, <1>8, <1>9, <1>10, <1>11, <1>12, <1>13, <1>14, <1>15,
     <1>16, <1>17, <1>18, <1>19 DEF D!Next, D!DrainStep

\* No agent of the drain is started once the loop has waited for those there are.
LEMMA QuietedStep ==
  ASSUME Quieted, [D!Next]_drainVars
  PROVE  Quieted'
<1> USE DEF Quieted
<1>1. CASE D!Startup
  BY <1>1 DEF D!Startup, D!exit
<1>2. CASE D!Tick
  BY <1>2 DEF D!Tick, D!exit
<1>3. CASE D!Select
  BY <1>3 DEF D!Select, D!exit
<1>4. CASE D!Prepare
  <2>1. pc = "prepare" /\ pc' \in {"judge", "begin"} /\ result' = result
    BY <1>4 DEF D!Prepare, D!exit
  <2> QED  BY <2>1
<1>5. CASE D!Begin
  BY <1>5 DEF D!Begin, D!exit
<1>6. CASE D!Work
  <2>1. pc = "work" /\ pc' = "judge" /\ result' = result
    BY <1>6 DEF D!Work, D!exit
  <2> QED  BY <2>1
<1>7. CASE D!Judge
  BY <1>7 DEF D!Judge, D!AfterNoWork, D!exit
<1>8. CASE D!Settle
  BY <1>8 DEF D!Settle, D!Settled, D!Settling, D!watch
<1>9. CASE D!List
  BY <1>9 DEF D!List, D!watch
<1>10. CASE D!Classify
  BY <1>10 DEF D!Classify, D!watch
<1>11. CASE D!FilerEnds
  BY <1>11 DEF D!FilerEnds, D!watch, D!exit
<1>12. CASE D!Watchdog
  BY <1>12 DEF D!Watchdog, D!watch, D!exit
<1>13. CASE D!ResumeWatch
  BY <1>13 DEF D!ResumeWatch, D!exit
<1>14. CASE D!Healed
  BY <1>14 DEF D!Healed, D!exit
<1>15. CASE D!OperatorLoads
  BY <1>15 DEF D!OperatorLoads, D!watch, D!exit
<1>16. CASE D!OperatorSaves
  BY <1>16 DEF D!OperatorSaves, D!watch, D!exit
<1>17. CASE D!Interrupt
  BY <1>17 DEF D!Interrupt, D!watch, D!exit
<1>18. CASE \E t \in Task : D!Unblock(t)
  BY <1>18 DEF D!Unblock, D!watch, D!exit
<1>19. CASE UNCHANGED drainVars
  BY <1>19 DEF drainVars
<1> QED
  BY <1>1, <1>2, <1>3, <1>4, <1>5, <1>6, <1>7, <1>8, <1>9, <1>10, <1>11, <1>12, <1>13, <1>14, <1>15,
     <1>16, <1>17, <1>18, <1>19 DEF D!Next, D!DrainStep

\* What the drain can have work from: the state of the tasks, the pause, and the operator.
LEMMA NothingSeenKept ==
  ASSUME NothingSeen, late => late', js.paused # "no" => js'.paused # "no" \/ late',
         D!Ready' \subseteq D!Ready \/ late'
  PROVE  NothingSeen'
  BY DEF NothingSeen

LEMMA LookedTwiceStep ==
  ASSUME DrainTyped, LookedTwice, [D!Next]_drainVars
  PROVE  LookedTwice'
<1> USE DEF LookedTwice
<1>1. CASE D!Startup
  BY <1>1 DEF D!Startup
<1>2. CASE D!Tick
  BY <1>2 DEF D!Tick
<1>3. CASE D!Select
  <2>1. pc = "select" /\ pc' \in {"judge", "prepare"} /\ probing' = probing
    BY <1>3 DEF D!Select
  <2>2. ASSUME pc' = "judge", probing', outcome' = "no-work" PROVE NothingSeen'
    <3>1. ~healing /\ js' = js /\ st' = st
      BY <1>3, <2>1, <2>2 DEF D!Select
    <3>2. D!ManuallyPaused \/ D!Ready = {}
      BY <1>3, <2>2, <3>1 DEF D!Select
    <3> QED  BY <3>1, <3>2 DEF NothingSeen, D!ManuallyPaused, D!Ready
  <2> QED  BY <2>1, <2>2
<1>4. CASE D!Prepare
  <2>1. pc = "prepare" /\ (pc' = "begin" \/ (pc' = "judge" /\ outcome' = "declined"))
    BY <1>4 DEF D!Prepare
  <2> QED  BY <2>1
<1>5. CASE D!Begin
  BY <1>5 DEF D!Begin
<1>6. CASE D!Work
  <2>1. pc' = "judge" /\ outcome' = "ran"
    BY <1>6 DEF D!Work
  <2> QED  BY <2>1
<1>7. CASE D!Judge
  <2>1. pc = "judge" /\ pc' \in {"settle", "loop", "select"} /\ sig' = sig /\ healing' = healing
    BY <1>7 DEF D!Judge, D!AfterNoWork, D!watch
  <2>2. NothingSeen' <=> NothingSeen
    BY <1>7 DEF D!Judge, D!operator, NothingSeen, D!Ready
  <2>3. ASSUME pc' = "select" PROVE ~healing
    BY <1>7, <2>3 DEF D!Judge, D!AfterNoWork, D!GoesOn, D!Settling
  <2>4. ASSUME pc' = "settle" PROVE sig \/ capped' \/ (probing /\ outcome = "no-work")
    BY <1>7, <2>4 DEF D!Judge, D!AfterNoWork, D!GoesOn
  <2> QED  BY <2>1, <2>2, <2>3, <2>4
<1>8. CASE D!Settle
  <2>1. pc = "settle" /\ pc' \in {"done", "list"} /\ capped' = capped
    BY <1>8 DEF D!Settle, D!loop
  <2>3. (pc' = "done" => result' = "signal") /\ (pc' = "list" => ~sig)
    BY <1>8 DEF D!Settle
  <2>2. NothingSeen' <=> NothingSeen
    BY <1>8 DEF D!Settle, D!operator, NothingSeen, D!Ready
  <2> QED  BY <2>1, <2>2, <2>3
<1>9. CASE D!List
  <2>1. pc = "list" /\ pc' \in {"done", "classify"} /\ capped' = capped
    BY <1>9 DEF D!List, D!loop
  <2>2. NothingSeen' <=> NothingSeen
    BY <1>9 DEF D!List, D!operator, NothingSeen, D!Ready
  <2> QED  BY <2>1, <2>2
<1>10. CASE D!Classify
  <2>1. pc = "classify" /\ pc' = "done" /\ capped' = capped
    BY <1>10 DEF D!Classify, D!loop
  <2>2. NothingSeen' <=> NothingSeen
    BY <1>10 DEF D!Classify, D!operator, NothingSeen, D!Ready
  <2> QED  BY <2>1, <2>2
<1>k. ASSUME NothingSeen => NothingSeen', UNCHANGED <<pc, probing, outcome, capped, result>>,
             sig => sig', pc = "select" /\ healing' => healing
      PROVE  LookedTwice'
  BY <1>k
<1>11. CASE D!FilerEnds
  <2>1. D!Ready' \subseteq D!Ready
    BY <1>11 DEF D!FilerEnds, D!FileGap, D!Ready, DrainTyped, D!TypeOK
  <2>2. NothingSeen => NothingSeen'
    BY <1>11, <2>1, NothingSeenKept DEF D!FilerEnds, D!operator
  <2> QED  BY <1>11, <2>2, <1>k DEF D!FilerEnds, D!loop, D!watch, D!exit
<1>12. CASE D!Watchdog
  <2>1. js'.paused = "stuck" /\ D!Ready' = D!Ready
    BY <1>12 DEF D!Watchdog, D!Ready, DrainTyped, D!TypeOK
  <2>2. NothingSeen => NothingSeen'
    BY <1>12, <2>1, NothingSeenKept DEF D!Watchdog, D!operator
  <2> QED  BY <1>12, <2>2, <1>k DEF D!Watchdog, D!loop, D!watch, D!exit
<1>13. CASE D!ResumeWatch
  <2>1. NothingSeen => NothingSeen'
    BY <1>13 DEF D!ResumeWatch, D!operator, NothingSeen, D!Ready
  <2>2. pc = "select" /\ healing' => healing
    BY <1>13 DEF D!ResumeWatch
  <2> QED  BY <1>13, <2>1, <2>2, <1>k DEF D!ResumeWatch, D!loop, D!exit
<1>14. CASE D!Healed
  <2>1. NothingSeen => NothingSeen'
    BY <1>14 DEF D!Healed, D!operator, NothingSeen, D!Ready
  <2> QED  BY <1>14, <2>1, <1>k DEF D!Healed, D!loop, D!exit
<1>15. CASE D!OperatorLoads
  <2>1. NothingSeen => NothingSeen'
    BY <1>15 DEF D!OperatorLoads, NothingSeen, D!Ready
  <2> QED  BY <1>15, <2>1, <1>k DEF D!OperatorLoads, D!loop, D!watch, D!exit
<1>16. CASE D!OperatorSaves
  <2>1. NothingSeen'
    BY <1>16 DEF D!OperatorSaves, NothingSeen
  <2> QED  BY <1>16, <2>1, <1>k DEF D!OperatorSaves, D!loop, D!watch, D!exit
<1>17. CASE D!Interrupt
  <2>1. NothingSeen => NothingSeen'
    BY <1>17 DEF D!Interrupt, D!operator, NothingSeen, D!Ready
  <2> QED  BY <1>17, <2>1, <1>k DEF D!Interrupt, D!loop, D!watch, D!exit
<1>18. CASE \E t \in Task : D!Unblock(t)
  <2>1. NothingSeen'
    BY <1>18 DEF D!Unblock, NothingSeen
  <2> QED  BY <1>18, <2>1, <1>k DEF D!Unblock, D!loop, D!watch, D!exit
<1>19. CASE UNCHANGED drainVars
  <2>1. NothingSeen => NothingSeen'
    BY <1>19 DEF drainVars, NothingSeen, D!Ready
  <2> QED  BY <1>19, <2>1, <1>k DEF drainVars
<1> QED
  BY <1>1, <1>2, <1>3, <1>4, <1>5, <1>6, <1>7, <1>8, <1>9, <1>10, <1>11, <1>12, <1>13, <1>14, <1>15,
     <1>16, <1>17, <1>18, <1>19 DEF D!Next, D!DrainStep

LEMMA CompleteStep ==
  ASSUME DrainTyped, Quieted, D!CompleteMeansClosed, [D!Next]_drainVars
  PROVE  D!CompleteMeansClosed'
<1> SUFFICES ASSUME result' = "complete", NEW t \in Task
             PROVE  st'[t] \in {"closed", "unfiled", "proposed"}
  BY DEF D!CompleteMeansClosed
<1> USE DEF Quieted
<1>1. CASE D!List
  <2>1. result # "complete"
    BY <1>1 DEF D!List
  <2>2. D!OpenInScope = {} /\ st' = st
    BY <1>1, <2>1 DEF D!List
  <2> QED  BY <2>2 DEF D!OpenInScope, DrainTyped, D!TypeOK
<1>2. CASE pc = "done" /\ result = "complete" /\ ~D!List
  <2>1. st[t] \in {"closed", "unfiled", "proposed"}
    BY <1>2 DEF D!CompleteMeansClosed
  <2>2. st' = st \/ D!FilerEnds
    BY <1>2 DEF D!Next, D!DrainStep, D!Startup, D!Tick, D!Select, D!Prepare, D!Begin, D!Work, D!Judge,
                D!Settle, D!Classify, D!Watchdog, D!ResumeWatch, D!Healed, D!OperatorLoads,
                D!OperatorSaves, D!Interrupt, D!Unblock, drainVars
  <2>3. CASE D!FilerEnds
    BY <2>1, <2>3 DEF D!FilerEnds, D!FileGap, DrainTyped, D!TypeOK
  <2> QED  BY <2>1, <2>2, <2>3
<1>3. CASE result # "complete" /\ ~D!List
  <2>1. result' = result \/ D!Settle \/ D!Classify
    BY <1>3 DEF D!Next, D!DrainStep, D!Startup, D!Tick, D!Select, D!Prepare, D!Begin, D!Work, D!Judge,
                D!FilerEnds, D!Watchdog, D!ResumeWatch, D!Healed, D!OperatorLoads,
                D!OperatorSaves, D!Interrupt, D!Unblock, drainVars, D!exit
  <2>2. result' # "complete"
    BY <1>3, <2>1 DEF D!Settle, D!Classify
  <2> QED  BY <2>2
<1> QED  BY <1>1, <1>2, <1>3

LEMMA DrainInit == ASSUME D!Init PROVE DrainInv
<1>1. js \in Slice
  <2>1. MaxRepeat \in 0 .. MaxRepeat
    BY DrainAssumption
  <2>2. \A s \in Slice : [s EXCEPT !.paused = "stuck"] \in Slice /\ [s EXCEPT !.stuck = TRUE] \in Slice
                         /\ [s EXCEPT !.last = "preflight"] \in Slice /\ [s EXCEPT !.repeat = MaxRepeat] \in Slice
    BY <2>1 DEF Slice
  <2>3. [D!Quiet EXCEPT !.paused = "stuck", !.stuck = TRUE, !.last = "preflight", !.repeat = MaxRepeat] =
          [[[[D!Quiet EXCEPT !.paused = "stuck"] EXCEPT !.stuck = TRUE] EXCEPT !.last = "preflight"]
             EXCEPT !.repeat = MaxRepeat]
    OBVIOUS
  <2>4. [D!Quiet EXCEPT !.paused = "stuck", !.stuck = TRUE, !.last = "preflight", !.repeat = MaxRepeat] \in Slice
    BY <2>2, <2>3, QuietTyped
  <2> QED  BY <2>4, QuietTyped DEF D!Init
<1>2. DrainTyped
  BY <1>1 DEF D!Init, DrainTyped, D!TypeOK, Slice
<1>3. Quieted /\ LookedTwice /\ D!CompleteMeansClosed
  BY DEF D!Init, Quieted, LookedTwice, D!CompleteMeansClosed
<1> QED  BY <1>2, <1>3 DEF DrainInv

LEMMA DrainStep == ASSUME DrainInv, [D!Next]_drainVars PROVE DrainInv'
  BY DrainTypedStep, QuietedStep, LookedTwiceStep, CompleteStep DEF DrainInv

\* The promises of a drain follow from what it keeps.
LEMMA DrainHonest == ASSUME DrainInv PROVE EndsHonestly
<1>1. D!TypeOK /\ D!CompleteMeansClosed
  BY DEF DrainInv, DrainTyped
<1>2. D!AgentsSettled
  BY DEF DrainInv, Quieted, D!AgentsSettled
<1>3. D!NoReadyLeft
  <2> SUFFICES ASSUME result \notin {"none", "signal"}, ~capped, NEW t \in open,
                      D!Category(t) = "ready-but-unworked", ~late
               PROVE  FALSE
    BY DEF D!NoReadyLeft
  <2>1. js.paused = "no" /\ st[t] = "ready"
    BY DEF D!Category
  <2>2. t \in D!Ready
    BY <2>1 DEF D!Ready, DrainInv, DrainTyped
  <2> QED  BY <2>1, <2>2 DEF DrainInv, Quieted, LookedTwice, NothingSeen
<1> QED  BY <1>1, <1>2, <1>3 DEF EndsHonestly

---------------------------------------------------------------------------
\* The health gate.

LEMMA Counted ==
  ASSUME NEW n \in H!Count
  PROVE  /\ n \in Nat /\ n <= MaxFail /\ H!FailCount(n) \in -1 .. MaxFail /\ H!FailCount(n) <= n
         /\ n \in -1 .. MaxFail
<1>1. n \in Nat /\ n <= MaxFail /\ MaxFail \in Nat
  BY HealthAssumption DEF H!Count
<1> QED  BY <1>1 DEF H!FailCount

LEMMA GreenIsUnder == ASSUME NEW n PROVE H!Green(n) = GreenUnder(baseline, n)
  BY DEF H!Green, GreenUnder

LEMMA VerdictTyped ==
  ASSUME H!TypeOK, NEW at \in {"main", "other"}, NEW green \in BOOLEAN
  PROVE  /\ H!Verdict(at, green) \in [at : {"main", "other"}, baseline : -1 .. MaxFail, green : BOOLEAN]
         /\ H!Verdict(at, green).at = at /\ H!Verdict(at, green).green = green
         /\ H!Verdict(at, green).baseline = baseline
  BY DEF H!Verdict, H!TypeOK

\* checkHealth answers what running the suite would, from its cache too.
LEMMA CheckedTrue ==
  ASSUME HealthInv
  PROVE  H!CheckHealth \in BOOLEAN /\ H!CheckHealth = H!Green(fails)
<1>1. H!Green(fails) \in BOOLEAN
  BY DEF H!Green
<1>2. CASE H!Hit
  <2>1. cache.green = GreenUnder(baseline, fails)
    BY <1>2 DEF H!Hit, HealthInv, VerdictKept
  <2> QED  BY <1>1, <1>2, <2>1, GreenIsUnder DEF H!CheckHealth
<1>3. CASE ~H!Hit
  BY <1>1, <1>3 DEF H!CheckHealth
<1> QED  BY <1>2, <1>3

LEMMA HealthStep ==
  ASSUME HealthInv, [H!Next]_healthVars
  PROVE  HealthInv'
<1> DEFINE Cache == [at : {"main", "other"}, baseline : -1 .. MaxFail, green : BOOLEAN]
<1>0. /\ fails \in H!Count /\ branch \in H!Count /\ baseline \in -1 .. MaxFail /\ prev \in -1 .. MaxFail
      /\ cache \in Cache /\ repair \in {"none", "open", "claimed", "flagged", "done"}
      /\ hpc \in {"idle", "silpi", "measure", "review", "merge"} /\ round \in 0 .. MaxRounds
      /\ MaxRounds \in Nat \ {0} /\ MaxFail \in Nat
  BY HealthAssumption DEF HealthInv, H!TypeOK
<1>1. /\ VerdictKept
      /\ hpc # "idle" /\ ~fresh /\ ~moved => branch = fails
      /\ hpc # "idle" /\ kind = "repair" /\ ~moved => prev <= fails
  BY DEF HealthInv
<1>p. pushes' \in Nat
  <2>1. pushes' \in {pushes, pushes + 1}
    BY DEF H!Next, H!PickFeature, H!PickRepair, H!Silpi, H!Gates, H!Review, H!Repair, H!Merge, H!Fail,
      H!OthersPush,
           H!CloseRepair, healthVars
  <2> QED  BY <2>1 DEF HealthInv
<1>t. ASSUME fails' \in H!Count, branch' \in H!Count, baseline' \in -1 .. MaxFail, prev' \in -1 .. MaxFail,
             cache' \in Cache, repair' \in {"none", "open", "claimed", "flagged", "done"},
             hpc' \in {"idle", "silpi", "measure", "review", "merge"}, round' \in 0 .. MaxRounds,
             VerdictKept',
             hpc' # "idle" /\ ~fresh' /\ ~moved' => branch' = fails',
             hpc' # "idle" /\ kind' = "repair" /\ ~moved' => prev' <= fails'
      PROVE  HealthInv'
  BY <1>p, <1>t DEF HealthInv, H!TypeOK, H!Count
<1>k. ASSUME UNCHANGED <<cache, fails, parses>> PROVE VerdictKept'
  BY <1>1, <1>k DEF VerdictKept, GreenUnder, H!FailCount
<1>o. ASSUME cache'.at = "other" PROVE VerdictKept'
  BY <1>o DEF VerdictKept
<1>v. ASSUME NEW at \in {"main", "other"}, cache' = H!Verdict(at, H!Green(fails)), UNCHANGED <<fails, parses>>
      PROVE  cache' \in Cache /\ VerdictKept'
  <2>1. H!Green(fails) \in BOOLEAN
    BY DEF H!Green
  <2>2. /\ cache' \in Cache /\ cache'.green = H!Green(fails) /\ cache'.baseline = baseline
    BY <1>v, <2>1, VerdictTyped DEF HealthInv
  <2>3. H!Green(fails) = GreenUnder(baseline, fails)
    BY GreenIsUnder
  <2> QED  BY <1>v, <2>2, <2>3 DEF VerdictKept, GreenUnder, H!FailCount
<1>c. fails \in Nat /\ branch \in Nat /\ H!FailCount(fails) \in -1 .. MaxFail /\ H!FailCount(fails) <= fails
  BY <1>0, Counted
<1>2. CASE H!PickFeature
  <2>1. cache' = H!Verdict("main", H!Green(fails)) /\ UNCHANGED <<fails, parses, baseline>>
    BY <1>2, CheckedTrue DEF H!PickFeature, H!setup
  <2>2. cache' \in Cache /\ VerdictKept'
    BY <1>v, <2>1
  <2>3. CASE H!Begin("feature") /\ UNCHANGED <<repair, prev>>
    BY <1>0, <1>t, <2>1, <2>2, <2>3 DEF H!Begin
  <2>4. CASE /\ repair' = IF repair \in {"none", "done"} THEN "open" ELSE repair
             /\ UNCHANGED <<hpc, H!task, moved>>
    BY <1>0, <1>1, <1>2, <1>t, <2>1, <2>2, <2>4 DEF H!PickFeature, H!task
  <2> QED  BY <1>2, <2>3, <2>4 DEF H!PickFeature
<1>3. CASE H!PickRepair
  <2>1. cache' = H!Verdict("main", H!Green(fails)) /\ UNCHANGED <<fails, parses, baseline>>
    BY <1>3 DEF H!PickRepair, H!setup
  <2>2. cache' \in Cache /\ VerdictKept'
    BY <1>v, <2>1
  <2> QED  BY <1>0, <1>c, <1>3, <1>t, <2>1, <2>2 DEF H!PickRepair, H!Begin
<1>4. CASE H!Silpi
  <2>1. VerdictKept'
    BY <1>4, <1>k DEF H!Silpi, H!setup
  <2> QED  BY <1>0, <1>1, <1>4, <1>t, <2>1 DEF H!Silpi
<1>m. ASSUME H!Measured, hpc = "measure", UNCHANGED <<fails, parses>>
      PROVE  cache' \in Cache /\ VerdictKept'
  <2>1. H!Green(branch) \in BOOLEAN
    BY DEF H!Green
  <2>2. CASE fresh \/ moved
    BY <1>m, <1>o, <2>1, <2>2, VerdictTyped DEF H!Measured, HealthInv
  <2>3. CASE ~(fresh \/ moved)
    <3>1. branch = fails
      BY <1>1, <1>m, <2>3
    <3> QED  BY <1>m, <1>v, <2>3, <3>1 DEF H!Measured
  <2> QED  BY <2>2, <2>3
<1>r. ASSUME round < MaxRounds PROVE round + 1 \in 0 .. MaxRounds
  BY <1>0, <1>r
<1>5. CASE H!Gates
  <2>1. /\ UNCHANGED <<fails, parses, baseline, repair, kind, branch, fresh, prev, moved>>
        /\ hpc = "measure" /\ H!Measured
    BY <1>5 DEF H!Gates, H!setup, H!Again
  <2>2. hpc' \in {"review", "silpi", "idle"} /\ round' \in 0 .. MaxRounds
    BY <1>0, <1>5, <1>r DEF H!Gates, H!Again
  <2> QED  BY <1>0, <1>1, <1>m, <1>t, <2>1, <2>2
<1>6. CASE H!Review
  <2>1. /\ UNCHANGED <<fails, parses, baseline, repair, kind, branch, fresh, prev, moved, cache>>
        /\ hpc = "review"
    BY <1>6 DEF H!Review, H!setup, H!Again
  <2>2. hpc' \in {"merge", "silpi", "idle"} /\ round' \in 0 .. MaxRounds
    BY <1>0, <1>6, <1>r DEF H!Review, H!Again
  <2> QED  BY <1>0, <1>1, <1>k, <1>t, <2>1, <2>2
<1>7. CASE H!Repair
  <2>1. /\ UNCHANGED <<fails, parses, kind, branch, fresh, moved>>
        /\ hpc = "measure" /\ kind = "repair" /\ H!Measured
    BY <1>7 DEF H!Repair, H!setup
  <2>2. hpc' \in {"merge", "silpi", "idle"} /\ round' \in 0 .. MaxRounds
    BY <1>0, <1>7, <1>r DEF H!Repair, H!Again
  <2>3. prev' \in {prev, H!NewPrev}
    BY <1>7 DEF H!Repair
  <2>4. H!NewPrev \in -1 .. MaxFail /\ H!NewPrev <= prev
    BY <1>0, Counted DEF H!NewPrev
  <2>5. prev' \in -1 .. MaxFail /\ prev' <= prev
    BY <1>0, <2>3, <2>4
  <2>6. baseline' \in {baseline, prev'} /\ repair' \in {repair, "flagged"}
    BY <1>7 DEF H!Repair, H!Again
  <2>7. cache' \in Cache /\ VerdictKept'
    BY <1>m, <2>1
  <2>8. hpc' # "idle" /\ kind' = "repair" /\ ~moved' => prev' <= fails'
    BY <1>0, <1>1, <1>c, <2>1, <2>5
  <2> QED  BY <1>0, <1>1, <1>t, <2>1, <2>2, <2>5, <2>6, <2>7, <2>8
<1>8. CASE H!Merge
  <2>1. /\ hpc' = "idle" /\ UNCHANGED <<kind, round, branch, fresh, prev, moved, parses>>
    BY <1>8 DEF H!Merge, H!Stop, H!task, H!setup
  <2>2. repair' \in {"done", "flagged", repair} /\ baseline' \in {0, baseline} /\ fails' \in {branch, fails}
    BY <1>8 DEF H!Merge
  <2>3. cache' \in Cache /\ VerdictKept'
    <3>1. CASE cache' = [cache EXCEPT !.at = "other"]
      <4>1. cache' \in Cache /\ cache'.at = "other"
        BY <1>0, <3>1
      <4> QED  BY <4>1, <1>o
    <3>2. CASE UNCHANGED <<fails, cache>>
      BY <1>0, <1>k, <2>1, <3>2
    <3> QED  BY <1>8, <3>1, <3>2 DEF H!Merge
  <2>4. baseline' \in -1 .. MaxFail
    BY <1>0, <2>2
  <2> QED  BY <1>0, <1>t, <2>1, <2>2, <2>3, <2>4
<1>9. CASE H!Fail
  <2>1. /\ hpc' = "idle" /\ UNCHANGED <<kind, round, branch, fresh, prev, moved, parses, fails, baseline, cache>>
    BY <1>9 DEF H!Fail, H!Stop, H!task, H!setup
  <2>2. repair' \in {"open", "flagged", repair}
    BY <1>9 DEF H!Fail
  <2> QED  BY <1>0, <1>k, <1>t, <2>1, <2>2
<1>10. CASE H!OthersPush
  <2>1. /\ UNCHANGED <<kind, round, branch, fresh, prev, hpc, repair, baseline>>
        /\ fails' \in H!Count /\ moved'
    BY <1>10 DEF H!OthersPush, H!task
  <2>2. cache' \in Cache /\ cache'.at = "other"
    BY <1>0, <1>10 DEF H!OthersPush
  <2> QED  BY <1>0, <1>o, <1>t, <2>1, <2>2
<1>11. CASE H!CloseRepair
  <2>1. /\ UNCHANGED <<kind, round, branch, fresh, prev, hpc, moved, baseline, fails, parses, cache>>
        /\ repair' = "done"
    BY <1>11 DEF H!CloseRepair, H!task, H!setup
  <2> QED  BY <1>0, <1>1, <1>k, <1>t, <2>1
<1>12. CASE UNCHANGED healthVars
  BY <1>0, <1>1, <1>k, <1>t, <1>12 DEF healthVars
<1> QED
  BY <1>2, <1>3, <1>4, <1>5, <1>6, <1>7, <1>8, <1>9, <1>10, <1>11, <1>12 DEF H!Next

LEMMA HealthInit == ASSUME H!Init PROVE HealthInv
<1>1. /\ fails \in H!Count /\ branch = 0 /\ baseline = 0 /\ prev = 0 /\ hpc = "idle" /\ round = 0 /\ repair = "none"
  BY DEF H!Init
<1>2. cache = [at |-> "other", baseline |-> 0, green |-> FALSE]
  BY DEF H!Init, H!Verdict
<1>3. 0 \in -1 .. MaxFail /\ 0 \in H!Count /\ 0 \in 0 .. MaxRounds
  BY HealthAssumption DEF H!Count
<1>4. H!TypeOK
  BY <1>1, <1>2, <1>3 DEF H!TypeOK
<1>5. pushes \in Nat
  BY DEF H!Init
<1> QED  BY <1>1, <1>2, <1>4, <1>5 DEF HealthInv, VerdictKept

\* What a verdict says while no task runs, and what a quarantine may accept.
LEMMA VerdictTrue ==
  ASSUME HealthInv, [H!Next]_healthVars, hpc = "idle", UNCHANGED <<fails, pushes>>, cache' # cache
  PROVE  cache'.green = H!Green(fails)
<1>0. ~H!OthersPush
  <2>1. pushes' # pushes + 1
    BY DEF HealthInv
  <2> QED  BY <2>1 DEF H!OthersPush
<1>1. H!PickFeature \/ H!PickRepair
  BY <1>0 DEF H!Next, H!Silpi, H!Gates, H!Review, H!Repair, H!Merge, H!Fail, H!CloseRepair, healthVars
<1>2. cache' = H!Verdict("main", H!Green(fails))
  BY <1>1, CheckedTrue DEF H!PickFeature, H!PickRepair
<1>3. H!Green(fails) \in BOOLEAN
  BY DEF H!Green
<1> QED  BY <1>2, <1>3, VerdictTyped DEF HealthInv

LEMMA QuarantineBounded ==
  ASSUME HealthInv, [H!Next]_healthVars, baseline' > baseline, baseline' > 0
  PROVE  repair' = "flagged" /\ (baseline' <= fails \/ moved)
<1>1. baseline \in Int /\ baseline' # baseline /\ baseline' # 0
  BY DEF HealthInv, H!TypeOK
<1>2. H!Repair
  BY <1>1 DEF H!Next, H!PickFeature, H!PickRepair, H!Silpi, H!Gates, H!Again, H!Review, H!Merge, H!Fail,
    H!OthersPush,
              H!CloseRepair, healthVars
<1>3. repair' = "flagged" /\ baseline' = H!NewPrev /\ hpc = "measure" /\ kind = "repair"
  BY <1>1, <1>2 DEF H!Repair, H!Again
<1>4. H!NewPrev \in Int /\ H!NewPrev <= prev /\ prev \in Int /\ fails \in Int
  BY Counted DEF H!NewPrev, HealthInv, H!TypeOK, H!Count
<1> QED  BY <1>3, <1>4 DEF HealthInv

---------------------------------------------------------------------------
\* The board's reads.

LEMMA BoardInit == ASSUME B!Init PROVE BoardInv
  BY BoardAssumption DEF B!Init, BoardInv, B!Idle

LEMMA BoardStep ==
  ASSUME BoardInv, B!TailNext \/ B!ReadNext \/ UNCHANGED boardVars
  PROVE  BoardInv'
<1> DEFINE Fetched == [at : {"idle", "begun", "read", "answered"}, gen : Nat, value : Nat, floor : Nat]
           Good(q) == /\ q \in Fetched
                      /\ q.gen <= gen /\ q.floor <= told
                      /\ q.at = "read" => q.value >= q.floor /\ (q.gen = gen => q.value >= told)
                      /\ q.at = "answered" => q.value >= q.floor
<1>0. /\ events \in Nat /\ told \in Nat /\ told <= events /\ gen \in Nat /\ rows \in Nat \cup {None}
      /\ rows # None => rows \in Nat /\ rows >= told
      /\ reads \in [Reader -> Fetched] /\ \A r \in Reader : Good(reads[r])
  BY DEF BoardInv
<1>k. ASSUME UNCHANGED <<events, told, gen, rows, reads>> PROVE BoardInv'
  BY <1>k DEF BoardInv
<1>s. ASSUME NEW r \in Reader, NEW q, Good(q), reads' = [reads EXCEPT ![r] = q],
             UNCHANGED <<events, told, gen>>, rows' \in Nat \cup {None}, rows' # None => rows' >= told
      PROVE  BoardInv'
  <2>1. reads' \in [Reader -> Fetched]
    BY <1>0, <1>s
  <2>2. ASSUME NEW x \in Reader PROVE Good(reads'[x])
    <3>1. reads'[x] = IF x = r THEN q ELSE reads[x]
      BY <1>0, <1>s
    <3> HIDE DEF Good
    <3> QED  BY <1>0, <1>s, <3>1
  <2> QED  BY <1>0, <1>s, <2>1, <2>2 DEF BoardInv
<1>1. CASE B!TailNext
  BY <1>1, <1>k DEF B!TailNext, B!WriteUnit, B!Swap, B!Drain, B!board
<1>2. CASE B!Commit
  BY <1>0, <1>2 DEF B!Commit, BoardInv
<1>3. CASE B!Changed
  <2>1. /\ told' = events /\ gen' = gen + 1 /\ rows' = None /\ UNCHANGED <<events, reads>> /\ told < events
    BY <1>3 DEF B!Changed
  <2>2. \A r \in Reader : reads[r].gen \in Nat /\ reads[r].floor \in Nat /\ reads[r].value \in Nat
    BY <1>0
  <2> QED  BY <1>0, <2>1, <2>2 DEF BoardInv
<1>4. CASE B!Expire
  BY <1>0, <1>4 DEF B!Expire, BoardInv
<1>5. ASSUME NEW r \in Reader, B!Fetch(r) PROVE BoardInv'
  <2>1. CASE rows # None
    <3>1. Good([at |-> "answered", gen |-> gen, value |-> rows, floor |-> told])
      BY <1>0, <2>1
    <3> QED  BY <1>0, <1>5, <1>s, <2>1, <3>1 DEF B!Fetch
  <2>2. CASE rows = None
    <3>1. Good([at |-> "begun", gen |-> gen, value |-> 0, floor |-> told])
      BY <1>0
    <3> QED  BY <1>0, <1>5, <1>s, <2>2, <3>1 DEF B!Fetch
  <2> QED  BY <2>1, <2>2
<1>6. ASSUME NEW r \in Reader, B!ReadRows(r) PROVE BoardInv'
  <2>1. Good([reads[r] EXCEPT !.at = "read", !.value = events])
    <3> DEFINE q == [reads[r] EXCEPT !.at = "read", !.value = events]
    <3>1. reads[r] \in Fetched /\ reads[r].gen <= gen /\ reads[r].floor <= told
      BY <1>0
    <3>2. q \in Fetched
      BY <1>0, <3>1
    <3>3. q.gen = reads[r].gen /\ q.floor = reads[r].floor /\ q.at = "read" /\ q.value = events
      BY <3>1
    <3>4. reads[r].gen \in Nat /\ reads[r].floor \in Nat /\ reads[r].floor <= events
      BY <1>0, <3>1
    <3> HIDE DEF q
    <3>5. Good(q)
      BY <1>0, <3>1, <3>2, <3>3, <3>4
    <3> QED  BY <3>5 DEF q
  <2>2. reads' = [reads EXCEPT ![r] = [reads[r] EXCEPT !.at = "read", !.value = events]]
    BY <1>0, <1>6 DEF B!ReadRows
  <2> QED  BY <1>0, <1>6, <1>s, <2>1, <2>2 DEF B!ReadRows
<1>7. ASSUME NEW r \in Reader, B!Answer(r) PROVE BoardInv'
  <2>0. reads[r] \in Fetched /\ Good(reads[r]) /\ reads[r].at = "read"
    BY <1>0, <1>7 DEF B!Answer
  <2>1. Good([reads[r] EXCEPT !.at = "answered"])
    BY <2>0
  <2>2. reads' = [reads EXCEPT ![r] = [reads[r] EXCEPT !.at = "answered"]]
    BY <1>0, <1>7 DEF B!Answer
  <2>3. rows' \in Nat \cup {None} /\ (rows' # None => rows' >= told) /\ UNCHANGED <<events, told, gen>>
    BY <1>0, <1>7, <2>0 DEF B!Answer, B!Keeps
  <2> QED  BY <1>s, <2>1, <2>2, <2>3
<1>8. ASSUME NEW r \in Reader, B!Applied(r) PROVE BoardInv'
  <2>1. Good(B!Idle)
    BY <1>0 DEF B!Idle
  <2> QED  BY <1>0, <1>8, <1>s, <2>1 DEF B!Applied
<1>9. CASE UNCHANGED boardVars
  BY <1>9, <1>k DEF boardVars
<1> QED  BY <1>1, <1>2, <1>3, <1>4, <1>5, <1>6, <1>7, <1>8, <1>9 DEF B!ReadNext

---------------------------------------------------------------------------
\* Agent processes.

Session == {"none", "open", "closed"}

\* What a step may do to the tickets of the run it moves: nothing new, a start below the
\* cap, or the end of an attempt, which hands its ticket in.
Paid(r, q) ==
  \/ spend' = spend /\ spend < Cap
  \/ spend' = spend /\ \A a \in 1 .. MaxAttempts : Ticket(q, a) => Ticket(run[r], a)
  \/ /\ spend' \in {spend, spend + 1}
     /\ run[r].attempt \in 1 .. MaxAttempts /\ Ticket(run[r], run[r].attempt)
     /\ \A a \in 1 .. MaxAttempts : Ticket(q, a) => Ticket(run[r], a) /\ a # run[r].attempt

RunMoves(r) ==
  \E q \in RunType, l \in Session :
    /\ Sound(q, l) /\ run' = [run EXCEPT ![r] = q] /\ ledger' = [ledger EXCEPT ![r] = l] /\ Paid(r, q)

LEMMA StillSound == \A l \in {"none", "closed"} : Sound(A!Still, l) /\ A!Still \in RunType
  BY AgentsAssumption DEF Sound, A!Still, RunType

LEMMA StillUnpaid == \A a \in 1 .. MaxAttempts : ~Ticket(A!Still, a)
  BY DEF Ticket, A!Still

LEMMA RunFacts ==
  ASSUME RunsSound, NEW r \in Run
  PROVE  /\ run[r] \in RunType /\ ledger[r] \in Session /\ Sound(run[r], ledger[r])
         /\ run[r].attempt \in Nat /\ run[r].attempt <= MaxAttempts /\ run[r].pid \in Pid \cup {None}
  BY AgentsAssumption DEF RunsSound, RunType, Session

LEMMA EndAttemptMoves ==
  ASSUME RunsSound, NEW r \in Run, NEW transient \in BOOLEAN,
         run[r].pc \in {"attempt", "spawned", "live"}, A!Closes(r), A!EndAttempt(r, transient),
         spend' \in {spend, spend + 1}
  PROVE  RunMoves(r)
<1> DEFINE back == [run[r] EXCEPT !.pc = "backoff", !.pid = None]
           n == run[r].attempt
<1>0. /\ run[r] \in RunType /\ ledger[r] = "open" /\ n \in Nat /\ n >= 1 /\ n <= MaxAttempts
      /\ run \in [Run -> RunType] /\ MaxAttempts \in Nat
  BY RunFacts, AgentsAssumption DEF Sound, RunsSound
<1>1. ledger' = [ledger EXCEPT ![r] = "closed"]
  BY <1>0 DEF A!Closes, RunsSound
<1>2. n \in 1 .. MaxAttempts /\ Ticket(run[r], n)
  BY <1>0 DEF Ticket
<1>3. CASE transient /\ n < MaxAttempts
  <2>1. back \in RunType /\ back.pc = "backoff" /\ back.attempt = n
    BY <1>0 DEF RunType
  <2>2. run' = [run EXCEPT ![r] = back]
    BY <1>0, <1>3 DEF A!EndAttempt
  <2> HIDE DEF back
  <2>3. Sound(back, "closed")
    BY <1>0, <1>3, <2>1 DEF Sound
  <2>4. \A a \in 1 .. MaxAttempts : Ticket(back, a) => Ticket(run[r], a) /\ a # n
    BY <1>0, <2>1 DEF Ticket
  <2> QED  BY <1>1, <1>2, <2>1, <2>2, <2>3, <2>4 DEF RunMoves, Paid, Session
<1>4. CASE ~(transient /\ n < MaxAttempts)
  <2>1. run' = [run EXCEPT ![r] = A!Still]
    BY <1>0, <1>4 DEF A!EndAttempt
  <2> QED  BY <1>1, <1>2, <2>1, StillSound, StillUnpaid DEF RunMoves, Paid, Session
<1> QED  BY <1>3, <1>4

LEMMA OneRunMoves ==
  ASSUME RunsSound, NEW r \in Run,
         \/ A!StartRun(r) \/ A!Record(r) \/ A!SpawnFails(r) \/ A!Close(r) \/ A!Retry(r) \/ A!Abort(r)
         \/ \E p \in Pid : A!Spawn(r, p)
  PROVE  RunMoves(r)
<1>0. /\ run[r] \in RunType /\ ledger[r] \in Session /\ Sound(run[r], ledger[r])
      /\ run[r].attempt \in Nat /\ run[r].attempt <= MaxAttempts /\ run[r].pid \in Pid \cup {None}
      /\ run \in [Run -> RunType] /\ ledger \in [Run -> Session]
      /\ MaxAttempts \in Nat \ {0}
  BY RunFacts, AgentsAssumption DEF RunsSound, Session
<1>l. [ledger EXCEPT ![r] = ledger[r]] = ledger
  BY <1>0
<1>1. CASE A!StartRun(r)
  <2> DEFINE q == [pc |-> "attempt", pid |-> None, attempt |-> 1]
  <2>1. q \in RunType /\ Sound(q, "open")
    BY <1>0 DEF RunType, Sound
  <2>2. run' = [run EXCEPT ![r] = q] /\ ledger' = [ledger EXCEPT ![r] = "open"] /\ spend' = spend /\ spend < Cap
    BY <1>1 DEF A!StartRun, A!MayProceed, A!SpendSoFar
  <2> QED  BY <2>1, <2>2 DEF RunMoves, Paid, Session
<1>2. CASE \E p \in Pid : A!Spawn(r, p)
  <2>0. PICK p \in Pid : A!Spawn(r, p)
    BY <1>2
  <2> DEFINE q == [run[r] EXCEPT !.pc = "spawned", !.pid = p]
  <2>1. q \in RunType /\ q.pc = "spawned" /\ q.attempt = run[r].attempt
    BY <1>0 DEF RunType
  <2>2. run' = [run EXCEPT ![r] = q] /\ run[r].pc = "attempt" /\ ledger' = ledger /\ spend' = spend
    BY <1>0, <2>0 DEF A!Spawn
  <2> HIDE DEF q
  <2>3. Sound(q, ledger[r])
    BY <1>0, <2>1, <2>2 DEF Sound
  <2>4. \A a \in 1 .. MaxAttempts : Ticket(q, a) => Ticket(run[r], a)
    BY <2>1, <2>2 DEF Ticket
  <2> QED  BY <1>0, <1>l, <2>1, <2>2, <2>3, <2>4 DEF RunMoves, Paid
<1>3. CASE A!Record(r)
  <2> DEFINE q == [run[r] EXCEPT !.pc = "live"]
  <2>1. q \in RunType /\ q.pc = "live" /\ q.attempt = run[r].attempt
    BY <1>0 DEF RunType
  <2>2. run' = [run EXCEPT ![r] = q] /\ run[r].pc = "spawned" /\ ledger' = ledger /\ spend' = spend
    BY <1>0, <1>3 DEF A!Record
  <2> HIDE DEF q
  <2>3. Sound(q, ledger[r])
    BY <1>0, <2>1, <2>2 DEF Sound
  <2>4. \A a \in 1 .. MaxAttempts : Ticket(q, a) => Ticket(run[r], a)
    BY <2>1, <2>2 DEF Ticket
  <2> QED  BY <1>0, <1>l, <2>1, <2>2, <2>3, <2>4 DEF RunMoves, Paid
<1>4. CASE A!SpawnFails(r)
  <2>1. run[r].pc = "attempt" /\ A!Closes(r) /\ A!EndAttempt(r, FALSE) /\ spend' = spend
    BY <1>4 DEF A!SpawnFails
  <2> QED  BY <2>1, EndAttemptMoves
<1>5. CASE A!Close(r)
  <2>1. CASE A!Settles(r)
    <3>1. run[r].pc \in {"attempt", "spawned", "live"} /\ spend' \in {spend, spend + 1}
      BY <1>5, <2>1 DEF A!Close, A!Settles, A!Metered
    <3>2. PICK transient \in BOOLEAN : A!EndAttempt(r, transient)
      BY <1>5, <2>1 DEF A!Close
    <3>3. A!Closes(r)
      BY <1>5, <2>1 DEF A!Close
    <3> QED  BY <3>1, <3>2, <3>3, EndAttemptMoves
  <2>2. CASE ~A!Settles(r)
    <3>1. run' = [run EXCEPT ![r] = A!Still] /\ ledger' = ledger /\ spend' = spend /\ run[r].pc = "closing"
      BY <1>5, <2>2 DEF A!Close, A!Settles
    <3>2. ledger[r] \in {"none", "closed"}
      BY <1>0, <3>1 DEF Sound, Session
    <3> QED  BY <1>0, <1>l, <3>1, <3>2, StillSound, StillUnpaid DEF RunMoves, Paid
  <2> QED  BY <2>1, <2>2
<1>6. CASE A!Retry(r)
  <2> DEFINE q == [run[r] EXCEPT !.pc = "attempt", !.attempt = run[r].attempt + 1]
  <2>0. run[r].pc = "backoff" /\ ledger[r] # "open" /\ run[r].attempt < MaxAttempts /\ spend' = spend
    BY <1>0, <1>6 DEF A!Retry, Sound
  <2>5. run[r].attempt + 1 \in 0 .. MaxAttempts
    BY <1>0, <2>0
  <2>6. [run[r] EXCEPT !.pc = "attempt"] \in RunType
    BY <1>0 DEF RunType
  <2>7. q = [[run[r] EXCEPT !.pc = "attempt"] EXCEPT !.attempt = run[r].attempt + 1]
    BY <1>0 DEF RunType
  <2>1. q \in RunType /\ q.pc = "attempt" /\ q.attempt = run[r].attempt + 1
    BY <2>5, <2>6, <2>7 DEF RunType
  <2>2. run' = [run EXCEPT ![r] = q] /\ ledger' = [ledger EXCEPT ![r] = "open"]
    BY <1>0, <1>6, <2>0 DEF A!Retry
  <2> HIDE DEF q
  <2>3. Sound(q, "open")
    BY <1>0, <2>1 DEF Sound
  <2>4. \A a \in 1 .. MaxAttempts : Ticket(q, a) => Ticket(run[r], a)
    BY <1>0, <2>0, <2>1 DEF Ticket
  <2> QED  BY <2>0, <2>1, <2>2, <2>3, <2>4 DEF RunMoves, Paid, Session
<1>7. CASE A!Abort(r)
  <2> DEFINE p == run[r].pid
             q == [pc |-> IF p = None THEN "idle" ELSE "closing", pid |-> p, attempt |-> 0]
  <2>1. q \in RunType /\ q.pc \in {"idle", "closing"}
    BY <1>0 DEF RunType
  <2>2. run' = [run EXCEPT ![r] = q] /\ spend' = spend
    BY <1>7 DEF A!Abort
  <2>3. \E l \in {"none", "closed"} : ledger' = [ledger EXCEPT ![r] = l]
    <3>1. CASE run[r].pc = "backoff"
      BY <1>0, <1>l, <1>7, <3>1 DEF A!Abort, Sound, Session
    <3>2. CASE run[r].pc # "backoff"
      BY <1>0, <1>7, <3>2 DEF A!Abort, A!Closes, Sound
    <3> QED  BY <3>1, <3>2
  <2> HIDE DEF q
  <2>4. \A l \in {"none", "closed"} : Sound(q, l)
    BY <2>1 DEF Sound
  <2>5. \A a \in 1 .. MaxAttempts : ~Ticket(q, a)
    BY <2>1 DEF Ticket
  <2>6. PICK l \in {"none", "closed"} : ledger' = [ledger EXCEPT ![r] = l]
    BY <2>3
  <2>7. l \in Session /\ Sound(q, l) /\ Paid(r, q)
    BY <2>2, <2>4, <2>5 DEF Session, Paid
  <2> QED  BY <2>1, <2>2, <2>6, <2>7 DEF RunMoves
<1> QED  BY <1>1, <1>2, <1>3, <1>4, <1>5, <1>6, <1>7

\* So a step moves one run, ends them all with their worker, or leaves them alone.
LEMMA RunsMove ==
  ASSUME RunsSound, [A!Next]_agentVars
  PROVE  \/ \E r \in Run : RunMoves(r)
         \/ run' = [r \in Run |-> A!Still] /\ ledger' = [r \in Run |-> "none"] /\ spend' = spend
         \/ UNCHANGED <<run, ledger, spend>>
<1>1. CASE A!Killed \/ A!Exits
  BY <1>1 DEF A!Killed, A!Exits, A!Down
<1>2. CASE \/ A!Suite \/ A!StartWorker \/ A!Recover \/ UNCHANGED agentVars
           \/ \E p \in Pid : A!ToolCall(p) \/ A!LeaderEnds(p) \/ A!KidsEnd(p) \/ A!Freed(p)
           \/ \E i \in 1 .. MaxStarts : A!WorkerPidReused(i)
  BY <1>2 DEF A!Suite, A!StartWorker, A!Recover, agentVars, A!ToolCall, A!LeaderEnds, A!KidsEnd, A!Freed,
              A!WorkerPidReused
<1>3. CASE \E r \in Run :
             \/ A!StartRun(r) \/ A!Record(r) \/ A!SpawnFails(r) \/ A!Close(r) \/ A!Retry(r) \/ A!Abort(r)
             \/ \E p \in Pid : A!Spawn(r, p)
  BY <1>3, OneRunMoves
<1> QED  BY <1>1, <1>2, <1>3 DEF A!Next

LEMMA RunsSoundStep ==
  ASSUME RunsSound, [A!Next]_agentVars
  PROVE  RunsSound'
<1>1. CASE \E r \in Run : RunMoves(r)
  <2>1. PICK r \in Run, q \in RunType, l \in Session :
          Sound(q, l) /\ run' = [run EXCEPT ![r] = q] /\ ledger' = [ledger EXCEPT ![r] = l]
    BY <1>1 DEF RunMoves
  <2>2. run' \in [Run -> RunType] /\ ledger' \in [Run -> Session]
    BY <2>1 DEF RunsSound, Session
  <2>3. ASSUME NEW x \in Run PROVE Sound(run'[x], ledger'[x])
    <3>1. CASE x = r
      BY <2>1, <3>1 DEF RunsSound
    <3>2. CASE x # r
      BY <2>1, <3>2 DEF RunsSound
    <3> QED  BY <3>1, <3>2
  <2> QED  BY <2>2, <2>3 DEF RunsSound, Session, Sound, RunType
<1>2. CASE run' = [r \in Run |-> A!Still] /\ ledger' = [r \in Run |-> "none"]
  <2>1. run' \in [Run -> RunType] /\ ledger' \in [Run -> Session] /\ \A x \in Run : Sound(run'[x], ledger'[x])
    BY <1>2, StillSound DEF Session
  <2> QED  BY <2>1 DEF RunsSound, Session, Sound, RunType
<1>3. CASE UNCHANGED <<run, ledger>>
  BY <1>3 DEF RunsSound, Session, Sound, RunType
<1> QED  BY <1>1, <1>2, <1>3, RunsMove

\* What every run may cost at most, as sets of attempts.
LEMMA TicketsFinite ==
  /\ Tickets \subseteq Run \X (1 .. MaxAttempts)
  /\ IsFiniteSet(Run \X (1 .. MaxAttempts))
  /\ Cardinality(Run \X (1 .. MaxAttempts)) = MaxAttempts * Cardinality(Run)
  /\ Cardinality(Run) \in Nat
<1>1. IsFiniteSet(1 .. MaxAttempts) /\ Cardinality(1 .. MaxAttempts) = MaxAttempts
  BY FS_Interval, AgentsAssumption
<1>2. IsFiniteSet(Run) /\ Cardinality(Run) \in Nat
  BY FS_CardinalityType, AgentsAssumption
<1>3. /\ IsFiniteSet(Run \X (1 .. MaxAttempts))
      /\ Cardinality(Run \X (1 .. MaxAttempts)) = Cardinality(Run) * Cardinality(1 .. MaxAttempts)
  BY <1>1, <1>2, FS_Product
<1>4. Cardinality(Run) * MaxAttempts = MaxAttempts * Cardinality(Run)
  BY <1>2, AgentsAssumption
<1> QED  BY <1>1, <1>2, <1>3, <1>4 DEF Tickets

LEMMA FewerTickets ==
  ASSUME NEW S, NEW T, S \subseteq Run \X (1 .. MaxAttempts), T \subseteq S
  PROVE  /\ IsFiniteSet(S) /\ IsFiniteSet(T) /\ Cardinality(S) \in Nat /\ Cardinality(T) \in Nat
         /\ Cardinality(T) <= Cardinality(S) /\ Cardinality(S) <= MaxAttempts * Cardinality(Run)
<1>1. IsFiniteSet(S) /\ Cardinality(S) <= MaxAttempts * Cardinality(Run)
  BY TicketsFinite, FS_Subset
<1>2. IsFiniteSet(T) /\ Cardinality(T) <= Cardinality(S)
  BY <1>1, FS_Subset
<1> QED  BY <1>1, <1>2, FS_CardinalityType

LEMMA BudgetedStep ==
  ASSUME RunsSound, Budgeted, [A!Next]_agentVars
  PROVE  Budgeted'
<1> DEFINE Total == MaxAttempts * Cardinality(Run)
<1>0. /\ spend \in Nat /\ Cap \in Nat /\ Cardinality(Tickets) \in Nat /\ Total \in Nat
      /\ spend + Cardinality(Tickets) < Cap + Total
      /\ Tickets \subseteq Run \X (1 .. MaxAttempts)
  <2>1. Cardinality(Run) \in Nat /\ MaxAttempts \in Nat /\ Tickets \subseteq Run \X (1 .. MaxAttempts)
    BY TicketsFinite, AgentsAssumption
  <2>2. Cardinality(Tickets) \in Nat
    BY <2>1, FewerTickets
  <2>3. Total \in Nat
    BY <2>1
  <2> QED  BY <2>1, <2>2, <2>3, AgentsAssumption DEF Budgeted
<1> HIDE DEF Total
<1>1. /\ Tickets' \subseteq Run \X (1 .. MaxAttempts) /\ Cardinality(Tickets') \in Nat
      /\ Cardinality(Tickets') <= Total
  <2>1. Tickets' \subseteq Run \X (1 .. MaxAttempts)
    BY DEF Tickets
  <2> QED  BY <2>1, FewerTickets DEF Total
<1>2. ASSUME Tickets' \subseteq Tickets, spend' = spend PROVE Budgeted'
  <2>1. Cardinality(Tickets') <= Cardinality(Tickets)
    BY <1>0, <1>2, FewerTickets
  <2> QED  BY <1>0, <1>1, <1>2, <2>1 DEF Budgeted, Total
<1>3. ASSUME NEW r \in Run, RunMoves(r) PROVE Budgeted'
  <2>1. PICK q \in RunType : run' = [run EXCEPT ![r] = q] /\ Paid(r, q)
    BY <1>3 DEF RunMoves
  <2>2. \A x \in Run : run'[x] = IF x = r THEN q ELSE run[x]
    BY <2>1 DEF RunsSound
  <2>3. Tickets' = {k \in Run \X (1 .. MaxAttempts) : Ticket(run'[k[1]], k[2])}
    BY DEF Tickets, Ticket
  <2>4. CASE spend' = spend /\ spend < Cap
    BY <1>0, <1>1, <2>4 DEF Budgeted, Total
  <2>5. CASE spend' = spend /\ \A a \in 1 .. MaxAttempts : Ticket(q, a) => Ticket(run[r], a)
    <3>1. ASSUME NEW k \in Tickets' PROVE k \in Tickets
      <4>1. k \in Run \X (1 .. MaxAttempts) /\ Ticket(run'[k[1]], k[2]) /\ k[1] \in Run /\ k[2] \in 1 .. MaxAttempts
        BY <2>3
      <4>2. Ticket(run[k[1]], k[2])
        BY <2>2, <2>5, <4>1
      <4> QED  BY <4>1, <4>2 DEF Tickets
    <3> QED  BY <1>2, <2>5, <3>1
  <2>6. CASE /\ spend' \in {spend, spend + 1}
             /\ run[r].attempt \in 1 .. MaxAttempts /\ Ticket(run[r], run[r].attempt)
             /\ \A a \in 1 .. MaxAttempts : Ticket(q, a) => Ticket(run[r], a) /\ a # run[r].attempt
    <3> DEFINE used == <<r, run[r].attempt>>
    <3>1. used \in Tickets
      BY <2>6 DEF Tickets
    <3>2. ASSUME NEW k \in Tickets' PROVE k \in Tickets \ {used}
      <4>1. k \in Run \X (1 .. MaxAttempts) /\ Ticket(run'[k[1]], k[2]) /\ k[1] \in Run /\ k[2] \in 1 .. MaxAttempts
        BY <2>3
      <4>2. Ticket(run[k[1]], k[2])
        BY <2>2, <2>6, <4>1
      <4>3. k # used
        <5>1. CASE k[1] = r
          BY <2>2, <2>6, <4>1, <5>1
        <5>2. CASE k[1] # r
          BY <5>2
        <5> QED  BY <5>1, <5>2
      <4> QED  BY <4>1, <4>2, <4>3 DEF Tickets
    <3> HIDE DEF used
    <3>3. IsFiniteSet(Tickets)
      BY <1>0, FewerTickets
    <3>4. Cardinality(Tickets \ {used}) = Cardinality(Tickets) - 1
      BY <3>1, <3>3, FS_RemoveElement
    <3>5. Cardinality(Tickets') <= Cardinality(Tickets \ {used})
      <4>1. Tickets' \subseteq Tickets \ {used} /\ Tickets \ {used} \subseteq Run \X (1 .. MaxAttempts)
        BY <1>0, <3>2
      <4> QED  BY <4>1, FewerTickets
    <3> QED  BY <1>0, <1>1, <2>6, <3>4, <3>5 DEF Budgeted, Total
  <2> QED  BY <2>1, <2>4, <2>5, <2>6 DEF Paid
<1>4. CASE run' = [r \in Run |-> A!Still] /\ spend' = spend
  <2>1. ASSUME NEW k \in Tickets' PROVE FALSE
    <3>1. k[1] \in Run /\ k[2] \in 1 .. MaxAttempts /\ Ticket(A!Still, k[2])
      BY <1>4, <2>1 DEF Tickets, Ticket
    <3> QED  BY <3>1, StillUnpaid
  <2> QED  BY <1>2, <1>4, <2>1
<1>5. CASE UNCHANGED <<run, spend>>
  <2>1. Tickets' = Tickets
    BY <1>5 DEF Tickets, Ticket
  <2> QED  BY <1>2, <1>5, <2>1
<1> QED  BY <1>3, <1>4, <1>5, RunsMove

LEMMA GoneTyped == A!Gone \in ProcType /\ A!Gone.is = "nothing"
  BY AgentsAssumption DEF A!Gone, ProcType

\* A record is dropped with the group it names.
LEMMA EmptiedKeeps ==
  ASSUME Placed, NEW ps, A!Emptied(ps)
  PROVE  /\ proc' \in [Pid -> ProcType] /\ file' \in [Pid -> 0 .. MaxStarts]
         /\ \A p \in Pid : proc'[p].is = "agent" => p \notin ps /\ proc'[p] = proc[p] /\ file'[p] = file[p]
<1>1. 0 \in 0 .. MaxStarts
  BY AgentsAssumption
<1>2. \A p \in Pid : proc'[p] = (IF p \in ps THEN A!Gone ELSE proc[p]) /\ file'[p] = (IF p \in ps THEN 0 ELSE file[p])
  BY DEF A!Emptied
<1>3. proc' \in [Pid -> ProcType]
  BY GoneTyped DEF A!Emptied, Placed
<1>4. file' \in [Pid -> 0 .. MaxStarts]
  BY <1>1 DEF A!Emptied, Placed
<1> QED  BY <1>2, <1>3, <1>4, GoneTyped

LEMMA RecordedStep ==
  ASSUME Placed, RunsSound, Recorded, [A!Next]_agentVars
  PROVE  Placed' /\ Recorded'
<1>0. /\ up \in {"down", "starting", "ready"} /\ inst \in 0 .. MaxStarts
      /\ proc \in [Pid -> ProcType] /\ file \in [Pid -> 0 .. MaxStarts] /\ suite \subseteq 1 .. MaxStarts
      /\ run \in [Run -> RunType] /\ MaxStarts \in Nat /\ None \notin Pid
  BY AgentsAssumption DEF Placed, RunsSound
<1>1. /\ up # "down" => inst >= 1
      /\ up # "ready" => \A r \in Run : run[r] = A!Still
      /\ \A p \in Pid : proc[p].is = "agent" /\ proc[p].noted => file[p] # 0
      /\ up = "ready" => \A p \in Pid : proc[p].is = "agent" /\ proc[p].noted => proc[p].by = inst
      /\ \A r \in Run : run[r].pc = "spawned" =>
           run[r].pid \in Pid /\ (proc[run[r].pid].is = "agent" => proc[run[r].pid].by = inst)
  BY DEF Recorded
<1>a. A!Still.pc = "idle"
  BY DEF A!Still
<1>p. ASSUME up' \in {"down", "starting", "ready"}, inst' \in 0 .. MaxStarts, proc' \in [Pid -> ProcType],
             file' \in [Pid -> 0 .. MaxStarts], suite' \subseteq 1 .. MaxStarts
      PROVE  Placed'
  BY <1>p DEF Placed, ProcType

\* The worker goes on, and the agents that are there were there, with the same records.
<1>s. ASSUME UNCHANGED <<up, inst, file, run>>,
             \A p \in Pid : proc'[p].is = "agent" =>
               proc[p].is = "agent" /\ proc'[p].by = proc[p].by /\ (proc'[p].noted => proc[p].noted)
      PROVE  Recorded'
  BY <1>1, <1>s DEF Recorded, A!Still
\* A ready worker goes on.
<1>r. ASSUME up = "ready", UNCHANGED <<up, inst>>,
             \A p \in Pid : proc'[p].is = "agent" /\ proc'[p].noted => file'[p] # 0 /\ proc'[p].by = inst,
             \A r \in Run : run'[r].pc = "spawned" =>
               run'[r].pid \in Pid /\ (proc'[run'[r].pid].is = "agent" => proc'[run'[r].pid].by = inst)
      PROVE  Recorded'
  BY <1>1, <1>r DEF Recorded
\* One run of it moves on, and the processes keep whose they are.
<1>m. ASSUME up = "ready", UNCHANGED <<up, inst>>, NEW r \in Run, NEW q, q.pc # "spawned",
             run' = [run EXCEPT ![r] = q],
             \A p \in Pid : proc'[p].is = "agent" =>
               /\ proc[p].is = "agent" /\ proc'[p].by = proc[p].by
               /\ proc'[p].noted => proc[p].noted /\ file'[p] = file[p]
      PROVE  Recorded'
  <2>1. \A x \in Run : run'[x] = IF x = r THEN q ELSE run[x]
    BY <1>0, <1>m
  <2>2. \A x \in Run : run'[x].pc = "spawned" => run[x].pc = "spawned" /\ run'[x].pid = run[x].pid
    BY <1>m, <2>1
  <2> QED  BY <1>1, <1>m, <1>r, <2>2

<1>2. ASSUME NEW r \in Run, A!StartRun(r) PROVE Placed' /\ Recorded'
  <2>1. up = "ready" /\ UNCHANGED <<up, inst, proc, file, suite>>
    BY <1>2 DEF A!StartRun
  <2>2. Recorded'
    BY <1>2, <1>m, <2>1 DEF A!StartRun
  <2> QED  BY <1>0, <1>p, <2>1, <2>2
<1>3. ASSUME NEW r \in Run, NEW p \in Pid, A!Spawn(r, p) PROVE Placed' /\ Recorded'
  <2> DEFINE a == [is |-> "agent", leader |-> TRUE, kids |-> FALSE, by |-> inst, noted |-> FALSE]
             q == [run[r] EXCEPT !.pc = "spawned", !.pid = p]
  <2>1. up = "ready" /\ UNCHANGED <<up, inst, file, suite>> /\ proc' = [proc EXCEPT ![p] = a]
    BY <1>3 DEF A!Spawn
  <2>2. a \in ProcType /\ a.by = inst /\ ~a.noted
    BY <1>0 DEF ProcType
  <2>3. run' = [run EXCEPT ![r] = q] /\ q.pid = p
    BY <1>0, <1>3 DEF A!Spawn, RunType
  <2> HIDE DEF a, q
  <2>4. \A x \in Pid : proc'[x] = IF x = p THEN a ELSE proc[x]
    BY <1>0, <2>1
  <2>5. \A x \in Run : run'[x] = IF x = r THEN q ELSE run[x]
    BY <1>0, <2>3
  <2>6. \A x \in Pid : proc'[x].is = "agent" /\ proc'[x].noted => file'[x] # 0 /\ proc'[x].by = inst
    BY <1>1, <2>1, <2>2, <2>4
  <2>7. ASSUME NEW x \in Run, run'[x].pc = "spawned"
        PROVE  run'[x].pid \in Pid /\ (proc'[run'[x].pid].is = "agent" => proc'[run'[x].pid].by = inst)
    <3>1. CASE x = r
      BY <2>2, <2>3, <2>4, <2>5, <3>1
    <3>2. CASE x # r
      BY <1>1, <2>2, <2>4, <2>5, <2>7, <3>2
    <3> QED  BY <3>1, <3>2
  <2>8. Recorded'
    BY <1>r, <2>1, <2>6, <2>7
  <2>9. proc' \in [Pid -> ProcType]
    BY <1>0, <2>1, <2>2
  <2> QED  BY <1>0, <1>p, <2>1, <2>8, <2>9
<1>4. ASSUME NEW r \in Run, A!Record(r) PROVE Placed' /\ Recorded'
  <2> DEFINE p == run[r].pid
             q == [run[r] EXCEPT !.pc = "live"]
  <2>1. up = "ready" /\ UNCHANGED <<up, inst, suite>> /\ run[r].pc = "spawned"
    BY <1>4 DEF A!Record
  <2>2. p \in Pid /\ (proc[p].is = "agent" => proc[p].by = inst) /\ inst # 0
    BY <1>0, <1>1, <2>1
  <2>3. run' = [run EXCEPT ![r] = q] /\ q.pc # "spawned"
    BY <1>0, <1>4 DEF A!Record, RunType
  <2>4. CASE UNCHANGED <<file, proc>>
    <3>1. Recorded'
      BY <1>m, <2>1, <2>3, <2>4
    <3> QED  BY <1>0, <1>p, <2>1, <2>4, <3>1
  <2>5. CASE file' = [file EXCEPT ![p] = inst] /\ proc' = [proc EXCEPT ![p].noted = TRUE]
    <3> DEFINE a == [proc[p] EXCEPT !.noted = TRUE]
    <3> HIDE DEF p
    <3>0. proc[p] \in ProcType
      BY <1>0, <2>2
    <3>1. a \in ProcType /\ a.is = proc[p].is /\ a.by = proc[p].by
      BY <3>0 DEF ProcType
    <3>2. proc' = [proc EXCEPT ![p] = a]
      BY <1>0, <2>5
    <3> HIDE DEF a, q
    <3>3. \A x \in Pid : proc'[x] = (IF x = p THEN a ELSE proc[x]) /\ file'[x] = (IF x = p THEN inst ELSE file[x])
      BY <1>0, <2>5, <3>2
    <3>4. \A x \in Pid : proc'[x].is = "agent" /\ proc'[x].noted => file'[x] # 0 /\ proc'[x].by = inst
      BY <1>1, <2>1, <2>2, <3>1, <3>3
    <3>5. \A x \in Run : run'[x] = IF x = r THEN q ELSE run[x]
      BY <1>0, <2>3
    <3>6. ASSUME NEW x \in Run, run'[x].pc = "spawned"
          PROVE  run'[x].pid \in Pid /\ (proc'[run'[x].pid].is = "agent" => proc'[run'[x].pid].by = inst)
      <4>1. run[x].pc = "spawned" /\ run'[x] = run[x]
        BY <2>3, <3>5, <3>6
      <4> QED  BY <1>1, <3>1, <3>3, <4>1
    <3>7. Recorded'
      BY <1>r, <2>1, <3>4, <3>6
    <3>8. proc' \in [Pid -> ProcType] /\ file' \in [Pid -> 0 .. MaxStarts]
      BY <1>0, <2>5, <3>1, <3>2
    <3> QED  BY <1>0, <1>p, <2>1, <3>7, <3>8
  <2> QED  BY <1>4, <2>4, <2>5 DEF A!Record
<1>e. ASSUME NEW r \in Run, NEW transient, A!EndAttempt(r, transient)
      PROVE  \E q : q.pc # "spawned" /\ run' = [run EXCEPT ![r] = q]
  <2> DEFINE back == [run[r] EXCEPT !.pc = "backoff", !.pid = None]
  <2>1. back.pc = "backoff"
    BY <1>0 DEF RunType
  <2>2. run' = [run EXCEPT ![r] = back] \/ run' = [run EXCEPT ![r] = A!Still]
    BY <1>0, <1>e DEF A!EndAttempt
  <2> HIDE DEF back
  <2> QED  BY <1>a, <2>1, <2>2
<1>5. ASSUME NEW r \in Run, A!SpawnFails(r) PROVE Placed' /\ Recorded'
  <2>1. up = "ready" /\ UNCHANGED <<up, inst, proc, file, suite>> /\ A!EndAttempt(r, FALSE)
    BY <1>5 DEF A!SpawnFails
  <2>2. Recorded'
    BY <1>e, <1>m, <2>1
  <2> QED  BY <1>0, <1>p, <2>1, <2>2
<1>6. ASSUME NEW r \in Run, A!Close(r) PROVE Placed' /\ Recorded'
  <2>1. up = "ready" /\ UNCHANGED <<up, inst, suite>> /\ A!Emptied({run[r].pid})
    BY <1>6 DEF A!Close
  <2>2. \E q : q.pc # "spawned" /\ run' = [run EXCEPT ![r] = q]
    BY <1>6, <1>a, <1>e DEF A!Close
  <2>3. /\ proc' \in [Pid -> ProcType] /\ file' \in [Pid -> 0 .. MaxStarts]
        /\ \A p \in Pid : proc'[p].is = "agent" => proc'[p] = proc[p] /\ file'[p] = file[p]
    BY <2>1, EmptiedKeeps
  <2>4. Recorded'
    BY <1>m, <2>1, <2>2, <2>3
  <2> QED  BY <1>0, <1>p, <2>1, <2>3, <2>4
<1>7. ASSUME NEW r \in Run, A!Retry(r) PROVE Placed' /\ Recorded'
  <2> DEFINE q == [run[r] EXCEPT !.pc = "attempt", !.attempt = run[r].attempt + 1]
  <2>1. up = "ready" /\ UNCHANGED <<up, inst, proc, file, suite>>
    BY <1>7 DEF A!Retry
  <2>2. q.pc = "attempt"
    BY <1>0 DEF RunType
  <2>3. run' = [run EXCEPT ![r] = q]
    BY <1>0, <1>7 DEF A!Retry
  <2>4. Recorded'
    BY <1>m, <2>1, <2>2, <2>3
  <2> QED  BY <1>0, <1>p, <2>1, <2>4
<1>8. ASSUME NEW r \in Run, A!Abort(r) PROVE Placed' /\ Recorded'
  <2> DEFINE p == run[r].pid
             q == [pc |-> IF p = None THEN "idle" ELSE "closing", pid |-> p, attempt |-> 0]
  <2>1. up = "ready" /\ UNCHANGED <<up, inst, file, suite>> /\ run' = [run EXCEPT ![r] = q] /\ q.pc # "spawned"
    BY <1>8 DEF A!Abort
  <2>2. p \in Pid \cup {None}
    BY <1>0 DEF RunType
  <2>3. /\ proc' \in [Pid -> ProcType]
        /\ \A x \in Pid : proc'[x].is = proc[x].is /\ proc'[x].by = proc[x].by /\ proc'[x].noted = proc[x].noted
    <3>1. CASE p = None
      BY <1>0, <1>8, <3>1 DEF A!Abort
    <3>2. CASE p # None
      <4> DEFINE a == [proc[p] EXCEPT !.leader = FALSE, !.kids = FALSE]
      <4>1. a \in ProcType /\ a.is = proc[p].is /\ a.by = proc[p].by /\ a.noted = proc[p].noted
        BY <1>0, <2>2, <3>2 DEF ProcType
      <4>2. proc' = [proc EXCEPT ![p] = a]
        BY <1>0, <1>8, <2>2, <3>2 DEF A!Abort
      <4> HIDE DEF a
      <4> QED  BY <1>0, <4>1, <4>2
    <3> QED  BY <3>1, <3>2
  <2>4. Recorded'
    BY <1>m, <2>1, <2>3
  <2> QED  BY <1>0, <1>p, <2>1, <2>3, <2>4
<1>9. ASSUME NEW p \in Pid, A!ToolCall(p) \/ A!LeaderEnds(p) \/ A!KidsEnd(p) PROVE Placed' /\ Recorded'
  <2>1. UNCHANGED <<up, inst, file, run, suite>>
    BY <1>9 DEF A!ToolCall, A!LeaderEnds, A!KidsEnd
  <2>2. PICK a \in ProcType : /\ a.is = proc[p].is /\ a.by = proc[p].by /\ a.noted = proc[p].noted
                              /\ proc' = [proc EXCEPT ![p] = a]
    <3>1. /\ [proc[p] EXCEPT !.kids = TRUE] \in ProcType /\ [proc[p] EXCEPT !.kids = FALSE] \in ProcType
          /\ [proc[p] EXCEPT !.leader = FALSE] \in ProcType
      BY <1>0 DEF ProcType
    <3>2. \/ proc' = [proc EXCEPT ![p] = [proc[p] EXCEPT !.kids = TRUE]]
          \/ proc' = [proc EXCEPT ![p] = [proc[p] EXCEPT !.kids = FALSE]]
          \/ proc' = [proc EXCEPT ![p] = [proc[p] EXCEPT !.leader = FALSE]]
      BY <1>0, <1>9 DEF A!ToolCall, A!LeaderEnds, A!KidsEnd
    <3> QED  BY <1>0, <3>1, <3>2 DEF ProcType
  <2>3. Recorded'
    BY <1>0, <1>s, <2>1, <2>2
  <2>4. proc' \in [Pid -> ProcType]
    BY <1>0, <2>2
  <2> QED  BY <1>0, <1>p, <2>1, <2>3, <2>4
<1>10. ASSUME NEW p \in Pid, A!Freed(p) PROVE Placed' /\ Recorded'
  <2>1. UNCHANGED <<up, inst, file, run, suite>>
    BY <1>10 DEF A!Freed
  <2>2. PICK a \in ProcType : a.is # "agent" /\ proc' = [proc EXCEPT ![p] = a]
    <3>0. \A a \in ProcType : [a EXCEPT !.is = "other"] \in ProcType /\ [a EXCEPT !.leader = TRUE] \in ProcType
      BY DEF ProcType
    <3>1. [A!Gone EXCEPT !.is = "other", !.leader = TRUE] \in ProcType
      <4>1. [A!Gone EXCEPT !.is = "other", !.leader = TRUE] = [[A!Gone EXCEPT !.is = "other"] EXCEPT !.leader = TRUE]
        OBVIOUS
      <4> QED  BY <3>0, <4>1, GoneTyped
    <3>2. [A!Gone EXCEPT !.is = "other", !.leader = TRUE].is = "other"
      BY DEF A!Gone
    <3> QED  BY <1>10, <3>1, <3>2, GoneTyped DEF A!Freed
  <2>3. Recorded'
    BY <1>0, <1>s, <2>1, <2>2
  <2>4. proc' \in [Pid -> ProcType]
    BY <1>0, <2>2
  <2> QED  BY <1>0, <1>p, <2>1, <2>3, <2>4
<1>11. CASE A!Suite \/ UNCHANGED agentVars \/ \E i \in 1 .. MaxStarts : A!WorkerPidReused(i)
  <2>1. UNCHANGED <<up, inst, proc, file, run>>
    BY <1>11 DEF A!Suite, agentVars, A!WorkerPidReused
  <2>2. suite' \subseteq 1 .. MaxStarts
    <3>1. CASE A!Suite
      <4>1. inst \in 1 .. MaxStarts
        BY <1>0, <1>1, <3>1 DEF A!Suite
      <4> QED  BY <1>0, <3>1, <4>1 DEF A!Suite
    <3>2. CASE UNCHANGED agentVars \/ \E i \in 1 .. MaxStarts : A!WorkerPidReused(i)
      BY <1>0, <3>2 DEF agentVars, A!WorkerPidReused
    <3> QED  BY <1>11, <3>1, <3>2
  <2>3. Recorded'
    BY <1>s, <2>1
  <2> QED  BY <1>0, <1>p, <2>1, <2>2, <2>3
\* With the worker down no run is left, and what its agents' records say still holds.
<1>d. ASSUME up' # "ready", up' # "down" => inst' >= 1, \A r \in Run : run'[r] = A!Still,
             \A p \in Pid : proc'[p].is = "agent" /\ proc'[p].noted => file'[p] # 0
      PROVE  Recorded'
  BY <1>a, <1>d DEF Recorded, A!Still
<1>12. CASE A!Killed
  <2>1. up' = "down" /\ UNCHANGED <<inst, proc, file, suite>> /\ \A r \in Run : run'[r] = A!Still
    BY <1>12 DEF A!Killed, A!Down
  <2>2. Recorded'
    BY <1>1, <1>d, <2>1
  <2> QED  BY <1>0, <1>p, <2>1, <2>2
<1>13. CASE A!Exits
  <2>1. /\ up' = "down" /\ UNCHANGED inst /\ suite' \subseteq suite /\ A!Emptied(A!Mine)
        /\ \A r \in Run : run'[r] = A!Still
    BY <1>13 DEF A!Exits, A!Down
  <2>2. /\ proc' \in [Pid -> ProcType] /\ file' \in [Pid -> 0 .. MaxStarts]
        /\ \A p \in Pid : proc'[p].is = "agent" => proc'[p] = proc[p] /\ file'[p] = file[p]
    BY <2>1, EmptiedKeeps
  <2>3. Recorded'
    BY <1>1, <1>d, <2>1, <2>2
  <2> QED  BY <1>0, <1>p, <2>1, <2>2, <2>3
<1>14. CASE A!StartWorker
  <2>1. up = "down" /\ up' = "starting" /\ inst' = inst + 1 /\ inst < MaxStarts /\ UNCHANGED <<proc, file, run, suite>>
    BY <1>14 DEF A!StartWorker
  <2>2. inst' \in 0 .. MaxStarts /\ inst' >= 1
    BY <1>0, <2>1
  <2>3. Recorded'
    BY <1>1, <1>d, <2>1, <2>2
  <2> QED  BY <1>0, <1>p, <2>1, <2>2, <2>3
<1>15. CASE A!Recover
  <2>1. up = "starting" /\ UNCHANGED <<inst, run>> /\ \A r \in Run : run'[r] = A!Still
    BY <1>1, <1>15 DEF A!Recover
  <2>2. CASE up' = "ready" /\ A!Emptied(A!Orphans) /\ suite' = suite \ {file[p] : p \in A!Orphans}
    <3>1. /\ proc' \in [Pid -> ProcType] /\ file' \in [Pid -> 0 .. MaxStarts]
          /\ \A p \in Pid : proc'[p].is = "agent" =>
               p \notin A!Orphans /\ proc'[p] = proc[p] /\ file'[p] = file[p]
      BY <2>2, EmptiedKeeps
    <3>2. \A p \in Pid : proc[p].is = "agent" /\ p \notin A!Orphans => file[p] = 0
      BY DEF A!Orphans, A!WorkerLive, A!Running, A!Stranger
    <3>3. \A p \in Pid : ~(proc'[p].is = "agent" /\ proc'[p].noted)
      BY <1>1, <3>1, <3>2
    <3>4. Recorded'
      BY <1>1, <1>a, <2>1, <2>2, <3>3 DEF Recorded, A!Still
    <3> QED  BY <1>0, <1>p, <2>1, <2>2, <3>1, <3>4
  <2>3. CASE /\ up' = "down" /\ UNCHANGED <<file, suite>>
             /\ \E killed \in SUBSET A!Orphans : proc' = [p \in Pid |-> IF p \in killed THEN A!Gone ELSE proc[p]]
    <3>1. proc' \in [Pid -> ProcType] /\ \A p \in Pid : proc'[p].is = "agent" => proc'[p] = proc[p]
      BY <1>0, <2>3, GoneTyped
    <3>2. Recorded'
      BY <1>1, <1>d, <2>1, <2>3, <3>1
    <3> QED  BY <1>0, <1>p, <2>1, <2>3, <3>1, <3>2
  <2> QED  BY <1>15, <2>2, <2>3 DEF A!Recover
<1> QED
  BY <1>2, <1>3, <1>4, <1>5, <1>6, <1>7, <1>8, <1>9, <1>10, <1>11, <1>12, <1>13, <1>14, <1>15 DEF A!Next

LEMMA AgentsInit == ASSUME A!Init PROVE AgentsInv
<1>1. run = [r \in Run |-> A!Still] /\ ledger = [r \in Run |-> "none"] /\ spend = 0
  BY DEF A!Init
<1>2. RunsSound
  BY <1>1, StillSound DEF RunsSound
<1>3. Placed
  BY AgentsAssumption, GoneTyped DEF A!Init, Placed
<1>4. Recorded
  BY <1>1, GoneTyped DEF A!Init, Recorded, A!Still
<1>5. Budgeted
  <2>1. Tickets = {}
    BY <1>1, StillUnpaid DEF Tickets
  <2>2. Cardinality(Tickets) = 0
    BY <2>1, FS_EmptySet
  <2>3. Cardinality(Run) \in Nat /\ Cardinality(Run) # 0
    BY FS_CardinalityType, FS_EmptySet, AgentsAssumption
  <2>4. MaxAttempts \in Nat /\ MaxAttempts > 0 /\ Cardinality(Run) > 0
    BY <2>3, AgentsAssumption
  <2>5. MaxAttempts * Cardinality(Run) \in Nat /\ MaxAttempts * Cardinality(Run) > 0
    BY <2>3, <2>4
  <2> QED  BY <1>1, <2>2, <2>5, AgentsAssumption DEF Budgeted
<1> QED  BY <1>2, <1>3, <1>4, <1>5 DEF AgentsInv

LEMMA AgentsStep == ASSUME AgentsInv, [A!Next]_agentVars PROVE AgentsInv'
  BY RecordedStep, RunsSoundStep, BudgetedStep DEF AgentsInv

LEMMA AgentsKept ==
  ASSUME AgentsInv
  PROVE  A!TypeOK /\ A!NoOrphanWorks /\ A!SessionsCloseOnce /\ A!SpendCapped
<1>1. Placed /\ RunsSound /\ Recorded /\ Budgeted
  BY DEF AgentsInv
<1>2. A!TypeOK
  BY <1>1 DEF Placed, RunsSound, RunType, ProcType, A!TypeOK
<1>3. A!NoOrphanWorks
  BY <1>1 DEF Recorded, A!NoOrphanWorks
<1>4. A!SessionsCloseOnce
  BY <1>1 DEF RunsSound, Sound, A!SessionsCloseOnce
<1>5. A!SpendCapped
  <2>1. A!Cardinality(Run) = Cardinality(Run)
    BY DEF A!Cardinality, Cardinality
  <2>2. spend \in Nat /\ Cardinality(Tickets) \in Nat /\ spend + Cardinality(Tickets) < Cap + MaxAttempts * Cardinality(Run)
    BY <1>1, TicketsFinite, FewerTickets DEF Budgeted
  <2>3. Cap + MaxAttempts * Cardinality(Run) \in Nat
    BY TicketsFinite, AgentsAssumption
  <2>4. spend < Cap + MaxAttempts * Cardinality(Run)
    BY <2>2, <2>3
  <2> QED  BY <2>1, <2>4 DEF A!SpendCapped
<1> QED  BY <1>2, <1>3, <1>4, <1>5

---------------------------------------------------------------------------
\* The parts together.

LEMMA InvInit == Init => Inv
  BY DrainInit, HealthInit, AgentsInit, BoardInit DEF Init, Inv

\* A step is one of each part's own, or leaves that part alone.
LEMMA StepsOf ==
  ASSUME [Next]_vars
  PROVE  /\ [D!Next]_drainVars /\ [H!Next]_healthVars /\ [A!Next]_agentVars
         /\ B!TailNext \/ B!ReadNext \/ UNCHANGED boardVars
  BY DEF Next, vars

LEMMA InvStep == Inv /\ [Next]_vars => Inv'
<1> SUFFICES ASSUME Inv, [Next]_vars PROVE Inv'
  OBVIOUS
<1>1. DrainInv'
  BY StepsOf, DrainStep DEF Inv
<1>2. HealthInv'
  BY StepsOf, HealthStep DEF Inv
<1>3. AgentsInv'
  BY StepsOf, AgentsStep DEF Inv
<1>4. BoardInv'
  BY StepsOf, BoardStep DEF Inv
<1> QED  BY <1>1, <1>2, <1>3, <1>4 DEF Inv

LEMMA InvHolds == Spec => []Inv
  BY InvInit, InvStep, PTL DEF Spec

\* drain.ts: a drain that says how it went has no backfill and no self-heal at work, says
\* complete only of a scope that is closed, and leaves no task it could have worked, whatever
\* the tasks, the cap, the refusals, the watchdog and the operator do between its steps.
THEOREM DrainsEndHonestly == Spec => []EndsHonestly
<1>1. Inv => EndsHonestly
  BY DrainHonest DEF Inv
<1> QED  BY <1>1, InvHolds, PTL

\* health.ts: the gate's verdict on main is the one its suite gives under the baseline of the
\* moment, from the cache too, and a quarantine accepts no more failures than its repair
\* began with, for every number of failures and rounds.
THEOREM GateTellsTruth == Spec => GateTruthful
<1>1. ASSUME Inv, [Next]_vars
      PROVE  [(hpc = "idle" /\ UNCHANGED <<fails, pushes>> /\ cache' # cache) =>
                cache'.green = H!Green(fails)]_(H!vars)
  BY <1>1, StepsOf, VerdictTrue DEF Inv
<1>2. ASSUME Inv, [Next]_vars
      PROVE  [(baseline' > baseline /\ baseline' > 0) =>
                repair' = "flagged" /\ (baseline' <= fails \/ moved)]_(H!vars)
  BY <1>2, StepsOf, QuarantineBounded DEF Inv
<1> QED  BY <1>1, <1>2, InvHolds, PTL DEF GateTruthful, H!GateTruthful, H!QuarantineCapped, Spec

\* agent-procs.ts, runner.ts, spend.ts: no recorded agent of a dead worker works beside a
\* ready one, every session closes once, and the budget is passed by less than the attempts
\* of the runs that overlap, however many there are and however workers die and start.
THEOREM AgentsAreSafe == Spec => []AgentsSafe
<1>1. Inv => AgentsSafe
  BY AgentsKept DEF Inv, AgentsSafe, HealthInv
<1> QED  BY <1>1, InvHolds, PTL

\* live.ts, beads-read.ts: no read that was under way puts rows in the cache, or before the
\* browser, that are older than what a `tasks` frame told of before it was asked for.
THEOREM FetchesAreFresh == Spec => []BoardFresh
<1>1. Inv => BoardFresh
  BY DEF Inv, BoardInv, BoardFresh, B!FreshAfterFrame
<1> QED  BY <1>1, InvHolds, PTL

=============================================================================
