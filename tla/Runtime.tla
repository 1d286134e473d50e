------------------------------ MODULE Runtime ------------------------------
(***************************************************************************)
(* A running worker and what watches it, composed: a drain, the health      *)
(* gate, agent processes, the board's log tail and its cache.  They share   *)
(* no state, so a behaviour is of one of them and the others stay as they   *)
(* began.                                                                   *)
(***************************************************************************)
EXTENDS Integers, FiniteSets

CONSTANTS
  None,
  Task, Gap, RepairTask, Happens, MaxRepeat, Caps, MaxActs,               \* a drain
  MaxFail, MaxRounds, MaxPushes,                                          \* the health gate
  Pid, Run, MaxStarts, MaxAttempts, MaxReuse, Cap,                        \* agent processes
  Reader, LogAtStart, MaxLines, MaxSwaps, MaxEvents, NoLog                \* the board

VARIABLES part,
          cap, pc, probing, outcome, cycles, capped, st, cur, filer, js, draft, acts, late,
          wasStuck, aborted, healing, sig, open, result,
          fails, parses, ablated, baseline, cache, repair, hpc, kind, round, branch, fresh, prev,
          moved, pushes,
          up, inst, reused, proc, file, run, suite, ledger, spend, reuses,
          log, lines, swaps, offset, partial, sent, due, unseen, missed, events, told, gen, rows, reads

drainVars == <<cap, pc, probing, outcome, cycles, capped, st, cur, filer, js, draft, acts, late,
               wasStuck, aborted, healing, sig, open, result>>
healthVars == <<fails, parses, ablated, baseline, cache, repair, hpc, kind, round, branch, fresh, prev,
                moved, pushes>>
agentVars == <<up, inst, reused, proc, file, run, suite, ledger, spend, reuses>>
boardVars == <<log, lines, swaps, offset, partial, sent, due, unseen, missed, events, told, gen, rows, reads>>

\* The watchdog waits for one repetition at least.
ASSUME DrainAssumption == MaxRepeat \in Nat \ {0}

\* maxRoundsPerBead is positive.
ASSUME HealthAssumption == MaxFail \in Nat /\ MaxRounds \in Nat \ {0}

\* There is a run to make and it has an attempt; the cap is a count of attempts.
ASSUME AgentsAssumption ==
  /\ None \notin Pid /\ MaxStarts \in Nat
  /\ IsFiniteSet(Run) /\ Run # {} /\ MaxAttempts \in Nat \ {0} /\ Cap \in Nat

\* A cached value is told from an empty cache.
ASSUME BoardAssumption == None \notin Nat

D == INSTANCE Drain WITH Repair <- RepairTask

H == INSTANCE Health WITH pc <- hpc

A == INSTANCE Agents

B == INSTANCE Board WITH cache <- rows

\* A part that does not run is at rest in one of its initial states.
Init ==
  /\ part \in {"drain", "health", "agents", "tail", "board"}
  /\ D!Init /\ (part # "drain" => cap = 0 /\ js = D!Quiet /\ \A t \in Task : st[t] # "held")
  /\ H!Init /\ (part # "health" => fails = 0 /\ parses /\ ~ablated)
  /\ A!Init
  /\ B!Init /\ (part # "tail" => log = <<>>)

Next ==
  /\ UNCHANGED part
  /\ \/ part = "drain" /\ D!Next /\ UNCHANGED <<healthVars, agentVars, boardVars>>
     \/ part = "health" /\ H!Next /\ UNCHANGED <<drainVars, agentVars, boardVars>>
     \/ part = "agents" /\ A!Next /\ UNCHANGED <<drainVars, healthVars, boardVars>>
     \/ part = "tail" /\ B!TailNext /\ UNCHANGED <<drainVars, healthVars, agentVars>>
     \/ part = "board" /\ B!ReadNext /\ UNCHANGED <<drainVars, healthVars, agentVars>>

vars == <<part, drainVars, healthVars, agentVars, boardVars>>
Spec == Init /\ [][Next]_vars

\* drain.ts: a drain that says how it went has no agent at work; complete means all is
\* closed; and what it could have worked is not left.
EndsHonestly == D!TypeOK /\ D!AgentsSettled /\ D!CompleteMeansClosed /\ D!NoReadyLeft
\* health.ts, dispatch.ts: the gate tells the truth about main, from its cache too, and a
\* quarantine never accepts more failures than its repair began with.
GateTruthful == H!GateTruthful /\ H!QuarantineCapped
\* agents/: no orphan agent beside a ready worker, every session closes once, and the
\* budget is overshot by the attempts under way at most.
AgentsSafe == A!TypeOK /\ H!TypeOK /\ A!NoOrphanWorks /\ A!SessionsCloseOnce /\ A!SpendCapped
\* live.ts, beads-read.ts: a fetch after a frame is fresh.
BoardFresh == B!FreshAfterFrame

=============================================================================
