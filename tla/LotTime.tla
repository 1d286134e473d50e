------------------------------ MODULE LotTime ------------------------------
(***************************************************************************)
(* Where a worker's time went: the scheduler's phase events, with its empty  *)
(* polls folded into one (sthapathi/index.ts), the events of sessions, gates *)
(* and merges, and the breakdown metrics.ts computes from them.  A          *)
(* Parikshaka filed after a merge is not awaited and overlaps what follows.  *)
(* Time is whole numbers; an interval is the set of the units in it.         *)
(***************************************************************************)
EXTENDS Naturals, Sequences, SequencesExt, FiniteSets, FiniteSetsExt

CONSTANTS
  MaxTime, MaxEvents,   \* bounds: the clock and the feed
  None

VARIABLES
  now, feed,
  phase, entered,       \* the phase, and when it began (None before the first change)
  pending, accum,       \* createScheduler: pendingIdleMs and idleAccum
  act, since, step,     \* what the dispatch is at, since when, and how far it came
  park                  \* when the un-awaited Parikshaka session began, or None

vars == <<now, feed, phase, entered, pending, accum, act, since, step, park>>

NoPolls == [ms |-> 0, polls |-> 0]
PhaseEvent(from, to, held) == [type |-> "phase", ts |-> now, from |-> from, to |-> to, dur |-> held]
TimedEvent(type, dur) == [type |-> type, ts |-> now, from |-> None, to |-> None, dur |-> dur]

Init ==
  /\ now = 0 /\ feed = <<>>
  /\ phase = "IDLE" /\ entered = None /\ pending = None /\ accum = NoPolls
  /\ act = "none" /\ since = 0 /\ step = 0 /\ park = None

Room == Len(feed) < MaxEvents
scheduler == <<phase, entered, pending, accum>>
dispatch == <<act, since, step, park>>

Tick == now < MaxTime /\ now' = now + 1 /\ UNCHANGED <<feed, scheduler, dispatch>>

----------------------------------------------------------------------------
\* recordPhaseChange: a poll's idle time waits until it is known whether the poll found work.
Flushed == IF accum.polls > 0 THEN <<PhaseEvent("IDLE", "SELECTING", accum.ms)>> ELSE <<>>
Buffered(from) == IF pending # None /\ from = "SELECTING"
                  THEN <<PhaseEvent("IDLE", "SELECTING", pending)>> ELSE <<>>
RecordPhaseChange(from, to, held) ==
  CASE from = "IDLE" -> pending' = held /\ UNCHANGED <<feed, accum>>
    [] from = "SELECTING" /\ to = "IDLE" ->
         /\ accum' = [ms |-> accum.ms + pending, polls |-> accum.polls + 1]
         /\ pending' = None /\ UNCHANGED feed
    [] OTHER ->
         /\ feed' = feed \o Flushed \o Buffered(from) \o <<PhaseEvent(from, to, held)>>
         /\ accum' = NoPolls /\ pending' = IF from = "SELECTING" THEN None ELSE pending

SetPhase(p) ==
  /\ phase' = p /\ entered' = now
  /\ RecordPhaseChange(phase, p, IF entered = None THEN 0 ELSE now - entered)
  /\ step' = 0 /\ UNCHANGED <<now, act, since, park>>

\* runCycle, and scheduleLoop's wait after a cycle that ran nothing.
Ran ==          \* the last cycle ran a task: the next follows at once
  /\ accum.polls = 0
  /\ \E i \in DOMAIN feed : /\ feed[i].from = "WORKING"
                            /\ \A j \in i+1..Len(feed) : feed[j].type # "phase"
BeginCycle ==
  /\ phase = "IDLE" /\ Room /\ (IF entered = None \/ Ran THEN TRUE ELSE now > entered)
  /\ SetPhase("SELECTING")
Select == phase = "SELECTING" /\ \E p \in {"PREPARING", "IDLE"} : SetPhase(p)
Prepare == phase = "PREPARING" /\ \E p \in {"WORKING", "IDLE"} : SetPhase(p)
EndCycle == phase = "WORKING" /\ act = "none" /\ SetPhase("IDLE")

\* The worker shuts down between cycles: flushPhase, and no event after it.
Shutdown ==
  /\ phase = "IDLE" /\ park = None /\ accum.polls > 0
  /\ feed' = feed \o Flushed /\ accum' = NoPolls /\ phase' = "stopped"
  /\ UNCHANGED <<now, entered, pending, dispatch>>

\* A session, the gates, a merge: one after the other within the working phase.
Steps == <<"session", "gates", "merge">>
BeginWork(k) ==
  /\ phase = "WORKING" /\ act = "none" /\ Room /\ k > step
  /\ act' = Steps[k] /\ step' = k /\ since' = now
  /\ UNCHANGED <<now, feed, scheduler, park>>
EndWork ==
  /\ act # "none" /\ act' = "none"
  /\ feed' = Append(feed, TimedEvent(act, now - since))
  /\ \/ UNCHANGED park
     \/ act = "merge" /\ park = None /\ park' = now      \* a backfill is begun, not awaited
  /\ UNCHANGED <<now, scheduler, since, step>>
ParikshakaEnds ==
  /\ park # None /\ Room /\ phase # "stopped" /\ park' = None
  /\ feed' = Append(feed, TimedEvent("parikshaka", now - park))
  /\ UNCHANGED <<now, scheduler, act, since, step>>

Next ==
  \/ Tick \/ BeginCycle \/ Select \/ Prepare \/ EndCycle \/ Shutdown
  \/ \E k \in DOMAIN Steps : BeginWork(k)
  \/ EndWork \/ ParikshakaEnds
Spec == Init /\ [][Next]_vars

----------------------------------------------------------------------------
\* computeLotBreakdowns.  worker_started is at 0; the lot lasts to its last event.
Units(a, b) == {t \in 0..MaxTime : a <= t /\ t < b}
LastMs == IF feed = <<>> THEN 0 ELSE Max({feed[i].ts : i \in DOMAIN feed})
Of(type) == {i \in DOMAIN feed : feed[i].type = type}
Total(S) == FoldSet(LAMBDA i, n : n + feed[i].dur, 0, S)
Covered(S) == UNION {Units(feed[i].ts - feed[i].dur, feed[i].ts) : i \in S}
Left(from) == {i \in Of("phase") : feed[i].from = from}

\* The latest phase event before the i-th event.
Previous(i) == LET P == {j \in Of("phase") : j < i} IN IF P = {} THEN 0 ELSE Max(P)

\* Idle is placed back to when the scheduler last entered it: folded polls span that time.
IdleFrom(i) ==
  LET j == Previous(i)
      own == feed[i].ts - feed[i].dur
  IN IF j # 0 /\ feed[j].to = "IDLE" THEN Min({feed[j].ts, own}) ELSE own
IdleCovered == UNION {Units(IdleFrom(i), feed[i].ts) : i \in Left("IDLE")}

\* workingWindowsOf; a window still open ends with the lot.
WorkingUnits ==
  UNION {Units(feed[Previous(i)].ts, feed[i].ts) : i \in Left("WORKING")}
  \cup UNION {Units(feed[i].ts, LastMs) : i \in {j \in Of("phase") : feed[j].to = "WORKING"
                                                  /\ \A k \in Of("phase") : k <= j}}

CountedFirst == Covered(Of("gates") \cup Of("merge") \cup Left("SELECTING") \cup Left("PREPARING"))
                \cup IdleCovered

\* Sessions on the serial timeline, the awaited ones before the Parikshaka's.
AnyUnits(i, counted) == Covered({i}) \cap WorkingUnits
SerialUnits(i, counted) == (Covered({i}) \cap WorkingUnits) \ counted
PlaceSession(acc, i) ==
  LET units == SerialUnits(i, acc.counted)
  IN [counted |-> acc.counted \cup units,
      ms |-> acc.ms + Min({feed[i].dur, Cardinality(units)})]
Placed == SetToSortSeq(Of("session"), <) \o SetToSortSeq(Of("parikshaka"), <)
SessionsMs == FoldLeft(PlaceSession, [counted |-> CountedFirst, ms |-> 0], Placed).ms

Attributed ==
  SessionsMs + Total(Of("gates")) + Total(Of("merge")) + Total(Left("SELECTING"))
  + Total(Left("PREPARING")) + Total(Left("IDLE"))

----------------------------------------------------------------------------
TypeOK ==
  /\ now \in 0..MaxTime /\ phase \in {"IDLE", "SELECTING", "PREPARING", "WORKING", "stopped"}
  /\ act \in {"none", "session", "gates", "merge"} /\ accum.polls \in Nat

\* No time is counted twice: the parts of a lot add up to no more than it lasted, though a
\* Parikshaka overlaps the next task's work and idle polls are reported late and folded into
\* one event that spans more than the time it stands for.
NothingTwice == Attributed <= LastMs

=============================================================================
