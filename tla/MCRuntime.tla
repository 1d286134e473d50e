----------------------------- MODULE MCRuntime -----------------------------
(***************************************************************************)
(* A running worker and what watches it, each on its own small instance,    *)
(* and beside them the metrics of a lot, computed over its whole feed.      *)
(***************************************************************************)
EXTENDS Runtime

CONSTANTS MaxTime, MaxFeed

VARIABLES lot, now, feed, phase, entered, pending, accum, act, since, step, park

lotVars == <<now, feed, phase, entered, pending, accum, act, since, step, park>>

\* The log is empty or has a line when the first browser connects.
OldLine == <<<<0, "head">>, <<0, "tail">>, <<0, "nl">>>>
Logs == {<<>>, OldLine}

L == INSTANCE LotTime WITH MaxEvents <- MaxFeed

\* A lot's metrics share no state with the others, which rest meanwhile.
MCInit == lot \in BOOLEAN /\ Init /\ (lot => part = "agents") /\ L!Init
MCNext ==
  /\ UNCHANGED lot
  /\ \/ ~lot /\ Next /\ UNCHANGED lotVars
     \/ lot /\ L!Next /\ UNCHANGED vars

\* The fairness of Drain's RecoveringSpec: cycles and agents have time limits, the timers
\* fire, and an agent run succeeds now and then.
Runs(A1) == part = "drain" /\ A1 /\ UNCHANGED <<part, healthVars, agentVars, boardVars, lot, lotVars>>
FairSpec ==
  /\ MCInit /\ [][MCNext]_<<vars, lot, lotVars>>
  /\ WF_drainVars(Runs(D!DrainStep)) /\ WF_drainVars(Runs(D!FilerEnds)) /\ WF_drainVars(Runs(D!Watchdog))
  /\ WF_drainVars(Runs(D!Healed)) /\ WF_drainVars(Runs(D!OperatorSaves)) /\ SF_drainVars(Runs(D!Succeeds))

\* drain.ts: a drain ends, by its watchdog if by nothing else.
Terminates == part = "drain" => D!Terminates
\* phalaka/, metrics.ts: the tail sends each line once, a fetch after a frame is fresh, and
\* no moment of a lot counts in two of its categories.
ReportsTrue == B!TypeOK /\ L!TypeOK /\ B!EveryLine /\ BoardFresh /\ L!NothingTwice

=============================================================================
