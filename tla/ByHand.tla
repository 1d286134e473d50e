------------------------------- MODULE ByHand -------------------------------
(***************************************************************************)
(* A task worked, edited and given back by hand (policy/task/by-hand.ts,     *)
(* cli/task.ts), each command a process of its own whose calls other people  *)
(* and the worker come between.  A claim by hand is found again by its       *)
(* actor; the acceptance checks are Shreni's rows, beside the engine's; a    *)
(* confirmation is written on the attempt, and then the move reads it.       *)
(***************************************************************************)
EXTENDS Naturals, FiniteSets

CONSTANTS
  Person,        \* people who act by hand
  Check,         \* acceptance checks
  MaxAttempts,   \* bound: claims of the task
  None

VARIABLES
  state, holder,     \* the task; who holds its lease: a person, "worker", or None
  attempt,           \* its newest attempt
  checks,            \* its acceptance checks
  seen,              \* the checks each attempt began with
  passed, landed,    \* each attempt's evidence: the checks it was confirmed over; merged
  cmd,               \* the command each person runs, by its next call, or "none"
  at,                \* what the command read: the attempt, its holder and the checks
  forced             \* the attempts ended with --force, and whom the command had read

vars == <<state, holder, attempt, checks, seen, passed, landed, cmd, at, forced>>

Attempt == 1..MaxAttempts
Actor == Person \cup {"worker"}
Editable == {"open", "blocked"}

TypeOK ==
  /\ state \in {"open", "claimed", "blocked", "done"} /\ holder \in Actor \cup {None}
  /\ (state = "claimed") = (holder # None)
  /\ attempt \in 0..MaxAttempts /\ checks \subseteq Check
  /\ cmd \in [Person -> {"none", "finish-read", "finish-confirm", "finish-move", "confirm-read",
                         "confirm-move", "force-read", "force-move", "edit"}]
  /\ \A p \in Person : at[p] \in [attempt : 0..MaxAttempts, holder : Actor \cup {None}, checks : SUBSET Check]

Init ==
  /\ state = "open" /\ holder = None /\ attempt = 0 /\ checks \in SUBSET Check
  /\ seen = [a \in Attempt |-> {}] /\ passed = [a \in Attempt |-> None] /\ landed = [a \in Attempt |-> FALSE]
  /\ cmd = [p \in Person |-> "none"] /\ forced = {}
  /\ at = [p \in Person |-> [attempt |-> 0, holder |-> None, checks |-> {}]]

Goto(p, c) == cmd' = [cmd EXCEPT ![p] = c]
Note(p, h, cs) == at' = [at EXCEPT ![p] = [attempt |-> attempt, holder |-> h, checks |-> cs]]
evidence == <<passed, landed>>
engine == <<state, holder, attempt, seen>>

----------------------------------------------------------------------------
\* claimByHand, and the worker's claim: an open task, a fresh attempt.
Claim(a) ==
  /\ state = "open" /\ attempt < MaxAttempts
  /\ state' = "claimed" /\ holder' = a /\ attempt' = attempt + 1
  /\ seen' = [seen EXCEPT ![attempt + 1] = checks]
  /\ UNCHANGED <<checks, evidence, cmd, at, forced>>

\* The lease lapses, its holder gives it back, or the worker's run lands its work and flags
\* the task for a manual check; a flagged task is given back by hand.
GiveBack ==
  /\ state = "claimed" /\ state' = "open" /\ holder' = None
  /\ UNCHANGED <<attempt, seen, checks, evidence, cmd, at, forced>>
Flag ==
  /\ holder = "worker" /\ state' = "blocked" /\ holder' = None
  /\ \E l \in BOOLEAN : landed' = [landed EXCEPT ![attempt] = l]
  /\ UNCHANGED <<attempt, seen, checks, passed, cmd, at, forced>>
Unblock ==
  /\ state = "blocked" /\ state' = "open"
  /\ UNCHANGED <<holder, attempt, seen, checks, evidence, cmd, at, forced>>

----------------------------------------------------------------------------
\* finishByHand: heldClaim finds the person's own claim; the checks are read and, if there
\* are any, the confirmation is recorded on the attempt; the move is fenced on it and its
\* guard reads what the attempt's evidence says.
Finish(p) ==
  /\ cmd[p] = "none" /\ holder = p
  /\ Note(p, p, {}) /\ Goto(p, "finish-read")
  /\ UNCHANGED <<engine, checks, evidence, forced>>
FinishRead(p) ==
  /\ cmd[p] = "finish-read"
  /\ at' = [at EXCEPT ![p].checks = checks]
  /\ \/ checks = {} /\ Goto(p, "finish-move")
     \/ checks # {} /\ Goto(p, "finish-confirm")
     \/ checks # {} /\ Goto(p, "none")                   \* without --checks-passed
  /\ UNCHANGED <<engine, checks, evidence, forced>>
Confirmation(p) == passed' = [passed EXCEPT ![at[p].attempt] = at[p].checks]
FinishConfirm(p) ==
  /\ cmd[p] = "finish-confirm" /\ Confirmation(p) /\ Goto(p, "finish-move")
  /\ UNCHANGED <<engine, checks, landed, at, forced>>
ChecksPassed == checks = {} \/ passed[attempt] # None
FinishMove(p) ==
  /\ cmd[p] = "finish-move" /\ Goto(p, "none")
  /\ IF holder = p /\ attempt = at[p].attempt /\ ChecksPassed
     THEN state' = "done" /\ holder' = None ELSE UNCHANGED <<state, holder>>
  /\ UNCHANGED <<attempt, seen, checks, evidence, at, forced>>

\* confirm: a blocked task with checks whose newest attempt landed; the person is asked,
\* the same is read again, the confirmation is recorded and the move fires.
Confirmable == state = "blocked" /\ checks # {} /\ attempt > 0 /\ landed[attempt]
Confirm(p) ==
  /\ cmd[p] = "none" /\ Confirmable
  /\ Note(p, None, checks) /\ Goto(p, "confirm-read")
  /\ UNCHANGED <<engine, checks, evidence, forced>>
ConfirmRead(p) ==
  /\ cmd[p] = "confirm-read"
  /\ IF Confirmable
     THEN /\ Note(p, None, checks) /\ passed' = [passed EXCEPT ![attempt] = checks] /\ Goto(p, "confirm-move")
     ELSE Goto(p, "none") /\ UNCHANGED <<passed, at>>
  /\ UNCHANGED <<engine, checks, landed, forced>>
ConfirmMove(p) ==
  /\ cmd[p] = "confirm-move" /\ Goto(p, "none")
  /\ state' = IF Confirmable /\ passed[attempt] # None THEN "done" ELSE state
  /\ UNCHANGED <<holder, attempt, seen, checks, evidence, at, forced>>

----------------------------------------------------------------------------
\* releaseByHand --force: someone else holds it; the holder is read again, and the move is
\* fenced on the attempt read with it.
Force(p) ==
  /\ cmd[p] = "none" /\ holder \notin {None, p}
  /\ Note(p, holder, {}) /\ Goto(p, "force-read")
  /\ UNCHANGED <<engine, checks, evidence, forced>>
ForceRead(p) ==
  /\ cmd[p] = "force-read"
  /\ IF holder # None /\ holder = at[p].holder
     THEN Note(p, holder, {}) /\ Goto(p, "force-move") ELSE Goto(p, "none") /\ UNCHANGED at
  /\ UNCHANGED <<engine, checks, evidence, forced>>
Unfenced(p) == state = "claimed"
Fenced(p) == state = "claimed" /\ attempt = at[p].attempt
ForceMove(p) ==
  /\ cmd[p] = "force-move" /\ Goto(p, "none")
  /\ IF Fenced(p) THEN /\ state' = "open" /\ holder' = None
                       /\ forced' = forced \cup {[took |-> holder, read |-> at[p].holder,
                                                  attempt |-> attempt, from |-> at[p].attempt]}
     ELSE UNCHANGED <<state, holder, forced>>
  /\ UNCHANGED <<attempt, seen, checks, evidence, at>>

----------------------------------------------------------------------------
\* edit: the state is read, and read again with the row locked as the checks are written.
Edit(p) ==
  /\ cmd[p] = "none" /\ state \in Editable /\ Goto(p, "edit")
  /\ UNCHANGED <<engine, checks, evidence, at, forced>>
NotAgain == TRUE
StillEditable == state \in Editable
EditChecks(p) ==
  /\ cmd[p] = "edit" /\ Goto(p, "none")
  /\ IF StillEditable THEN checks' \in SUBSET Check ELSE UNCHANGED checks
  /\ UNCHANGED <<engine, evidence, at, forced>>

\* A command is stopped between two calls.
Stop(p) ==
  /\ cmd[p] # "none" /\ Goto(p, "none")
  /\ UNCHANGED <<engine, checks, evidence, at, forced>>

Next ==
  \/ \E a \in Actor : Claim(a)
  \/ GiveBack \/ Flag \/ Unblock
  \/ \E p \in Person :
       \/ Finish(p) \/ FinishRead(p) \/ FinishConfirm(p) \/ FinishMove(p)
       \/ Confirm(p) \/ ConfirmRead(p) \/ ConfirmMove(p)
       \/ Force(p) \/ ForceRead(p) \/ ForceMove(p) \/ Edit(p) \/ EditChecks(p) \/ Stop(p)

Spec == Init /\ [][Next]_vars

----------------------------------------------------------------------------
\* Whoever works a claimed task works it on the checks it had when it was claimed, and a
\* task finished by hand is finished over exactly those, all confirmed: no edit gets between
\* the claim, the confirmation and the move.
FinishedAsConfirmed ==
  /\ state = "claimed" => checks = seen[attempt]
  /\ state = "done" /\ ~landed[attempt] =>
       checks = {} \/ checks \subseteq passed[attempt]

\* --force ends the claim the command read and named, never one taken since.
ForcedAsRead == \A f \in forced : f.took = f.read /\ f.attempt = f.from

=============================================================================
