---------------------------- MODULE MCTaskGraph ----------------------------
(***************************************************************************)
(* The engine on small instances: under Shreni's lifecycle, and under a     *)
(* smaller one that meets the same registration rules, where the graph and  *)
(* not the states is the subject.                                           *)
(***************************************************************************)
EXTENDS TaskGraph, ShreniLifecycle

\* What some theorems of the engine ask of a lifecycle beyond the registration rules
\* holds of Shreni's.
ASSUME BeyondTheRules == ExpiryIsNotClaim /\ NothingReturnsToCreate /\ OnlySweepExpires

\* Shreni's permissions with only the given calls allowed.
OnlyCalls(C) == [c \in Call |-> [r \in ShreniRole |->
                   IF c \in C THEN ShreniPermission[c][r] ELSE {}]]

CreateOnly == OnlyCalls({"tasks.create"})

\* Shreni's lifecycle without the states and moves of review, blocking and parking.
SmallState == {"proposed", "open", "claimed", "done", "cancelled"}
SmallMove == {"approve", "claim", "release", "expire", "finish", "cancel", "completeContainer"}
SmallMoveDef == [m \in SmallMove |->
                   [ShreniMoveDef[m] EXCEPT !.from = @ \cap SmallState]]
SmallPermission == [c \in Call |-> [r \in ShreniRole |->
                      ShreniPermission[c][r] \cap (SmallState \cup {None})]]
SmallPlanning == [c \in Call |-> [r \in ShreniRole |->
                    IF c \in {"tasks.create", "deps.add", "plans.create"}
                    THEN SmallPermission[c][r] ELSE {}]]

=============================================================================
