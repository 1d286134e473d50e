------------------------------ MODULE Digraph ------------------------------
(***************************************************************************)
(* Reachability over a finite set of nodes, as the engine's recursive SQL   *)
(* queries compute it (`with recursive reach/up/down`): the least set that  *)
(* holds the start and is closed under the edges.  It is written without    *)
(* recursion so that it can be reasoned about.                              *)
(***************************************************************************)
EXTENDS Naturals

\* S is closed under the edges E.
ClosedUnder(E, S) == \A e \in E : e[1] \in S => e[2] \in S

\* y is x, or is reached from x along the edges E, all of them between Nodes.
Reaches(Nodes, E, x, y) ==
  \A S \in SUBSET Nodes : (x \in S /\ ClosedUnder(E, S)) => y \in S

\* No cycle: every nonempty set of nodes has a member with no edge into the set.
Acyclic(Nodes, E) ==
  \A S \in SUBSET Nodes : S # {} => \E x \in S : \A y \in S : <<x, y>> \notin E

=============================================================================
