---------------------------- MODULE BeadsImport ----------------------------
(***************************************************************************)
(* Moving a project's tasks off beads, the older tracker: the mapping to a  *)
(* bundle and its dry run (policy/migrate/beads-import.ts), and the checks   *)
(* the engine makes of any bundle it imports (taskgraph/bundle.ts).  Pure    *)
(* functions of the export, which Init chooses; the person confirms on what  *)
(* the dry run says.                                                         *)
(***************************************************************************)
EXTENDS Naturals, FiniteSets, FiniteSetsExt, Digraph

CONSTANTS
  Id,            \* beads
  Issue,         \* what a bead may be: [status, label, type]
  MaxEdges,      \* bound: blocks edges of an export
  None

VARIABLES
  issue, parentOf, blocks,   \* the export
  step,                      \* read, shown, imported, aborted, refused
  ok                         \* the dry run's verdict

vars == <<issue, parentOf, blocks, step, ok>>

\* The beads above b.
RECURSIVE Above(_)
Above(b) == IF parentOf[b] = None THEN {} ELSE {parentOf[b]} \cup Above(parentOf[b])

TypeOK ==
  /\ issue \in [Id -> Issue] /\ parentOf \in [Id -> Id \cup {None}]
  /\ blocks \subseteq Id \X Id /\ step \in {"read", "shown", "imported", "aborted", "refused"}
  /\ ok \in BOOLEAN

\* beads keeps its parents a forest.
Init ==
  /\ issue \in [Id -> Issue]
  /\ parentOf \in {f \in [Id -> Id \cup {None}] : Acyclic(Id, {<<x, f[x]>> : x \in {y \in Id : f[y] # None}})}
  /\ blocks \in {B \in SUBSET (Id \X Id) : Cardinality(B) <= MaxEdges}
  /\ step = "read" /\ ok = FALSE

----------------------------------------------------------------------------
\* beadsToBundle.
Session(b) == issue[b].type = "session"
StateOf(b) ==
  IF Session(b) THEN "cancelled"
  ELSE IF issue[b].status = "closed" THEN "done"
  ELSE IF issue[b].status = "deferred" THEN "parked"
  ELSE IF issue[b].label = "followup" THEN "open"
  ELSE IF issue[b].status = "in_progress" /\ issue[b].label = "awaiting" THEN "waiting"
  ELSE IF issue[b].status = "blocked" THEN "blocked" ELSE "open"
Container(b) == issue[b].type = "epic" \/ \E c \in Id : parentOf[c] = b

\* A wait on a planning session, which is cancelled, is dropped.
Deps == {e \in blocks : Session(e[2]) => Session(e[1])}

Terminal(b) == StateOf(b) \in {"done", "cancelled"}
Done(b) == StateOf(b) = "done"
Waits(b) == {e[2] : e \in {d \in Deps : d[1] = b}}

\* What a worker handed out on beads: bdReady, less epics, sessions and parents of open beads.
OnBeads(b) == issue[b].status # "closed"
HandOut ==
  {b \in Id : /\ issue[b].status = "open" /\ issue[b].type \notin {"epic", "session"}
              /\ ~\E x \in {b} \cup Above(b), y \in Id : <<x, y>> \in blocks /\ OnBeads(y)
              /\ ~\E c \in Id : parentOf[c] = b /\ OnBeads(c)}

\* What a claim would pick after the import.
EngineReady ==
  {b \in Id : /\ ~Container(b)
              /\ \A x \in {b} \cup Above(b) : StateOf(x) = "open" /\ \A y \in Waits(x) : Done(y)}

----------------------------------------------------------------------------
\* Depth first, white, grey and black: does the walk from n meet a grey node?
RECURSIVE Visit(_, _)
Visit(n, s) ==
  LET Follow(m, acc) ==
        IF acc.cycle \/ m \in acc.black THEN acc
        ELSE IF m \in acc.grey THEN [acc EXCEPT !.cycle = TRUE] ELSE Visit(m, acc)
      r == FoldSet(Follow, [s EXCEPT !.grey = @ \cup {n}], Waits(n))
  IN [r EXCEPT !.grey = @ \ {n}, !.black = @ \cup {n}]
FindsCycle ==
  LET From(n, acc) == IF n \in acc.black THEN acc ELSE Visit(n, acc)
  IN FoldSet(From, [grey |-> {}, black |-> {}, cycle |-> FALSE], Id).cycle

Nested(e) == e[2] \in Above(e[1]) \/ e[1] \in Above(e[2])
ClosedOverLive(b) == parentOf[b] # None /\ Terminal(parentOf[b]) /\ ~Terminal(b)
Stranded(e) == ~Terminal(e[1]) /\ Terminal(e[2]) /\ ~Done(e[2])

\* dryRun: what the engine would refuse, said beforehand; and the same work handed out but
\* for what a parked epic holds, a parent becomes, or a worker had in progress.
NoMismatchEver == TRUE
NoMismatch ==
  /\ \A b \in Id : ~ClosedOverLive(b)
  /\ \A e \in Deps : ~Stranded(e) /\ ~Nested(e)
OnlyBeads == {b \in HandOut \ EngineReady : ~Container(b) /\ ~\E p \in Above(b) : StateOf(p) = "parked"}
OnlyEngine == {b \in EngineReady \ HandOut : issue[b].status # "in_progress"}

DryRun ==
  /\ step = "read" /\ step' = "shown"
  /\ ok' = (NoMismatch /\ ~FindsCycle /\ OnlyBeads = {} /\ OnlyEngine = {})
  /\ UNCHANGED <<issue, parentOf, blocks>>

\* The person says no, or the dry run did.
Abort ==
  /\ step = "shown" /\ step' = "aborted" /\ UNCHANGED <<issue, parentOf, blocks, ok>>

\* importProject's checkGraph: what no engine path could have made is refused.  An imported
\* bead holds no lease, and none is in the leased state.
Importable ==
  /\ ~FindsCycle
  /\ \A e \in Deps : ~Nested(e) /\ ~Stranded(e)
  /\ \A b \in Id : StateOf(b) # "claimed" /\ ~ClosedOverLive(b)
Import ==
  /\ step = "shown" /\ ok
  /\ step' = IF Importable THEN "imported" ELSE "refused"
  /\ UNCHANGED <<issue, parentOf, blocks, ok>>

Next == DryRun \/ Abort \/ Import
Spec == Init /\ [][Next]_vars

----------------------------------------------------------------------------
\* A dry run that passes is followed by an import that does: two readings of the export
\* (beads-import.ts dryRun, bundle.ts checkGraph) refuse the same ones, and the imported
\* dependencies have no cycle, whatever order the walk took.
DryRunImports ==
  /\ step # "refused"
  /\ step = "imported" => Acyclic(Id, Deps) /\ \A e \in Deps : ~Nested(e)

=============================================================================
