------------------------------- MODULE Export -------------------------------
(***************************************************************************)
(* shreni export (cli/export.ts): the tasks of a project or of one epic in   *)
(* an order that respects their dependencies, the same on every run, and     *)
(* none that was executed unless the operator allows it.  Task ids are       *)
(* numbers in their string order.                                            *)
(***************************************************************************)
EXTENDS Naturals, FiniteSets, Sequences, SequencesExt

CONSTANTS
  Bead,          \* tasks, as numbers
  Graphs,        \* bound: the projects to export, [epics, parent, deps, priority, executed]
  None

VARIABLES
  g,             \* what r.list reads
  epic,          \* --epic, or None
  allowed,       \* --allow-executed
  indegree, remaining, ordered,
  pc             \* build, sort, guard, written, refused

vars == <<g, epic, allowed, indegree, remaining, ordered, pc>>

\* collectSubtreeIds: the epic and what is below it, level by level.
ChildrenOf(S) == {b \in Bead : g.parent[b] \in S}
Levels[n \in 0..Cardinality(Bead)] ==
  IF n = 0 THEN {epic} ELSE Levels[n - 1] \cup ChildrenOf(Levels[n - 1])
Subtree == Levels[Cardinality(Bead)]

\* buildExportDocument: the tasks listed, and the dependencies between them.
Work == {b \in Bead \ g.epics : epic # None => b \in Subtree}
Edges == {e \in g.deps : {e[1], e[2]} \subseteq Work}

Init ==
  /\ g \in Graphs /\ epic \in g.epics \cup {None} /\ allowed \in BOOLEAN
  /\ pc = "build" /\ indegree = [b \in Bead |-> 0] /\ remaining = {} /\ ordered = <<>>

Build ==
  /\ pc = "build" /\ pc' = "sort"
  /\ remaining' = Work
  /\ indegree' = [b \in Bead |-> Cardinality({e \in Edges : e[1] = b})]
  /\ UNCHANGED <<g, epic, allowed, ordered>>

\* Lower priority number first, then the lower id.
ByIdOnly(a, b) == a <= b
Before(a, b) ==
  \/ g.priority[a] < g.priority[b]
  \/ g.priority[a] = g.priority[b] /\ a <= b
PickReady == {b \in remaining :
                /\ indegree[b] = 0
                /\ \A c \in remaining : indegree[c] = 0 => Before(b, c)}

Pick ==
  /\ pc = "sort" /\ remaining # {}
  /\ \E b \in PickReady :
       /\ remaining' = remaining \ {b}
       /\ ordered' = Append(ordered, b)
       /\ indegree' = [c \in Bead |-> IF <<c, b>> \in Edges THEN indegree[c] - 1 ELSE indegree[c]]
  /\ UNCHANGED <<g, epic, allowed, pc>>
Sorted ==
  /\ pc = "sort" /\ remaining = {} /\ pc' = "guard"
  /\ UNCHANGED <<g, epic, allowed, indegree, remaining, ordered>>

\* findExecutedBeads over what would ship; a refused export writes nothing.
Offenders == {b \in Work : b \in g.executed}
Write ==
  /\ pc = "guard"
  /\ pc' = IF Offenders # {} /\ ~allowed THEN "refused" ELSE "written"
  /\ UNCHANGED <<g, epic, allowed, indegree, remaining, ordered>>

Next == Build \/ Pick \/ Sorted \/ Write
Spec == Init /\ [][Next]_vars

----------------------------------------------------------------------------
TypeOK ==
  /\ indegree \in [Bead -> Nat] /\ remaining \subseteq Bead /\ ordered \in Seq(Bead)
  /\ pc \in {"build", "sort", "guard", "written", "refused"}

\* The orders the dependencies allow, and which of two comes first.
Allowed == {s \in SetToSeqs(Work) : \A e \in Edges, i, j \in DOMAIN s :
              s[i] = e[1] /\ s[j] = e[2] => j < i}
Precedes(a, b) == g.priority[a] < g.priority[b] \/ (g.priority[a] = g.priority[b] /\ a < b)
Earlier(s, t) == \E k \in DOMAIN s : Precedes(s[k], t[k]) /\ \A i \in 1..k-1 : s[i] = t[i]

\* The exported order lists the tasks in scope once each, every one after what it waits on,
\* and of all such orders it is the first by priority and id: so it depends on the graph alone
\* and not on the order the tasks were read in.
FirstOrder ==
  pc = "written" => ordered \in Allowed /\ \A s \in Allowed : s = ordered \/ Earlier(ordered, s)

=============================================================================
