------------------------------- MODULE Cancel -------------------------------
(***************************************************************************)
(* shreni task cancel --with-children (cancelByHand, policy/task/by-hand.ts): *)
(* the live tasks below one are cancelled deepest first, each by a move of    *)
(* its own the engine may refuse, in passes, as a task others of the set      *)
(* wait on comes after them.  Waits from outside the set are refused before   *)
(* anything is cancelled, or dropped.  Others act between the moves.          *)
(***************************************************************************)
EXTENDS Naturals, FiniteSets, Sequences, Digraph

CONSTANTS
  Task,          \* a small graph of tasks
  Shapes,        \* bound: the graphs to begin with, [parent, deps]
  MaxActs,       \* bound: what others do meanwhile
  None

VARIABLES
  parent, deps,      \* deps: <<task, what it waits on>>
  live,              \* tasks not terminal
  leased,            \* tasks someone else holds
  root, dropDeps,    \* the command: what it cancels, and its flag
  pending, pass,     \* what is left of the set, and of this pass
  moved,             \* whether this pass cancelled one
  pc, inSet, acts

vars == <<parent, deps, live, leased, root, dropDeps, pending, pass, moved, pc, inSet, acts>>

EdgesOf(par) == {<<t, par[t]>> : t \in {u \in Task : par[u] # None}}
Above(par, t) == {u \in Task \ {t} : Reaches(Task, EdgesOf(par), t, u)}
Below(t) == {u \in Task : t \in Above(parent, u)}
Depth(t) == Cardinality(Above(parent, t))

\* A graph the engine could hold: a forest, no dependency cycle, none between a task and a
\* container above it.
Legal(par, ds) ==
  /\ Acyclic(Task, EdgesOf(par)) /\ Acyclic(Task, ds)
  /\ \A d \in ds : d[2] \notin Above(par, d[1]) /\ d[1] \notin Above(par, d[2])

TypeOK ==
  /\ live \subseteq Task /\ leased \subseteq live /\ inSet \subseteq Task
  /\ pending \in Seq(Task) /\ pass \in Seq(Task) /\ moved \in BOOLEAN
  /\ pc \in {"look", "cancel", "done", "refused", "stuck", "stopped"}

Init ==
  /\ \E g \in {h \in Shapes : Legal(h.parent, h.deps)} : parent = g.parent /\ deps = g.deps
  /\ live = Task /\ leased = {}
  /\ root \in Task /\ dropDeps \in BOOLEAN
  /\ pending = <<>> /\ pass = <<>> /\ moved = FALSE /\ pc = "look" /\ inSet = {} /\ acts = 0

graph == <<parent, deps, live, leased>>
Outside(S) == {d \in deps : d[2] \in S /\ d[1] \in live \ S}

\* The set, deepest first, and the refusal before anything is cancelled.
DeepestFirst(s) == \A i, j \in 1..Len(s) : i < j => Depth(s[i]) >= Depth(s[j])
Orders(S) == {s \in [1..Cardinality(S) -> S] : \A i, j \in 1..Len(s) : i # j => s[i] # s[j]}
Look ==
  /\ pc = "look" /\ root \in live
  /\ LET S == {root} \cup (Below(root) \cap live) IN
     /\ inSet' = S
     /\ IF ~dropDeps /\ Outside(S) # {} THEN pc' = "refused" /\ UNCHANGED <<pending, pass>>
        ELSE /\ pc' = "cancel" /\ UNCHANGED pending
             /\ pass' \in {s \in Orders(S) : DeepestFirst(s)}
  /\ moved' = FALSE
  /\ UNCHANGED <<graph, root, dropDeps, acts>>

\* One move: the engine cancels a task that no live child is under, that no live task waits
\* on unless the waits are dropped, and that no one else holds.
Children(t) == {c \in live : parent[c] = t}
Waiting(t) == {d[1] : d \in {e \in deps : e[2] = t /\ e[1] \in live}}
MoveOne ==
  LET t == Head(pass) IN
  /\ pc = "cancel" /\ pass # <<>> /\ pass' = Tail(pass)
  /\ \/ /\ t \in live /\ t \notin leased /\ Children(t) = {} /\ (dropDeps \/ Waiting(t) = {})
        /\ live' = live \ {t}
        /\ deps' = IF dropDeps THEN {d \in deps : d[2] # t \/ d[1] \notin live} ELSE deps
        /\ moved' = TRUE /\ UNCHANGED <<pending, pc>>
     \/ /\ t \in live \ leased /\ (Children(t) # {} \/ (~dropDeps /\ Waiting(t) # {}))
        /\ IF Children(t) \subseteq inSet /\ (Children(t) # {} \/ Waiting(t) \subseteq inSet)
           THEN pending' = Append(pending, t) /\ UNCHANGED pc
           ELSE pc' = "stopped" /\ UNCHANGED pending
        /\ UNCHANGED <<live, deps, moved>>
     \/ /\ t \notin live \/ t \in leased          \* settled or claimed by another meanwhile
        /\ pc' = "stopped" /\ UNCHANGED <<live, deps, moved, pending>>
  /\ UNCHANGED <<parent, leased, root, dropDeps, inSet, acts>>

\* The end of a pass: another if something moved and something is left.
OnePass == FALSE
Again == moved
NextPass ==
  /\ pc = "cancel" /\ pass = <<>>
  /\ pc' = IF pending = <<>> THEN "done" ELSE IF Again THEN "cancel" ELSE "stuck"
  /\ pass' = pending /\ pending' = <<>> /\ moved' = FALSE
  /\ UNCHANGED <<graph, root, dropDeps, inSet, acts>>

\* Others: a claim, an end, a new dependency.
Others ==
  /\ acts < MaxActs /\ acts' = acts + 1 /\ pc = "cancel"
  /\ \/ \E t \in live : leased' = leased \cup {t} /\ UNCHANGED <<deps, live>>
     \/ \E t \in live : /\ Children(t) = {} /\ live' = live \ {t} /\ leased' = leased \ {t}
                        /\ UNCHANGED deps
     \/ \E e \in {f \in live \X live : Legal(parent, deps \cup {f})} :
          deps' = deps \cup {e} /\ UNCHANGED <<live, leased>>
  /\ UNCHANGED <<parent, root, dropDeps, pending, pass, moved, pc, inSet>>

Next == Look \/ MoveOne \/ NextPass \/ Others
Spec == Init /\ [][Next]_vars

----------------------------------------------------------------------------
\* A child is cancelled before its parent and a task before what it waits on: a circle of
\* both, through a container on one side and a dependency on the other, no pass can begin.
Tangled == ~Acyclic(Task, EdgesOf(parent) \cup deps)

\* The passes end with the whole set cancelled: a command that was let through, and that no
\* one interfered with, is never left part way, whatever the shape of the set, unless the
\* engine let its tasks wait on each other in a circle through a container.
CancelsWhole ==
  /\ acts = 0 => pc # "stopped" /\ (pc = "stuck" => Tangled /\ ~dropDeps)
  /\ pc = "done" => inSet \cap live = {}

=============================================================================
