-------------------------------- MODULE Purge --------------------------------
(***************************************************************************)
(* Deleting a project under its writers (purgeProject, taskgraph/bundle.ts):  *)
(* purge locks the graph, the task rows it can see, then the project row, and *)
(* deletes table by table, the events last.  A writer locks the graph if it   *)
(* changes edges, a task's row if it changes one, and shares the project's    *)
(* row when it writes; its events commit with it.  A cycle of waits costs one *)
(* transaction, which starts over (tx.ts).                                    *)
(***************************************************************************)
EXTENDS Naturals, FiniteSets, FiniteSetsExt, Digraph

CONSTANTS
  Writer,       \* transactions of other clients
  Old, New,     \* tasks there are (naturals, in id order), and one each writer may file
  MaxAborts,    \* bound: deadlock victims
  None

VARIABLES
  rows, events,     \* committed tasks and events of the project
  project,          \* whether its row is there
  kind, on,         \* each writer: what it does, and on which task
  wpc,              \* how far each is
  ppc, todo,        \* purge: how far, and the rows of its snapshot still to lock
  graph, row, share, excl,   \* who holds the graph lock, each row, the project's row
  aborts

vars == <<rows, events, project, kind, on, wpc, ppc, todo, graph, row, share, excl, aborts>>

Tasks == Old \cup {New[w] : w \in Writer}
P == "purge"

TypeOK ==
  /\ rows \subseteq Tasks /\ events \subseteq Writer /\ project \in BOOLEAN
  /\ \A w \in Writer : kind[w] \in {"none", "move", "create", "edge"} /\ on[w] \in Tasks \cup {None}
  /\ wpc \in [Writer -> {"idle", "graph", "row", "project", "commit", "done", "gone"}]
  /\ ppc \in {"graph", "look", "rows", "project", "delete", "events", "done"}
  /\ todo \subseteq Tasks /\ share \subseteq Writer /\ aborts \in 0..MaxAborts

Init ==
  /\ rows = Old /\ events = {} /\ project = TRUE
  /\ kind = [w \in Writer |-> "none"] /\ on = [w \in Writer |-> None]
  /\ wpc = [w \in Writer |-> "idle"] /\ ppc = "graph" /\ todo = {}
  /\ graph = None /\ row = [t \in Tasks |-> None] /\ share = {} /\ excl = None /\ aborts = 0

Freed(x) ==                                   \* the end of a transaction
  /\ graph' = IF graph = x THEN None ELSE graph
  /\ row' = [t \in Tasks |-> IF row[t] = x THEN None ELSE row[t]]
  /\ share' = share \ {x} /\ excl' = IF excl = x THEN None ELSE excl

----------------------------------------------------------------------------
\* A writer: a move or an edge on a task, or a task filed at the top or under another.
Begin(w, k, t) ==
  /\ wpc[w] = "idle" /\ t \in rows \cup {None} /\ (k = "create" \/ t # None)
  /\ kind' = [kind EXCEPT ![w] = k] /\ on' = [on EXCEPT ![w] = t]
  /\ wpc' = [wpc EXCEPT ![w] = IF k = "edge" THEN "graph" ELSE IF t = None THEN "project" ELSE "row"]
  /\ UNCHANGED <<rows, events, project, ppc, todo, graph, row, share, excl, aborts>>
LockGraph(w) ==
  /\ wpc[w] = "graph" /\ graph = None /\ graph' = w /\ wpc' = [wpc EXCEPT ![w] = "row"]
  /\ UNCHANGED <<rows, events, project, kind, on, ppc, todo, row, share, excl, aborts>>
\* The row, or NotFound when it was deleted meanwhile.
LockRow(w) ==
  /\ wpc[w] = "row" /\ row[on[w]] = None
  /\ IF on[w] \in rows
     THEN /\ row' = [row EXCEPT ![on[w]] = w] /\ wpc' = [wpc EXCEPT ![w] = "project"]
          /\ UNCHANGED <<graph, share, excl>>
     ELSE wpc' = [wpc EXCEPT ![w] = "gone"] /\ Freed(w)
  /\ UNCHANGED <<rows, events, project, kind, on, ppc, todo, aborts>>
\* The write itself: its fence and foreign key share the project's row, or fail without it.
ShareProject(w) ==
  /\ wpc[w] = "project" /\ excl = None
  /\ IF project
     THEN /\ share' = share \cup {w} /\ wpc' = [wpc EXCEPT ![w] = "commit"]
          /\ UNCHANGED <<graph, row, excl>>
     ELSE wpc' = [wpc EXCEPT ![w] = "gone"] /\ Freed(w)
  /\ UNCHANGED <<rows, events, project, kind, on, ppc, todo, aborts>>
Commit(w) ==
  /\ wpc[w] = "commit" /\ wpc' = [wpc EXCEPT ![w] = "done"]
  /\ rows' = IF kind[w] = "create" THEN rows \cup {New[w]} ELSE rows
  /\ events' = events \cup {w} /\ Freed(w)
  /\ UNCHANGED <<project, kind, on, ppc, todo, aborts>>

----------------------------------------------------------------------------
\* purgeProject, statement by statement.
ProjectFirst(pc) == CASE pc = "graph" -> "project" [] pc = "project" -> "look" [] pc = "look" -> "rows"
                      [] pc = "rows" -> "delete" [] pc = "delete" -> "events" [] OTHER -> "done"
NoProjectLock(pc) == CASE pc = "graph" -> "look" [] pc = "look" -> "rows" [] pc = "rows" -> "delete"
                      [] pc = "delete" -> "events" [] OTHER -> "done"
After(pc) == CASE pc = "graph" -> "look" [] pc = "look" -> "rows" [] pc = "rows" -> "project"
               [] pc = "project" -> "delete" [] pc = "delete" -> "events" [] OTHER -> "done"
Step == ppc' = After(ppc)
UnchangedByPurge == UNCHANGED <<kind, on, wpc, aborts>>
PurgeGraph ==
  /\ ppc = "graph" /\ graph = None /\ graph' = P /\ Step
  /\ UNCHANGED <<rows, events, project, todo, row, share, excl>> /\ UnchangedByPurge
PurgeLook ==
  /\ ppc = "look" /\ todo' = rows /\ Step
  /\ UNCHANGED <<rows, events, project, graph, row, share, excl>> /\ UnchangedByPurge
PurgeRow ==
  /\ ppc = "rows"
  /\ \/ /\ todo # {} /\ row[Min(todo)] = None
        /\ row' = [row EXCEPT ![Min(todo)] = P] /\ todo' = todo \ {Min(todo)} /\ UNCHANGED ppc
     \/ todo = {} /\ Step /\ UNCHANGED <<todo, row>>
  /\ UNCHANGED <<rows, events, project, graph, share, excl>> /\ UnchangedByPurge
PurgeProject ==
  /\ ppc = "project" /\ share = {} /\ excl' = P /\ Step
  /\ UNCHANGED <<rows, events, project, todo, graph, row, share>> /\ UnchangedByPurge
\* The deletes: a row filed since the snapshot is locked as it is met; the events of all that
\* has committed go last, then the project, in the transaction that commits.
PurgeDelete ==
  /\ ppc = "delete" /\ \A t \in rows : row[t] \in {None, P}
  /\ row' = [t \in Tasks |-> IF t \in rows THEN P ELSE row[t]] /\ todo' = rows /\ Step
  /\ UNCHANGED <<rows, events, project, graph, share, excl>> /\ UnchangedByPurge
PurgeEvents ==
  /\ ppc = "events" /\ Step
  /\ rows' = rows \ todo /\ events' = {} /\ project' = FALSE /\ todo' = {}
  /\ Freed(P) /\ UnchangedByPurge

----------------------------------------------------------------------------
\* Who waits for whom.
WaitsOn ==
  {<<w, graph>> : w \in {v \in Writer : wpc[v] = "graph" /\ graph # None}}
  \cup {<<w, row[on[w]]>> : w \in {v \in Writer : wpc[v] = "row" /\ row[on[v]] # None}}
  \cup {<<w, P>> : w \in {v \in Writer : wpc[v] = "project" /\ excl # None}}
  \cup (IF ppc = "graph" /\ graph # None THEN {<<P, graph>>} ELSE {})
  \cup (IF ppc = "rows" /\ todo # {} /\ row[Min(todo)] # None THEN {<<P, row[Min(todo)]>>} ELSE {})
  \cup (IF ppc = "project" THEN {<<P, w>> : w \in share} ELSE {})
  \cup (IF ppc = "delete" THEN {<<P, row[t]>> : t \in {u \in rows : row[u] \notin {None, P}}} ELSE {})
Actors == Writer \cup {P}
Stuck == ~Acyclic(Actors, WaitsOn)
\* The database ends one of the transactions that wait in a circle; tx.ts runs it again.
Victim(x) ==
  /\ aborts < MaxAborts /\ aborts' = aborts + 1
  /\ \E y \in Actors : <<x, y>> \in WaitsOn /\ Reaches(Actors, WaitsOn, y, x)
  /\ Freed(x)
  /\ IF x = P THEN ppc' = "graph" /\ todo' = {} /\ UNCHANGED wpc
     ELSE /\ wpc' = [wpc EXCEPT ![x] = IF kind[x] = "edge" THEN "graph" ELSE IF on[x] = None THEN "project" ELSE "row"]
          /\ UNCHANGED <<ppc, todo>>
  /\ UNCHANGED <<rows, events, project, kind, on>>

Next ==
  \/ \E w \in Writer : \/ \E k \in {"move", "create", "edge"}, t \in Tasks \cup {None} : Begin(w, k, t)
                       \/ LockGraph(w) \/ LockRow(w) \/ ShareProject(w) \/ Commit(w)
  \/ PurgeGraph \/ PurgeLook \/ PurgeRow \/ PurgeProject \/ PurgeDelete \/ PurgeEvents
  \/ \E x \in Actors : Victim(x)
Spec == Init /\ [][Next]_vars

----------------------------------------------------------------------------
\* A purge leaves nothing of the project behind, whatever its writers were at: no task filed
\* and no event written under it outlives it.
NothingLeft == ~project => rows = {} /\ events = {}

\* Its lock order is the writers': transactions come to wait in a circle only over a task that
\* was filed after purge read which rows to lock.
WaitsOnNewOnly == Stuck => ppc = "delete" /\ \E t \in rows \ Old : row[t] \in Writer

=============================================================================
