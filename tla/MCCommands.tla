----------------------------- MODULE MCCommands -----------------------------
(***************************************************************************)
(* The commands, each on a small instance, and beside them the move off     *)
(* beads, whose dry run walks the whole export of issues.                   *)
(***************************************************************************)
EXTENDS Commands, TLC, Digraph

CONSTANTS p1, p2, p3, b1, b2, b3

VARIABLES transfer,
          issue, parentOf, blocks, step, ok

importVars == <<issue, parentOf, blocks, step, ok>>

\* Two daily dumps and one before a migration.
Kinds == (p1 :> "daily") @@ (p2 :> "daily") @@ (p3 :> "pre-migrate")

\* Issues of each fate: open, closed, deferred epics, in review, sessions, open epics.
Kind(s, l, t) == [status |-> s, label |-> l, type |-> t]
Issues == {Kind("open", None, "task"), Kind("closed", None, "task"), Kind("deferred", None, "epic"),
           Kind("in_progress", "followup", "task"), Kind("open", None, "session"), Kind("open", None, "epic")}
Id == {b1, b2, b3}
B == INSTANCE BeadsImport WITH Issue <- Issues, MaxEdges <- 2

\* An epic and three tasks, any below it, with up to three dependencies the engine admits.
Parents == {p \in [Bead -> {1, None}] : p[1] = None}
DepSets(p) ==
  {D2 \in SUBSET {d \in Bead \X Bead : d[1] # 1 /\ (d[2] = 1 => p[d[1]] = None)} :
     /\ Cardinality(D2) <= 3
     /\ Acyclic(Bead, D2 \cup {<<x, p[x]>> : x \in {y \in Bead : p[y] # None}})}
ExportGraphs ==
  UNION {{[epics |-> {1}, parent |-> p, deps |-> D2, priority |-> q, executed |-> x] :
            D2 \in DepSets(p), q \in {<<4, 1, 0, 0>>, <<4, 1, 1, 0>>, <<4, 0, 1, 2>>}, x \in {{}, {3}}} : p \in Parents}

\* The import shares no state with the other commands, which rest meanwhile.
MCInit ==
  /\ transfer \in {"none", "import"}
  /\ Init /\ (transfer # "none" => part = "ownership")
  /\ IF transfer = "import" THEN B!Init
     ELSE /\ issue = [b \in Id |-> Kind("open", None, "task")] /\ parentOf = [b \in Id |-> None]
          /\ blocks = {} /\ step = "read" /\ ok = FALSE

MCNext ==
  /\ UNCHANGED transfer
  /\ \/ transfer = "none" /\ Next /\ UNCHANGED importVars
     \/ transfer = "import" /\ B!Next /\ UNCHANGED vars

MCSpec == MCInit /\ [][MCNext]_<<vars, transfer, importVars>>

\* beads-import.ts, export.ts: an export that passes the dry run is one the engine takes, and
\* the order of what is written out is the one its rule gives, whatever the graph.
TransfersTrue == B!TypeOK /\ B!DryRunImports /\ ExportsInOrder

=============================================================================
