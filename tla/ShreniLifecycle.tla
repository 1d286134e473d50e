-------------------------- MODULE ShreniLifecycle --------------------------
(***************************************************************************)
(* Shreni's own task lifecycle, shreni.task version 2                       *)
(* (src/src/policy/lifecycle/lifecycle.ts), as values for the constants of  *)
(* Lifecycle, and the guards its moves name (guards.ts).                    *)
(***************************************************************************)
EXTENDS Lifecycle

ShreniState == {"proposed", "open", "claimed", "waiting", "blocked", "parked",
                "done", "cancelled"}
ShreniTerminal == {"done", "cancelled"}
ShreniSatisfying == {"done"}
NonTerminal == ShreniState \ ShreniTerminal

ShreniRole == {"developer", "planner", "orchestrator", "agent", "system"}

\* The roles that make moves: only the engine's expiry hooks act as system (policy
\* jobs create tasks as system), and no move names planner or agent.
ShreniMoveRole == {"developer", "orchestrator"}

\* create: only policy jobs skip approval
ShreniCreateByRole == [r \in ShreniRole |-> IF r = "system" THEN "open" ELSE "proposed"]

\* moves: a move's columns are from, to, by; then what it adds
Plain(from, to, by) == [from |-> from, to |-> to, by |-> by,
                        guarded |-> FALSE, boost |-> FALSE, clearsBoost |-> FALSE]
Guarded(m) == [m EXCEPT !.guarded = TRUE]
Boosts(m) == [m EXCEPT !.boost = TRUE]
ClearsBoost(m) == [m EXCEPT !.clearsBoost = TRUE]

ShreniMoveDef ==
  LET orch == {"orchestrator"}
      dev == {"developer"}
      both == orch \cup dev
  IN [ approve  |-> Plain({"proposed"}, "open", dev),
       claim    |-> Plain({"open"}, "claimed", both),
       release  |-> Plain({"claimed"}, "open", both),
       expire   |-> Plain({"claimed"}, "open", {"system"}),
       submit   |-> ClearsBoost(Guarded(Plain({"claimed"}, "waiting", orch))),
       finish   |-> ClearsBoost(Guarded(Plain({"claimed", "waiting"}, "done", both))),
       followUp |-> Boosts(Plain({"waiting"}, "open", orch)),
       flag     |-> Plain({"open", "claimed", "waiting"}, "blocked", orch \cup {"system"}),
       unblock  |-> Plain({"blocked"}, "open", dev),
       confirm  |-> ClearsBoost(Guarded(Plain({"blocked"}, "done", dev))),
       park     |-> Plain({"proposed", "open", "blocked"}, "parked", dev),
       unpark   |-> Plain({"parked"}, "open", dev),
       cancel   |-> ClearsBoost(Plain(NonTerminal, "cancelled", dev)),
       completeContainer |-> Guarded(Plain({"open"}, "done", both)) ]

ShreniMove == DOMAIN ShreniMoveDef

\* permissions: `true` is every state, and also no task at all
AnyState == ShreniState \cup {None}
ShreniPermission ==
  LET of(dev, planner, other) ==
        [r \in ShreniRole |-> CASE r = "developer" -> dev
                                [] r = "planner" -> planner
                                [] r \in {"agent", "system"} -> other
                                [] r = "orchestrator" -> {}]
  IN [c \in {"tasks.create", "tasks.update", "tasks.delete", "deps.add", "deps.remove",
             "plans.create"} |->
        CASE c = "tasks.create" -> of(AnyState, AnyState, AnyState)
          [] c = "tasks.update" -> of({"proposed", "open", "blocked", "parked"}, {"proposed"}, {})
          [] c = "tasks.delete" -> of({"proposed"}, {"proposed"}, {})
          [] c \in {"deps.add", "deps.remove"} -> of(AnyState, {"proposed"}, {})
          [] c = "plans.create" -> of(AnyState, AnyState, {})]

\* completeContainer's guard, childrenSettled: a container, no live child, one done
ChildrenSettled(t, db) ==
  LET children == {c \in db.tasks : db.parent[c] = t} IN
  /\ db.kind[t] = "container"
  /\ \A c \in children : db.state[c] \in ShreniTerminal
  /\ \E c \in children : db.state[c] \in ShreniSatisfying

\* The other guards read the attempt's evidence, which is the worker's to write:
\* here it may be there or not, so they may pass.
ShreniGuard(m, t, db) == m = "completeContainer" => ChildrenSettled(t, db)

=============================================================================
