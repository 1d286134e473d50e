------------------------------ MODULE MCEngine ------------------------------
(***************************************************************************)
(* The protocols with the database, each on a small instance.               *)
(***************************************************************************)
EXTENDS Engine, TLC

CONSTANTS c1, c2, c3, i1, i2, x1, x2, t1, t2, t3, t4, w1, w2, w3, p1, p2

\* A claim and a named write under one id, and a write of another id on the same task.
Calls ==
  (c1 :> [id |-> i1, sig |-> "a", named |-> FALSE, items |-> {x1, x2}]) @@
  (c2 :> [id |-> i1, sig |-> "b", named |-> TRUE, items |-> {x2}]) @@
  (c3 :> [id |-> i2, sig |-> "b", named |-> TRUE, items |-> {x2}])

\* A writer on each version; a task in a container, and one that waits on it.
Versions == (w1 :> 1) @@ (w2 :> 2)
Containers == (t1 :> None) @@ (t2 :> t1) @@ (t3 :> None)
Waits == {<<t3, t2>>}

\* The second version drops review, whose tasks it voids, and closes what is void.
Lifecycles ==
  (1 :> [states |-> {"todo", "doing", "review", "done"}, terminal |-> {"done"},
         satisfying |-> {"done"}, leased |-> "doing", expiry |-> "todo", create |-> "todo",
         migrate |-> <<>>,
         moves |-> {<<"todo", "doing">>, <<"doing", "review">>, <<"review", "done">>,
                    <<"review", "todo">>}]) @@
  (2 :> [states |-> {"todo", "doing", "done", "void"}, terminal |-> {"done", "void"},
         satisfying |-> {"done"}, leased |-> "doing", expiry |-> "todo", create |-> "todo",
         migrate |-> ("review" :> "void"),
         moves |-> {<<"todo", "doing">>, <<"doing", "done">>, <<"todo", "void">>}])

\* The task each writer beside a purge may file.
Filing == (w1 :> 11) @@ (w2 :> 12) @@ (w3 :> 13)

\* Every parent and up to two dependencies of three tasks, and a fourth below one of them
\* where the set to cancel waits on itself through a container.
Three == {t1, t2, t3}
Forests ==
  {g \in [parent : {p \in [Three \cup {t4} -> Three \cup {None}] : p[t4] = None},
          deps : SUBSET (Three \X Three)] : Cardinality(g.deps) <= 2}
  \cup {[parent |-> (t1 :> None) @@ (t2 :> t1) @@ (t3 :> t1) @@ (t4 :> t2), deps |-> {<<t2, t3>>, <<t3, t4>>}]}

\* A release of the second engine migration and one of the fourth, the third breaking.
Releases == (p1 :> [taskgraph |-> 2, shreni |-> 1]) @@ (p2 :> [taskgraph |-> 4, shreni |-> 2])
Breaking == [taskgraph |-> <<0, 0, 3, 0>>, shreni |-> <<0, 0>>]
LeftBehind == {[taskgraph |-> 0, shreni |-> 0], [taskgraph |-> 1, shreni |-> 0], [taskgraph |-> 2, shreni |-> 1]}

=============================================================================
