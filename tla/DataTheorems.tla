---------------------------- MODULE DataTheorems ----------------------------
(***************************************************************************)
(* Facts about the data the models are built from, for every value: least   *)
(* and greatest numbers, lists without repetitions, and reachability and    *)
(* acyclicity, which make the engine's cycle checks sufficient.             *)
(***************************************************************************)
EXTENDS Digraph, Sequences, FiniteSets, FiniteSetTheorems, WellFoundedInduction, TLAPS

----------------------------------------------------------------------------
(* Numbers                                                                   *)

\* The least-number principle, for a set of naturals.
LEMMA LeastNatural ==
  ASSUME NEW T \in SUBSET Nat, T # {}
  PROVE  \E n \in T : \A m \in T : n <= m
<1>. DEFINE Less == {ss \in Nat \X Nat : ss[1] < ss[2]}
<1>1. IsWellFoundedOn(Less, Nat)
  BY NatLessThanWellFounded DEF OpToRel
<1>2. PICK n \in T : \A m \in T : ~(<<m, n>> \in Less)
  <2>. HIDE DEF Less
  <2>. QED
    BY <1>1, WFMin
<1>3. ASSUME NEW m \in T, m < n PROVE FALSE
  <2>1. <<m, n>> \in Less
    BY <1>3
  <2>. QED
    BY <1>2, <2>1
<1>. QED
  BY <1>3

\* A bounded set of naturals has a greatest.
LEMMA GreatestNatural ==
  ASSUME NEW T \in SUBSET Nat, T # {}, NEW b \in Nat, \A m \in T : m <= b
  PROVE  \E n \in T : \A m \in T : n >= m
<1>. DEFINE M == {b - m : m \in T}
<1>1. \A m \in T : b - m \in Nat
  OBVIOUS
<1>2. M \in SUBSET Nat /\ M # {}
  BY <1>1
<1>3. PICK z \in M : \A y \in M : z <= y
  BY <1>2, LeastNatural
<1>4. PICK n \in T : z = b - n
  BY <1>3
<1>5. ASSUME NEW m \in T PROVE n >= m
  <2>1. b - m \in M
    OBVIOUS
  <2>2. b - n <= b - m
    BY <1>3, <1>4, <2>1
  <2>. QED
    BY <2>2
<1>. QED
  BY <1>5

----------------------------------------------------------------------------
(* Lists                                                                     *)

\* What is on a list, and that it is there once.
Listed(s) == {s[i] : i \in 1 .. Len(s)}
Distinct(s) == \A i, j \in 1 .. Len(s) : s[i] = s[j] => i = j

LEMMA HeadTail ==
  ASSUME NEW X, NEW s \in Seq(X), s # <<>>
  PROVE  /\ Head(s) \in X /\ Head(s) \in Listed(s) /\ Tail(s) \in Seq(X)
         /\ Listed(s) = {Head(s)} \cup Listed(Tail(s))
         /\ Distinct(s) => Distinct(Tail(s)) /\ Head(s) \notin Listed(Tail(s))
<1>1. Len(s) \in Nat /\ Len(s) >= 1 /\ Head(s) = s[1] /\ Head(s) \in X /\ Tail(s) \in Seq(X)
  OBVIOUS
<1>2. Len(Tail(s)) = Len(s) - 1 /\ \A i \in 1 .. Len(s) - 1 : Tail(s)[i] = s[i + 1]
  OBVIOUS
<1>3. Head(s) \in Listed(s)
  BY <1>1 DEF Listed
<1>4. ASSUME NEW z \in Listed(s) PROVE z \in {Head(s)} \cup Listed(Tail(s))
  <2>1. PICK i \in 1 .. Len(s) : z = s[i]
    BY DEF Listed
  <2>2. CASE i = 1
    BY <1>1, <2>1, <2>2
  <2>3. CASE i # 1
    <3>1. i - 1 \in 1 .. Len(s) - 1 /\ Tail(s)[i - 1] = s[i]
      BY <1>1, <1>2, <2>3
    <3>. QED
      BY <1>2, <2>1, <3>1 DEF Listed
  <2>. QED
    BY <2>2, <2>3
<1>5. ASSUME NEW z \in Listed(Tail(s)) PROVE \E i \in 1 .. Len(s) - 1 : z = s[i + 1] /\ i + 1 \in 1 .. Len(s)
  BY <1>1, <1>2 DEF Listed
<1>6. Listed(Tail(s)) \subseteq Listed(s)
  BY <1>5 DEF Listed
<1>7. ASSUME Distinct(s) PROVE Distinct(Tail(s)) /\ Head(s) \notin Listed(Tail(s))
  <2>1. Distinct(Tail(s))
    <3>. SUFFICES ASSUME NEW i \in 1 .. Len(s) - 1, NEW j \in 1 .. Len(s) - 1, s[i + 1] = s[j + 1] PROVE i = j
      BY <1>2 DEF Distinct
    <3>1. i + 1 \in 1 .. Len(s) /\ j + 1 \in 1 .. Len(s)
      BY <1>1
    <3>2. i + 1 = j + 1
      BY <1>7, <3>1 DEF Distinct
    <3>. QED
      BY <3>2
  <2>2. ASSUME Head(s) \in Listed(Tail(s)) PROVE FALSE
    <3>1. PICK i \in 1 .. Len(s) - 1 : s[1] = s[i + 1] /\ i + 1 \in 1 .. Len(s)
      BY <1>1, <1>5, <2>2
    <3>2. 1 \in 1 .. Len(s)
      BY <1>1
    <3>3. 1 = i + 1
      BY <1>7, <3>1, <3>2 DEF Distinct
    <3>. QED
      BY <3>3
  <2>. QED
    BY <2>1, <2>2
<1>. QED
  BY <1>1, <1>3, <1>4, <1>6, <1>7

LEMMA Appended ==
  ASSUME NEW X, NEW s \in Seq(X), NEW t \in X
  PROVE  /\ Append(s, t) \in Seq(X) /\ Listed(Append(s, t)) = Listed(s) \cup {t}
         /\ Distinct(s) /\ t \notin Listed(s) => Distinct(Append(s, t))
<1>. DEFINE a == Append(s, t)
            n == Len(s)
<1>1. a \in Seq(X) /\ n \in Nat /\ Len(a) = n + 1 /\ a[n + 1] = t /\ \A i \in 1 .. n : a[i] = s[i]
  OBVIOUS
<1>2. \A i \in 1 .. n + 1 : i \in 1 .. n \/ i = n + 1
  BY <1>1
<1>3. \A i \in 1 .. n : i \in 1 .. n + 1
  BY <1>1
<1>4. n + 1 \in 1 .. n + 1
  BY <1>1
<1>. HIDE DEF a, n
<1>5. Listed(a) = Listed(s) \cup {t}
  BY <1>1, <1>2, <1>3, <1>4 DEF Listed, n
<1>6. ASSUME Distinct(s), t \notin Listed(s) PROVE Distinct(a)
  <2>. SUFFICES ASSUME NEW i \in 1 .. n + 1, NEW j \in 1 .. n + 1, a[i] = a[j] PROVE i = j
    BY <1>1 DEF Distinct
  <2>1. CASE i \in 1 .. n /\ j \in 1 .. n
    BY <1>1, <1>6, <2>1 DEF Distinct, n
  <2>2. ASSUME NEW k \in 1 .. n PROVE a[k] # t
    BY <1>1, <1>6, <2>2 DEF Listed, n
  <2>. QED
    BY <1>1, <1>2, <2>1, <2>2
<1>. QED
  BY <1>1, <1>5, <1>6 DEF a

LEMMA EmptyList == Listed(<<>>) = {} /\ Distinct(<<>>)
  BY DEF Listed, Distinct

\* A function that numbers a finite set without repeating lists all of it, once.
LEMMA Permutes ==
  ASSUME NEW X, IsFiniteSet(X), NEW s \in [1 .. Cardinality(X) -> X],
         \A i, j \in 1 .. Cardinality(X) : i # j => s[i] # s[j]
  PROVE  s \in Seq(X) /\ Len(s) = Cardinality(X) /\ Listed(s) = X /\ Distinct(s)
<1>. DEFINE n == Cardinality(X)
<1>1. n \in Nat
  BY FS_CardinalityType
<1>2. s \in Seq(X) /\ Len(s) = n
  BY <1>1
<1>3. Distinct(s) /\ Listed(s) \subseteq X
  BY <1>1, <1>2 DEF Distinct, Listed
<1>4. ASSUME NEW y \in X, y \notin Listed(s) PROVE FALSE
  <2>1. IsFiniteSet(X \ {y}) /\ Cardinality(X \ {y}) = n - 1
    BY FS_RemoveElement
  <2>2. IsFiniteSet(1 .. n) /\ Cardinality(1 .. n) = n
    BY <1>1, FS_Interval
  <2>3. s \in [1 .. n -> X \ {y}]
    BY <1>1, <1>2, <1>4 DEF Listed
  <2>4. Cardinality(X \ {y}) < Cardinality(1 .. n)
    BY <1>1, <2>1, <2>2
  <2>5. \E i, j \in 1 .. n : i # j /\ s[i] = s[j]
    <3>. HIDE DEF n
    <3>. QED
      BY <2>1, <2>2, <2>3, <2>4, FS_PigeonHole
  <2>. QED
    BY <1>1, <1>2, <2>5
<1>. QED
  BY <1>2, <1>3, <1>4

\* A list without repetitions is as long as what is on it.
LEMMA ListCounts ==
  ASSUME NEW X, NEW s \in Seq(X), Distinct(s)
  PROVE  IsFiniteSet(Listed(s)) /\ Cardinality(Listed(s)) = Len(s)
<1>1. Len(s) \in Nat /\ s \in [1 .. Len(s) -> Listed(s)]
  BY DEF Listed
<1>2. s \in Bijection(1 .. Len(s), Listed(s))
  BY <1>1 DEF Bijection, Injection, Surjection, IsInjective, Distinct, Listed
<1>3. ExistsBijection(1 .. Len(s), Listed(s))
  BY <1>2 DEF ExistsBijection
<1>4. IsFiniteSet(1 .. Len(s)) /\ Cardinality(1 .. Len(s)) = Len(s)
  BY <1>1, FS_Interval
<1>. QED
  BY <1>3, <1>4, FS_Bijection

----------------------------------------------------------------------------
(* Graphs                                                                    *)

\* Removing edges makes no cycle.
THEOREM AcyclicSubset ==
  ASSUME NEW Nodes, NEW E, NEW F, Acyclic(Nodes, E), F \subseteq E
  PROVE  Acyclic(Nodes, F)
  BY DEF Acyclic

\* The check of deps.add and of a reparent: when y does not already reach x, an
\* edge from x to y closes no cycle.
THEOREM AcyclicAddEdge ==
  ASSUME NEW Nodes, NEW E, NEW x \in Nodes, NEW y \in Nodes,
         Acyclic(Nodes, E), ~Reaches(Nodes, E, y, x)
  PROVE  Acyclic(Nodes, E \cup {<<x, y>>})
<1>1. PICK R \in SUBSET Nodes : y \in R /\ x \notin R /\ ClosedUnder(E, R)
  BY DEF Reaches
<1> SUFFICES ASSUME NEW S \in SUBSET Nodes, S # {},
                    \A a \in S : \E b \in S : <<a, b>> \in E \cup {<<x, y>>}
             PROVE  FALSE
  BY DEF Acyclic
<1>2. PICK a \in S : \A b \in S : <<a, b>> \notin E
  BY DEF Acyclic
<1>3. a = x /\ y \in S
  BY <1>2
<1>4. \A c \in S \cap R : \E b \in S \cap R : <<c, b>> \in E
  <2> SUFFICES ASSUME NEW c \in S \cap R PROVE \E b \in S \cap R : <<c, b>> \in E
    OBVIOUS
  <2>1. c # x
    BY <1>1
  <2>2. PICK b \in S : <<c, b>> \in E
    BY <2>1
  <2>3. b \in R
    BY <1>1, <2>2 DEF ClosedUnder
  <2> QED  BY <2>2, <2>3
<1>5. S \cap R \in SUBSET Nodes /\ S \cap R # {}
  BY <1>1, <1>3
<1> QED  BY <1>4, <1>5 DEF Acyclic

\* Every node reaches itself.
THEOREM ReachesRefl ==
  ASSUME NEW Nodes, NEW E, NEW x
  PROVE  Reaches(Nodes, E, x, x)
  BY DEF Reaches

\* What is reached from something reached is reached.
THEOREM ReachesTrans ==
  ASSUME NEW Nodes, NEW E, NEW x, NEW y, NEW z,
         Reaches(Nodes, E, x, y), Reaches(Nodes, E, y, z)
  PROVE  Reaches(Nodes, E, x, z)
  BY DEF Reaches

\* So is what an edge leads to from something reached.
THEOREM ReachesStep ==
  ASSUME NEW Nodes, NEW E, NEW x, NEW y, NEW z, Reaches(Nodes, E, x, y), <<y, z>> \in E
  PROVE  Reaches(Nodes, E, x, z)
<1> SUFFICES ASSUME NEW S \in SUBSET Nodes, x \in S, ClosedUnder(E, S) PROVE z \in S
  BY DEF Reaches
<1>1. y \in S
  BY DEF Reaches
<1>2. <<y, z>>[1] \in S => <<y, z>>[2] \in S
  BY DEF ClosedUnder
<1> QED  BY <1>1, <1>2

\* With fewer edges less is reached.
THEOREM ReachesFewer ==
  ASSUME NEW Nodes, NEW E, NEW F, F \subseteq E, NEW x, NEW y, Reaches(Nodes, F, x, y)
  PROVE  Reaches(Nodes, E, x, y)
  BY DEF Reaches, ClosedUnder

\* A set closed under the edges keeps what its members reach.
THEOREM ReachesWithin ==
  ASSUME NEW Nodes, NEW E, NEW S \in SUBSET Nodes, ClosedUnder(E, S), NEW x \in S, NEW y,
         Reaches(Nodes, E, x, y)
  PROVE  y \in S
  BY DEF Reaches

\* What a node reaches over one more edge, it reached before, or it reaches through
\* that edge: what a reparent adds to the ancestors of a task.
THEOREM ReachesAddEdge ==
  ASSUME NEW Nodes, NEW E, E \subseteq Nodes \X Nodes, NEW a \in Nodes, NEW b \in Nodes,
         NEW x \in Nodes, NEW y, Reaches(Nodes, E \cup {<<a, b>>}, x, y)
  PROVE  Reaches(Nodes, E, x, y) \/ (Reaches(Nodes, E, x, a) /\ Reaches(Nodes, E, b, y))
<1> DEFINE X == {z \in Nodes : Reaches(Nodes, E, x, z)}
           B == {z \in Nodes : Reaches(Nodes, E, b, z)}
           F == E \cup {<<a, b>>}
<1>1. X \in SUBSET Nodes /\ x \in X /\ B \in SUBSET Nodes /\ b \in B
  BY ReachesRefl
<1>2. \A e \in E : e = <<e[1], e[2]>> /\ e[1] \in Nodes /\ e[2] \in Nodes
  OBVIOUS
<1>3. ClosedUnder(E, X) /\ ClosedUnder(E, B)
  <2>1. ASSUME NEW e \in E, e[1] \in X PROVE e[2] \in X
    BY <1>2, <2>1, ReachesStep
  <2>2. ASSUME NEW e \in E, e[1] \in B PROVE e[2] \in B
    BY <1>2, <2>2, ReachesStep
  <2> QED  BY <2>1, <2>2 DEF ClosedUnder
<1>4. CASE a \notin X
  <2>1. ClosedUnder(F, X)
    BY <1>3, <1>4 DEF ClosedUnder
  <2>2. y \in X
    BY <1>1, <2>1 DEF Reaches
  <2> QED  BY <2>2
<1>5. CASE a \in X
  <2>1. ClosedUnder(F, X \cup B)
    BY <1>1, <1>3 DEF ClosedUnder
  <2>2. X \cup B \in SUBSET Nodes /\ x \in X \cup B
    BY <1>1
  <2>3. y \in X \cup B
    BY <2>1, <2>2 DEF Reaches
  <2> QED  BY <1>5, <2>3
<1> QED  BY <1>4, <1>5

\* What a node reaches beside itself, it reaches through one of its edges.
THEOREM ReachesFirst ==
  ASSUME NEW Nodes, NEW E, E \subseteq Nodes \X Nodes, NEW x \in Nodes, NEW y, y # x,
         Reaches(Nodes, E, x, y)
  PROVE  \E z \in Nodes : <<x, z>> \in E /\ Reaches(Nodes, E, z, y)
<1> DEFINE S == {x} \cup {u \in Nodes : \E z \in Nodes : <<x, z>> \in E /\ Reaches(Nodes, E, z, u)}
<1>1. S \in SUBSET Nodes /\ x \in S
  OBVIOUS
<1>2. \A e \in E : e = <<e[1], e[2]>> /\ e[1] \in Nodes /\ e[2] \in Nodes
  OBVIOUS
<1>3. ASSUME NEW e \in E, e[1] \in S PROVE e[2] \in S
  <2>1. CASE e[1] = x
    BY <1>2, <2>1, ReachesRefl
  <2>2. CASE e[1] # x
    <3>1. PICK z \in Nodes : <<x, z>> \in E /\ Reaches(Nodes, E, z, e[1])
      BY <1>3, <2>2
    <3>2. Reaches(Nodes, E, z, e[2])
      BY <1>2, <3>1, ReachesStep
    <3> QED  BY <1>2, <3>1, <3>2
  <2> QED  BY <2>1, <2>2
<1>4. ClosedUnder(E, S)
  BY <1>3 DEF ClosedUnder
<1>5. y \in S
  BY <1>1, <1>4 DEF Reaches
<1> QED  BY <1>5

\* Without a cycle no edge can be undone: what it leads to does not reach back.
THEOREM NoWayBack ==
  ASSUME NEW Nodes, NEW E, E \subseteq Nodes \X Nodes, Acyclic(Nodes, E),
         NEW x \in Nodes, NEW y \in Nodes, <<x, y>> \in E
  PROVE  ~Reaches(Nodes, E, y, x)
<1> SUFFICES ASSUME Reaches(Nodes, E, y, x) PROVE FALSE
  OBVIOUS
<1> DEFINE S == {z \in Nodes : Reaches(Nodes, E, z, x)}
<1>1. S \in SUBSET Nodes /\ x \in S /\ y \in S
  BY ReachesRefl
<1>2. ASSUME NEW z \in S PROVE \E u \in S : <<z, u>> \in E
  <2>1. CASE z = x
    BY <1>1, <2>1
  <2>2. CASE z # x
    BY <2>2, ReachesFirst
  <2> QED  BY <2>1, <2>2
<1> QED  BY <1>1, <1>2 DEF Acyclic

\* In a finite graph without a cycle, every set of nodes has one that no edge from the set
\* leads to: the least in the number of those that reach it.
LEMMA HasSource ==
  ASSUME NEW N, IsFiniteSet(N), NEW E, E \subseteq N \X N, Acyclic(N, E), NEW Q \in SUBSET N, Q # {}
  PROVE  \E t \in Q : \A c \in Q : <<c, t>> \notin E
<1>. DEFINE U(x) == {y \in Q : Reaches(N, E, y, x)}
            Sizes == {Cardinality(U(x)) : x \in Q}
<1>1. \A x \in Q : IsFiniteSet(U(x)) /\ Cardinality(U(x)) \in Nat
  <2>1. IsFiniteSet(Q)
    BY FS_Subset
  <2>2. ASSUME NEW x \in Q PROVE IsFiniteSet(U(x))
    <3>1. U(x) \in SUBSET Q
      OBVIOUS
    <3>. QED
      BY <2>1, <3>1, FS_Subset
  <2>. QED
    BY <2>2, FS_CardinalityType
<1>2. Sizes \in SUBSET Nat /\ Sizes # {}
  BY <1>1
<1>3. PICK n \in Sizes : \A m \in Sizes : n <= m
  BY <1>2, LeastNatural
<1>4. PICK t \in Q : n = Cardinality(U(t))
  BY <1>3
<1>5. ASSUME NEW c \in Q, <<c, t>> \in E PROVE FALSE
  <2>1. ~Reaches(N, E, t, c)
    BY <1>5, NoWayBack
  <2>2. U(c) \subseteq U(t)
    BY <1>5, ReachesStep
  <2>3. t \in U(t) /\ t \notin U(c)
    BY <2>1, ReachesRefl
  <2>4. Cardinality(U(c)) <= Cardinality(U(t)) /\ Cardinality(U(c)) # Cardinality(U(t))
    <3>. HIDE DEF U
    <3>. QED
      BY <1>1, <2>2, <2>3, FS_Subset
  <2>5. Cardinality(U(t)) <= Cardinality(U(c))
    BY <1>3, <1>4
  <2>. HIDE DEF U
  <2>. QED
    BY <1>1, <2>4, <2>5
<1>. QED
  BY <1>5

=============================================================================
