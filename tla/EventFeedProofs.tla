--------------------------- MODULE EventFeedProofs ---------------------------
(***************************************************************************)
(* The event log loses nothing, for any number of transactions and projects *)
(* and any page size: proofs of NoneSkipped and InOrderOnce.                *)
(***************************************************************************)
EXTENDS EventFeed, FiniteSetTheorems, TLAPS

\* The writers' half: the lock is held by the one that writes, and what it has
\* written lies above everything its project has committed.
WritersInOrder ==
  /\ \A x \in Txn : status[x] = "writing" => holder[ProjectOf[x]] = x
  /\ \A x \in Txn : status[x] = "running" => rows[x] = {}
  /\ \A x \in Txn : \A i \in rows[x] : i <= lastId
  /\ \A x \in Txn : status[x] = "writing" /\ ProjectOf[x] = Followed =>
       \A i \in rows[x] : \A j \in Committed : j < i

\* The follower's half: what a read returned is a stretch of the log just above
\* the cursor, and stays one, whatever commits meanwhile.
ReadsAreStretches ==
  /\ base = None => ~running /\ ~asked /\ ~listening /\ ~wakes /\ batch = {} /\ arrived = {}
  /\ base # None => base <= cursor
  /\ cursor \in Committed \cup {0}
  /\ asked => batch = {}
  /\ ~asked => fetched = {}
  /\ \A i \in fetched : /\ i \in Committed /\ cursor < i
                        /\ \A j \in Committed : cursor < j /\ j < i => j \in fetched

FeedInv == TypeOK /\ WritersInOrder /\ ReadsAreStretches /\ NoneSkipped

\* The first page after a cursor has no holes.
LEMMA PageIsStretch ==
  ASSUME TypeOK, NEW c \in Nat
  PROVE  \A i \in PageAfter(c) : /\ i \in Committed /\ c < i
                                 /\ \A j \in Committed : c < j /\ j < i => j \in PageAfter(c)
<1> SUFFICES ASSUME NEW i \in PageAfter(c), NEW j \in Committed, c < j, j < i
             PROVE  j \in PageAfter(c)
  BY DEF PageAfter
<1> DEFINE Upto(k) == {l \in Committed : c < l /\ l <= k}
<1>1. Committed \subseteq 1 .. MaxId
  BY DEF TypeOK, Committed
<1>2. i \in Committed /\ i \in Nat /\ j \in Nat
  BY <1>1, FeedAssumption DEF PageAfter
<1>3. IsFiniteSet(Upto(i))
  <2>1. IsFiniteSet(1 .. MaxId)
    BY FS_Interval, FeedAssumption
  <2> QED  BY <1>1, <2>1, FS_Subset
<1>4. Upto(j) \subseteq Upto(i)
  <2> SUFFICES ASSUME NEW l \in Committed, c < l, l <= j PROVE l <= i
    OBVIOUS
  <2> QED  BY <1>1, <1>2
<1>5. Cardinality(Upto(j)) <= Cardinality(Upto(i)) /\ IsFiniteSet(Upto(j))
  BY <1>3, <1>4, FS_Subset
<1>6. Cardinality(Upto(j)) \in Nat /\ Cardinality(Upto(i)) \in Nat
  BY <1>3, <1>5, FS_CardinalityType
<1>7. Cardinality(Upto(i)) <= EventsPage
  BY Zenon DEF PageAfter
<1>8. Cardinality(Upto(j)) <= EventsPage
  BY <1>5, <1>6, <1>7, FeedAssumption
<1> QED  BY <1>8 DEF PageAfter

\* The two halves of the type invariant: numbers and sets, and flags.
NumbersOK ==
  /\ status \in [Txn -> {"running", "writing", "committed"}]
  /\ rows \in [Txn -> SUBSET (1 .. MaxId)]
  /\ holder \in [Project -> Txn \cup {None}]
  /\ lastId \in 0 .. MaxId
  /\ base \in (0 .. MaxId) \cup {None}
  /\ cursor \in 0 .. MaxId
  /\ fetched \in SUBSET (1 .. MaxId)
  /\ batch \in SUBSET (1 .. MaxId)
  /\ arrived \in SUBSET (1 .. MaxId)
  /\ drops \in 0 .. MaxDrops /\ failures \in 0 .. MaxFailures
FlagsOK ==
  /\ listening \in BOOLEAN /\ wakes \in BOOLEAN /\ running \in BOOLEAN /\ again \in BOOLEAN
  /\ stopped \in BOOLEAN /\ asked \in BOOLEAN

LEMMA TypeHalves == TypeOK <=> NumbersOK /\ FlagsOK
  BY Zenon DEF TypeOK, NumbersOK, FlagsOK

LEMMA FeedType == TypeOK /\ [Next]_vars => TypeOK'
<1> SUFFICES ASSUME TypeOK, [Next]_vars PROVE NumbersOK' /\ FlagsOK'
  BY Zenon DEF TypeOK, NumbersOK, FlagsOK
<1>0. NumbersOK /\ FlagsOK
  BY TypeHalves
<1>1. Committed \subseteq 1 .. MaxId
  BY <1>0 DEF NumbersOK, Committed
<1>2. ASSUME NEW x \in Txn, Write(x) PROVE NumbersOK' /\ FlagsOK'
  <2>1. NumbersOK'
    <3>1. CASE LockEvents(x)
      BY <1>0, <3>1, FeedAssumption DEF NumbersOK, LockEvents, followerVars
    <3>2. CASE InsertEvent(x)
      BY <1>0, <3>2, FeedAssumption DEF NumbersOK, InsertEvent, followerVars
    <3>3. CASE Commit(x)
      BY <1>0, <3>3, FeedAssumption DEF NumbersOK, Commit, followerVars
    <3>4. CASE RollBack(x)
      BY <1>0, <3>4, FeedAssumption DEF NumbersOK, RollBack, followerVars
    <3> QED  BY <1>2, <3>1, <3>2, <3>3, <3>4 DEF Write
  <2>2. FlagsOK'
    BY <1>0, <1>2, Zenon
    DEF FlagsOK, Write, LockEvents, InsertEvent, Commit, RollBack, followerVars
  <2> QED  BY <2>1, <2>2
<1>3. CASE Subscribe
  <2>1. NumbersOK'
    BY <1>0, <1>1, <1>3, FeedAssumption DEF NumbersOK, Subscribe, txnVars
  <2>2. FlagsOK'
    BY <1>0, <1>3, Zenon DEF FlagsOK, Subscribe
  <2> QED  BY <2>1, <2>2
<1>4. CASE Listen \/ Disconnect \/ Wake \/ Unsubscribe
  <2>1. NumbersOK'
    <3>1. CASE Listen \/ Wake \/ Unsubscribe
      BY <1>0, <3>1 DEF NumbersOK, Listen, Wake, Unsubscribe, txnVars
    <3>2. CASE Disconnect
      <4>1. drops' \in 0 .. MaxDrops
        BY <1>0, <3>2, FeedAssumption DEF NumbersOK, Disconnect
      <4>2. UNCHANGED <<txnVars, base, cursor, fetched, batch, arrived, failures>>
        BY <3>2 DEF Disconnect
      <4> QED  BY <1>0, <4>1, <4>2 DEF NumbersOK, txnVars
    <3> QED  BY <1>4, <3>1, <3>2
  <2>2. FlagsOK'
    BY <1>0, <1>4, Zenon DEF FlagsOK, Listen, Disconnect, Wake, Unsubscribe, CatchUp
  <2> QED  BY <2>1, <2>2
<1>5. CASE Read
  <2>1. NumbersOK'
    BY <1>0, <1>1, <1>5 DEF NumbersOK, Read, PageAfter, txnVars
  <2>2. FlagsOK'
    BY <1>0, <1>5, Zenon DEF FlagsOK, Read
  <2> QED  BY <2>1, <2>2
<1>6. CASE Receive \/ CaughtUp \/ Handled \/ Fails
  <2>1. NumbersOK'
    <3>1. CASE CaughtUp \/ Handled
      BY <1>0, <3>1 DEF NumbersOK, CaughtUp, Handled, txnVars
    <3>2. CASE Receive
      <4>1. cursor' \in 0 .. MaxId
        BY <1>0, <3>2, FeedAssumption DEF NumbersOK, Receive
      <4>2. /\ batch' = fetched /\ fetched' = {}
            /\ UNCHANGED <<txnVars, base, arrived, drops, failures>>
        BY <3>2 DEF Receive
      <4> QED  BY <1>0, <4>1, <4>2 DEF NumbersOK, txnVars
    <3>3. CASE Fails
      <4>1. failures' \in 0 .. MaxFailures
        BY <1>0, <3>3, FeedAssumption DEF NumbersOK, Fails
      <4>2. /\ arrived' = arrived \cup batch /\ batch' = {} /\ fetched' = {}
            /\ UNCHANGED <<txnVars, base, cursor, drops>>
        BY <3>3 DEF Fails
      <4> QED  BY <1>0, <4>1, <4>2 DEF NumbersOK, txnVars
    <3> QED  BY <1>6, <3>1, <3>2, <3>3
  <2>2. FlagsOK'
    BY <1>0, <1>6, Zenon DEF FlagsOK, Receive, CaughtUp, Handled, Fails
  <2> QED  BY <2>1, <2>2
<1>7. CASE UNCHANGED vars
  BY <1>0, <1>7 DEF NumbersOK, FlagsOK, vars
<1> QED  BY <1>2, <1>3, <1>4, <1>5, <1>6, <1>7 DEF Next

LEMMA FeedInit == Init => FeedInv
<1> SUFFICES ASSUME Init PROVE FeedInv
  OBVIOUS
<1>1. Committed = {}
  BY DEF Init, Committed
<1>2. TypeOK
  <2>1. NumbersOK
    BY FeedAssumption DEF Init, NumbersOK
  <2>2. FlagsOK
    BY DEF Init, FlagsOK
  <2> QED  BY <2>1, <2>2, TypeHalves
<1>3. WritersInOrder
  BY <1>1 DEF Init, WritersInOrder
<1>4. ReadsAreStretches
  BY <1>1 DEF Init, ReadsAreStretches
<1>5. NoneSkipped
  BY DEF Init, NoneSkipped
<1> QED  BY <1>2, <1>3, <1>4, <1>5 DEF FeedInv

\* A step that leaves the transactions alone leaves the log alone.
LEMMA LogFrame ==
  ASSUME WritersInOrder, UNCHANGED txnVars
  PROVE  WritersInOrder' /\ Committed' = Committed
<1>1. Committed' = Committed
  BY DEF Committed, txnVars
<1> QED  BY <1>1 DEF WritersInOrder, txnVars

\* The log grows only at its end.
LEMMA WriterStep ==
  ASSUME TypeOK, WritersInOrder, NEW x \in Txn, Write(x)
  PROVE  /\ WritersInOrder'
         /\ Committed \subseteq Committed'
         /\ \A i \in Committed' \ Committed : \A j \in Committed : j < i
<1>1. ProjectOf \in [Txn -> Project] /\ None \notin Txn
  BY FeedAssumption
<1>2. /\ status \in [Txn -> {"running", "writing", "committed"}]
      /\ rows \in [Txn -> SUBSET (1 .. MaxId)] /\ holder \in [Project -> Txn \cup {None}]
      /\ lastId \in Nat
  BY FeedAssumption DEF TypeOK
<1>3. CASE LockEvents(x)
  <2>1. /\ rows' = rows /\ lastId' = lastId /\ status' = [status EXCEPT ![x] = "writing"]
        /\ holder' = [holder EXCEPT ![ProjectOf[x]] = x]
        /\ holder[ProjectOf[x]] = None /\ status[x] = "running"
    BY <1>3 DEF LockEvents, LockFree
  <2>2. Committed' = Committed
    BY <1>2, <2>1 DEF Committed
  <2>3. \A y \in Txn : status'[y] = "writing" => holder'[ProjectOf[y]] = y
    BY <1>1, <1>2, <2>1 DEF WritersInOrder
  <2> QED  BY <1>2, <2>1, <2>2, <2>3 DEF WritersInOrder
<1>4. CASE InsertEvent(x)
  <2>1. /\ status' = status /\ holder' = holder /\ status[x] = "writing"
        /\ lastId' = lastId + 1 /\ rows' = [rows EXCEPT ![x] = @ \cup {lastId + 1}]
    BY <1>4 DEF InsertEvent
  <2>2. Committed' = Committed
    BY <1>2, <2>1 DEF Committed
  <2>3. \A j \in Committed : j \in Nat /\ j <= lastId
    BY <1>2 DEF Committed, WritersInOrder
  <2>4. \A y \in Txn : \A i \in rows'[y] : i <= lastId'
    BY <1>2, <2>1 DEF WritersInOrder
  <2>5. \A y \in Txn : status'[y] = "running" => rows'[y] = {}
    BY <1>2, <2>1 DEF WritersInOrder
  <2>6. \A y \in Txn : status'[y] = "writing" /\ ProjectOf[y] = Followed =>
          \A i \in rows'[y] : \A j \in Committed : j < i
    BY <1>2, <2>1, <2>3 DEF WritersInOrder
  <2> QED  BY <2>1, <2>2, <2>4, <2>5, <2>6 DEF WritersInOrder
<1>5. CASE Commit(x)
  <2>1. /\ rows' = rows /\ lastId' = lastId /\ status[x] = "writing"
        /\ status' = [status EXCEPT ![x] = "committed"]
        /\ holder' = [holder EXCEPT ![ProjectOf[x]] = None]
    BY <1>5 DEF Commit
  <2>2. \A y \in Txn : status'[y] = "writing" => y # x /\ ProjectOf[y] # ProjectOf[x]
    BY <1>2, <2>1 DEF WritersInOrder
  <2>3. Committed' = Committed \cup (IF ProjectOf[x] = Followed THEN rows[x] ELSE {})
    BY <1>2, <2>1 DEF Committed
  <2>4. \A y \in Txn : status'[y] = "writing" => holder'[ProjectOf[y]] = y
    BY <1>1, <1>2, <2>1, <2>2 DEF WritersInOrder
  <2>5. \A y \in Txn : status'[y] = "writing" /\ ProjectOf[y] = Followed =>
          \A i \in rows'[y] : \A j \in Committed' : j < i
    BY <1>2, <2>1, <2>2, <2>3 DEF WritersInOrder
  <2>6. \A i \in Committed' \ Committed : \A j \in Committed : j < i
    BY <2>1, <2>3 DEF WritersInOrder
  <2> QED  BY <1>2, <2>1, <2>3, <2>4, <2>5, <2>6 DEF WritersInOrder
<1>6. CASE RollBack(x)
  <2>1. /\ lastId' = lastId /\ status[x] = "writing"
        /\ rows' = [rows EXCEPT ![x] = {}]
        /\ status' = [status EXCEPT ![x] = "running"]
        /\ holder' = [holder EXCEPT ![ProjectOf[x]] = None]
    BY <1>6 DEF RollBack
  <2>2. Committed' = Committed
    BY <1>2, <2>1 DEF Committed
  <2>3. \A y \in Txn : status'[y] = "writing" => y # x /\ ProjectOf[y] # ProjectOf[x]
    BY <1>2, <2>1 DEF WritersInOrder
  <2>4. \A y \in Txn : status'[y] = "writing" => holder'[ProjectOf[y]] = y
    BY <1>1, <1>2, <2>1, <2>3 DEF WritersInOrder
  <2> QED  BY <1>2, <2>1, <2>2, <2>4 DEF WritersInOrder
<1> QED  BY <1>3, <1>4, <1>5, <1>6 DEF Write

\* What the follower's half needs of a step: the log grew at its end, above the
\* cursor, and the follower did not move.
LEMMA FollowerFrame ==
  ASSUME TypeOK, ReadsAreStretches, NoneSkipped, Committed \subseteq Committed',
         Committed' \subseteq Nat \ {0},
         \A i \in Committed' \ Committed : \A j \in Committed : j < i,
         UNCHANGED <<base, cursor, running, asked, fetched, batch, arrived, listening>>,
         base = None => ~wakes'
  PROVE  ReadsAreStretches' /\ NoneSkipped'
<1>1. \A i \in Committed' \ Committed : cursor < i
  BY DEF ReadsAreStretches
<1>2. cursor \in Nat /\ (base # None => base \in Nat)
  BY FeedAssumption DEF TypeOK
<1>3. \A i \in fetched : /\ i \in Committed' /\ cursor < i
                         /\ \A j \in Committed' : cursor < j /\ j < i => j \in fetched
  <2> SUFFICES ASSUME NEW i \in fetched PROVE /\ i \in Committed' /\ cursor < i
                         /\ \A j \in Committed' : cursor < j /\ j < i => j \in fetched
    OBVIOUS
  <2>1. i \in Committed /\ cursor < i
    BY DEF ReadsAreStretches
  <2>2. ASSUME NEW j \in Committed', j < i PROVE j \in Committed
    BY <2>1, <2>2
  <2> QED  BY <2>1, <2>2 DEF ReadsAreStretches
<1>4. ReadsAreStretches'
  BY <1>3 DEF ReadsAreStretches
<1>5. \A i \in Committed' : i <= cursor => i \in Committed
  BY <1>1, <1>2
<1>6. NoneSkipped'
  BY <1>5 DEF NoneSkipped
<1> QED  BY <1>4, <1>6

LEMMA FeedStep == FeedInv /\ [Next]_vars => FeedInv'
<1> SUFFICES ASSUME FeedInv, [Next]_vars PROVE FeedInv'
  OBVIOUS
<1>1. TypeOK /\ WritersInOrder /\ ReadsAreStretches /\ NoneSkipped /\ TypeOK'
  BY FeedType DEF FeedInv
<1>2. /\ Committed \subseteq Nat \ {0} /\ Committed' \subseteq Nat \ {0}
      /\ cursor \in Nat /\ (base # None => base \in Nat)
  BY <1>1, FeedAssumption DEF TypeOK, Committed
<1>3. ASSUME NEW x \in Txn, Write(x) PROVE FeedInv'
  <2>1. /\ WritersInOrder' /\ Committed \subseteq Committed'
        /\ \A i \in Committed' \ Committed : \A j \in Committed : j < i
    BY <1>1, <1>3, WriterStep
  <2>2. UNCHANGED <<base, cursor, running, asked, fetched, batch, arrived, listening>>
    BY <1>3 DEF Write, LockEvents, InsertEvent, Commit, RollBack, followerVars
  <2>3. base = None => ~wakes'
    BY <1>1, <1>3 DEF Write, LockEvents, InsertEvent, Commit, RollBack, ReadsAreStretches
  <2> QED  BY <1>1, <1>2, <2>1, <2>2, <2>3, FollowerFrame DEF FeedInv
<1>4. ASSUME UNCHANGED txnVars, ReadsAreStretches', NoneSkipped' PROVE FeedInv'
  BY <1>1, <1>4, LogFrame DEF FeedInv
<1>5. CASE Subscribe
  <2>1. UNCHANGED txnVars /\ Committed' = Committed
    BY <1>1, <1>5, LogFrame DEF Subscribe
  <2>2. /\ base = None /\ cursor' \in Committed \cup {0} /\ base' = cursor' /\ base' \in Nat
        /\ UNCHANGED <<listening, wakes, running, asked, fetched, batch, arrived>>
    BY <1>2, <1>5 DEF Subscribe
  <2>3. batch = {} /\ arrived = {} /\ fetched = {}
    BY <1>1, <2>2 DEF ReadsAreStretches
  <2>4. ReadsAreStretches'
    BY <1>1, <1>2, <2>1, <2>2, <2>3, FeedAssumption DEF ReadsAreStretches
  <2>5. NoneSkipped'
    <3>1. ~\E i \in Committed : base' < i /\ i <= cursor'
      BY <1>2, <2>2
    <3>2. {i \in Committed : base' < i /\ i <= cursor'} = {}
      BY <3>1
    <3> QED  BY <2>1, <2>2, <2>3, <3>2 DEF NoneSkipped
  <2> QED  BY <1>4, <2>1, <2>4, <2>5
<1>6. CASE Listen \/ Disconnect \/ Wake \/ Unsubscribe
  <2>1. /\ UNCHANGED <<txnVars, base, cursor, asked, fetched, batch, arrived>>
        /\ base # None
    BY <1>1, <1>6 DEF Listen, Disconnect, Wake, Unsubscribe, ReadsAreStretches
  <2>2. Committed' = Committed
    BY <1>1, <2>1, LogFrame
  <2> QED  BY <1>1, <1>4, <2>1, <2>2 DEF ReadsAreStretches, NoneSkipped
<1>7. CASE Read
  <2>1. /\ UNCHANGED <<txnVars, base, cursor, batch, arrived>>
        /\ base # None /\ asked' /\ batch = {} /\ fetched' = PageAfter(cursor)
    BY <1>1, <1>7 DEF Read, ReadsAreStretches
  <2>2. Committed' = Committed
    BY <1>1, <2>1, LogFrame
  <2>3. \A i \in PageAfter(cursor) : /\ i \in Committed /\ cursor < i
          /\ \A j \in Committed : cursor < j /\ j < i => j \in PageAfter(cursor)
    BY <1>1, <1>2, PageIsStretch
  <2> QED  BY <1>1, <1>4, <2>1, <2>2, <2>3 DEF ReadsAreStretches, NoneSkipped
<1>8. CASE Receive
  <2>1. /\ UNCHANGED <<txnVars, base, arrived>> /\ asked /\ ~asked'
        /\ batch' = fetched /\ fetched' = {}
    BY <1>8 DEF Receive
  <2>2. cursor' \in fetched /\ \A i \in fetched : i <= cursor'
    BY <1>8 DEF Receive
  <2>3. Committed' = Committed /\ batch = {} /\ base # None
    BY <1>1, <2>1, LogFrame DEF ReadsAreStretches
  <2>4. \A i \in fetched : /\ i \in Committed /\ cursor < i
          /\ \A j \in Committed : cursor < j /\ j < i => j \in fetched
    BY <1>1 DEF ReadsAreStretches
  <2>5. base \in Nat /\ base <= cursor /\ cursor' \in Nat /\ cursor < cursor'
    BY <1>1, <1>2, <2>2, <2>3, <2>4 DEF ReadsAreStretches
  <2>6. ReadsAreStretches'
    BY <1>2, <2>1, <2>2, <2>3, <2>4, <2>5 DEF ReadsAreStretches
  <2>7. \A i \in Committed : cursor < i /\ i <= cursor' <=> i \in fetched
    BY <1>2, <2>2, <2>4, <2>5
  <2>8. arrived = {i \in Committed : base < i /\ i <= cursor}
    BY <1>1, <2>3 DEF NoneSkipped
  <2>9. arrived \cup fetched = {i \in Committed : base < i /\ i <= cursor'}
    <3>1. \A i \in Committed : i \in Nat
      BY <1>2
    <3>2. \A i \in Committed : base < i /\ i <= cursor' <=> i \in arrived \/ i \in fetched
      <4> SUFFICES ASSUME NEW i \in Committed
                   PROVE  base < i /\ i <= cursor' <=> i \in arrived \/ i \in fetched
        OBVIOUS
      <4>1. i \in arrived <=> base < i /\ i <= cursor
        BY <2>8
      <4>2. i \in fetched <=> cursor < i /\ i <= cursor'
        BY <2>7
      <4>3. i \in Nat /\ cursor \in Nat
        BY <1>2, <3>1
      <4> QED  BY <2>5, <4>1, <4>2, <4>3
    <3>3. arrived \subseteq Committed /\ fetched \subseteq Committed
      BY <2>4, <2>8
    <3> QED  BY <3>2, <3>3, Zenon
  <2>10. NoneSkipped'
    BY <2>1, <2>3, <2>9 DEF NoneSkipped
  <2> QED  BY <1>4, <2>1, <2>6, <2>10
<1>9. CASE CaughtUp \/ Handled \/ Fails
  <2>1. /\ UNCHANGED <<txnVars, base, cursor>> /\ base # None
        /\ arrived' \cup batch' = arrived \cup batch
        /\ (asked' => batch' = {})
        /\ fetched' = fetched \/ fetched' = {}
        /\ ~asked' => fetched' = {}
    BY <1>1, <1>9 DEF CaughtUp, Handled, Fails, ReadsAreStretches
  <2>2. Committed' = Committed
    BY <1>1, <2>1, LogFrame
  <2> QED  BY <1>1, <1>4, <2>1, <2>2 DEF ReadsAreStretches, NoneSkipped
<1>10. CASE UNCHANGED vars
  <2>1. UNCHANGED txnVars /\ Committed' = Committed
    BY <1>1, <1>10, LogFrame DEF vars, txnVars
  <2> QED  BY <1>1, <1>4, <1>10, <2>1 DEF vars, ReadsAreStretches, NoneSkipped
<1> QED  BY <1>3, <1>5, <1>6, <1>7, <1>8, <1>9, <1>10 DEF Next

\* The cursor passes no event of its project, however many transactions of however
\* many projects take ids and commit or roll back meanwhile.
THEOREM FeedSkipsNothing == Spec => []NoneSkipped
<1>1. FeedInv => NoneSkipped
  BY DEF FeedInv
<1> QED  BY <1>1, FeedInit, FeedStep, PTL DEF Spec

\* Every batch lies above everything handed out before.
THEOREM FeedInOrder == Spec => InOrderOnce
<1>1. FeedInv /\ [Next]_vars =>
        [\A i \in batch' \ batch : \A j \in arrived \cup batch : j < i]_vars
  <2> SUFFICES ASSUME FeedInv, [Next]_vars, NEW i \in batch', i \notin batch,
                      NEW j \in arrived \cup batch
               PROVE  j < i
    BY DEF FeedInv
  <2>1. Receive
    BY DEF Next, Write, LockEvents, InsertEvent, Commit, RollBack, followerVars, Subscribe,
           Listen, Disconnect, Wake, Read, CaughtUp, Handled, Fails, Unsubscribe, vars
  <2>2. i \in fetched
    BY <2>1 DEF Receive
  <2>3. cursor < i /\ i \in Committed /\ base # None
    BY <2>1, <2>2 DEF FeedInv, ReadsAreStretches, Receive
  <2>4. j \in Committed /\ j <= cursor
    BY <2>3 DEF FeedInv, NoneSkipped
  <2>5. Committed \subseteq Nat /\ cursor \in Nat
    BY FeedAssumption DEF FeedInv, TypeOK, Committed
  <2> QED  BY <2>3, <2>4, <2>5
<1> QED  BY <1>1, FeedInit, FeedStep, PTL DEF Spec, InOrderOnce

=============================================================================
