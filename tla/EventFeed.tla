----------------------------- MODULE EventFeed -----------------------------
(***************************************************************************)
(* The event log and its followers (src/src/taskgraph/events.ts, tx.ts,     *)
(* subscribeEvents in client.ts, listen in session.ts).                     *)
(*                                                                         *)
(* A transaction buffers its events and writes them last, under its         *)
(* project's events lock, which it holds until it commits.  Ids come from   *)
(* one identity column shared by all projects and are never given back.  A  *)
(* follower of one project keeps a cursor and catches up from it whenever a *)
(* notification or a new LISTEN wakes it.                                   *)
(***************************************************************************)
EXTENDS Naturals, FiniteSets

CONSTANTS
  Txn,          \* transactions
  Project,      \* projects
  ProjectOf,    \* the project a transaction writes events of
  Followed,     \* the project the follower follows
  EventsPage,   \* EVENTS_PAGE, how many events one read returns
  MaxId,        \* bound: ids the identity column gives out
  MaxDrops,     \* bound: how often the LISTEN connection is lost
  MaxFailures,  \* bound: catch-ups that end with an error
  None

ASSUME FeedAssumption ==
  /\ ProjectOf \in [Txn -> Project] /\ Followed \in Project
  /\ EventsPage \in Nat \ {0} /\ MaxId \in Nat /\ MaxDrops \in Nat /\ MaxFailures \in Nat
  /\ None \notin Txn /\ None \notin Nat

VARIABLES
  status,    \* a transaction: running, writing (it holds the events lock), committed
  rows,      \* the ids of the events it has inserted
  holder,    \* per project, the transaction holding the events lock
  lastId,    \* the identity column
  base,      \* the cursor the subscription started from; None before it starts
  cursor,    \* the id after which the next read starts
  listening, \* the LISTEN connection is up
  wakes,     \* notifications on their way to the follower (0 or 1: they carry no data)
  running,   \* a catch-up runs
  again,     \* a wake came during it
  asked,     \* a read is under way
  fetched,   \* the rows it returns
  batch,     \* the events the handler is working on
  arrived,   \* the events handed to the handler, the current batch excluded
  stopped,   \* the follower unsubscribed
  drops, failures

txnVars == <<status, rows, holder, lastId>>
vars == <<status, rows, holder, lastId, base, cursor, listening, wakes, running, again,
          asked, fetched, batch, arrived, stopped, drops, failures>>

\* The committed events of the followed project.
Committed == UNION {rows[x] : x \in {y \in Txn : status[y] = "committed"
                                                /\ ProjectOf[y] = Followed}}

TypeOK ==
  /\ status \in [Txn -> {"running", "writing", "committed"}]
  /\ rows \in [Txn -> SUBSET (1 .. MaxId)]
  /\ holder \in [Project -> Txn \cup {None}]
  /\ lastId \in 0 .. MaxId
  /\ base \in (0 .. MaxId) \cup {None}
  /\ cursor \in 0 .. MaxId
  /\ listening \in BOOLEAN /\ wakes \in BOOLEAN /\ running \in BOOLEAN /\ again \in BOOLEAN
  /\ stopped \in BOOLEAN
  /\ asked \in BOOLEAN /\ fetched \in SUBSET (1 .. MaxId)
  /\ batch \in SUBSET (1 .. MaxId)
  /\ arrived \in SUBSET (1 .. MaxId)
  /\ drops \in 0 .. MaxDrops /\ failures \in 0 .. MaxFailures

Init ==
  /\ status = [x \in Txn |-> "running"]
  /\ rows = [x \in Txn |-> {}]
  /\ holder = [p \in Project |-> None]
  /\ lastId = 0
  /\ base = None /\ cursor = 0
  /\ listening = FALSE /\ wakes = FALSE /\ running = FALSE /\ again = FALSE
  /\ asked = FALSE /\ fetched = {} /\ batch = {} /\ arrived = {}
  /\ stopped = FALSE /\ drops = 0 /\ failures = 0

---------------------------------------------------------------------------
\* Writers.

followerVars == <<base, cursor, listening, running, again, asked, fetched, batch, arrived,
                  stopped, drops, failures>>

\* The advisory lock of the project.  Faulty variant: not taken.
LockIgnored(p) == TRUE
LockFree(p) == holder[p] = None

\* writeEvents: the lock first
LockEvents(x) ==
  /\ status[x] = "running" /\ LockFree(ProjectOf[x])
  /\ status' = [status EXCEPT ![x] = "writing"]
  /\ holder' = [holder EXCEPT ![ProjectOf[x]] = x]
  /\ UNCHANGED <<rows, lastId, wakes, followerVars>>

\* writeEvents: then the rows, in order
InsertEvent(x) ==
  /\ status[x] = "writing" /\ lastId < MaxId
  /\ lastId' = lastId + 1
  /\ rows' = [rows EXCEPT ![x] = @ \cup {lastId + 1}]
  /\ UNCHANGED <<status, holder, wakes, followerVars>>

\* pg_notify is delivered on commit, to those listening then.
Commit(x) ==
  /\ status[x] = "writing" /\ rows[x] # {}
  /\ status' = [status EXCEPT ![x] = "committed"]
  /\ holder' = [holder EXCEPT ![ProjectOf[x]] = None]
  /\ wakes' = (wakes \/ (listening /\ ProjectOf[x] = Followed))
  /\ UNCHANGED <<rows, lastId, followerVars>>

\* A deadlock, a serialization failure or a lost connection; runTransaction may run
\* the whole transaction again.
RollBack(x) ==
  /\ status[x] = "writing"
  /\ status' = [status EXCEPT ![x] = "running"]
  /\ rows' = [rows EXCEPT ![x] = {}]
  /\ holder' = [holder EXCEPT ![ProjectOf[x]] = None]
  /\ UNCHANGED <<lastId, wakes, followerVars>>

---------------------------------------------------------------------------
\* The follower.

\* catchUp.  Faulty variant: a wake during a catch-up is forgotten.
CatchUpForgets == running' = ~stopped /\ again' = FALSE
CatchUp == IF stopped THEN UNCHANGED <<running, again>>
                      ELSE running' = TRUE /\ again' = running

\* subscribeEvents: from the caller's cursor, or from the newest event
Subscribe ==
  /\ base = None
  /\ \E c \in Committed \cup {0} : base' = c /\ cursor' = c
  /\ UNCHANGED <<txnVars, listening, wakes, running, again, asked, fetched, batch, arrived,
                 stopped, drops, failures>>

\* LISTEN is up, at first or after a reconnect: notifications may have been missed.
Listen ==
  /\ base # None /\ ~listening /\ ~stopped
  /\ listening' = TRUE
  /\ CatchUp
  /\ UNCHANGED <<txnVars, wakes, base, cursor, asked, fetched, batch, arrived, stopped, drops, failures>>

\* The connection is lost, with the notifications on their way.
Disconnect ==
  /\ listening /\ drops < MaxDrops
  /\ listening' = FALSE /\ wakes' = FALSE /\ drops' = drops + 1
  /\ UNCHANGED <<txnVars, base, cursor, running, again, asked, fetched, batch, arrived, stopped,
                 failures>>

\* A notification arrives.
Wake ==
  /\ wakes
  /\ wakes' = FALSE
  /\ CatchUp
  /\ UNCHANGED <<txnVars, base, cursor, listening, asked, fetched, batch, arrived, stopped, drops, failures>>

\* events.since: the first page of the events after the cursor.
\* Faulty variant: the page starts at the cursor.
PageFrom(c) == {i \in Committed : i >= c /\ Cardinality({j \in Committed : c <= j /\ j <= i}) <= EventsPage}
PageAfter(c) ==
  {i \in Committed : i > c /\ Cardinality({j \in Committed : c < j /\ j <= i}) <= EventsPage}

\* The read runs in the database; its answer is seen later.
Read ==
  /\ running /\ ~asked /\ batch = {}
  /\ asked' = TRUE /\ fetched' = PageAfter(cursor)
  /\ UNCHANGED <<txnVars, wakes, base, cursor, listening, running, again, batch, arrived,
                 stopped, drops, failures>>

\* The answer: a batch moves the cursor and goes to the handler.
Receive ==
  /\ asked /\ fetched # {} /\ ~stopped
  /\ \E c \in fetched : (\A i \in fetched : i <= c) /\ cursor' = c
  /\ batch' = fetched /\ asked' = FALSE /\ fetched' = {}
  /\ UNCHANGED <<txnVars, wakes, base, listening, running, again, arrived, stopped, drops, failures>>

\* Nothing new, or no longer wanted: the catch-up ends, or starts over after a wake.
CaughtUp ==
  /\ asked /\ (fetched = {} \/ stopped)
  /\ asked' = FALSE /\ fetched' = {}
  /\ running' = (again /\ ~stopped) /\ again' = (again /\ stopped)
  /\ UNCHANGED <<txnVars, wakes, base, cursor, listening, batch, arrived, stopped,
                 drops, failures>>

\* The handler returns; the next read follows.
Handled ==
  /\ batch # {}
  /\ arrived' = arrived \cup batch /\ batch' = {}
  /\ UNCHANGED <<txnVars, wakes, base, cursor, listening, running, again, asked, fetched, stopped,
                 drops, failures>>

\* The handler or the read throws: onError, and the catch-up is over.  A wake that
\* came meanwhile stays in `again`, which the next catch-up clears.
Fails ==
  /\ failures < MaxFailures
  /\ batch # {} \/ asked
  /\ failures' = failures + 1
  /\ arrived' = arrived \cup batch /\ batch' = {} /\ asked' = FALSE /\ fetched' = {}
  /\ running' = FALSE
  /\ UNCHANGED <<txnVars, wakes, base, cursor, listening, again, stopped, drops>>

\* The unsubscribe: no wake counts any more, the handler at work finishes.
Unsubscribe ==
  /\ listening /\ ~stopped
  /\ stopped' = TRUE /\ listening' = FALSE /\ wakes' = FALSE
  /\ UNCHANGED <<txnVars, base, cursor, running, again, asked, fetched, batch, arrived,
                 drops, failures>>

---------------------------------------------------------------------------

Write(x) == LockEvents(x) \/ InsertEvent(x) \/ Commit(x) \/ RollBack(x)

Next ==
  \/ \E x \in Txn : Write(x)
  \/ Subscribe \/ Listen \/ Disconnect \/ Wake
  \/ Read \/ Receive \/ CaughtUp \/ Handled \/ Fails \/ Unsubscribe

\* The driver reconnects and delivers, the database answers and the handler
\* returns; writers owe nothing.
Fairness ==
  /\ WF_vars(Listen) /\ WF_vars(Wake)
  /\ WF_vars(Read) /\ WF_vars(Receive) /\ WF_vars(CaughtUp) /\ WF_vars(Handled)

Spec == Init /\ [][Next]_vars
FairSpec == Spec /\ Fairness

---------------------------------------------------------------------------
\* Properties.

\* The cursor never passes an event: what the follower was handed is exactly what
\* the project committed between the start of the subscription and the cursor, in
\* spite of gaps, of other projects' ids in between and of transactions that commit
\* late.
NoneSkipped ==
  base # None => arrived \cup batch = {i \in Committed : base < i /\ i <= cursor}

\* Events arrive in the order of their ids, each once, errors and reconnects included.
InOrderOnce == [][\A i \in batch' \ batch : \A j \in arrived \cup batch : j < i]_vars

\* Every event committed after the subscription began reaches the handler, unless the
\* follower unsubscribes, or a read or a handler fails: a wake during a catch-up, and a
\* connection that was away, lose nothing.
EventsArrive ==
  \A i \in 1 .. MaxId : (base # None /\ i \in Committed /\ base < i)
                       ~> (i \in arrived \/ stopped \/ failures > 0)

=============================================================================
