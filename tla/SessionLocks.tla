---------------------------- MODULE SessionLocks ----------------------------
(***************************************************************************)
(* Session advisory locks (session.ts): each client runs its statements    *)
(* one at a time on one connection, keeps a map from lock to the token of  *)
(* the acquisition that holds it, and notices in any statement's answer    *)
(* that the connection is a new one.  Postgres frees a backend's locks     *)
(* when it ends the backend, which may be after the client reconnected.    *)
(***************************************************************************)
EXTENDS Naturals, FiniteSets

CONSTANTS
  Session,       \* clients of one database
  Key,           \* lock keys
  Pid,           \* process ids a backend may get; an id is used again once free
  None,
  MaxToken       \* acquisitions

Token == 1..MaxToken

VARIABLES
  conn,          \* the live backend behind each session's connection, or None
  lock,          \* Postgres: the backend holding each lock and the token it was taken for
  backends,      \* Postgres: backends it has not ended yet
  pid,           \* client: the backend the held locks live on
  held,          \* client: lock key -> token of the acquisition holding it
  closed,        \* client: close() ran
  doing,         \* client: the statement the operation in progress is about to run
  used,          \* tokens handed out so far
  says           \* the answers of held() last given: the tokens it confirmed

vars == <<conn, lock, backends, pid, held, closed, doing, used, says>>

NoLock == [pid |-> None, token |-> None]
Idle == [op |-> "idle", key |-> None, token |-> None]

TypeOK ==
  /\ conn \in [Session -> Pid \cup {None}]
  /\ lock \in [Key -> [pid : Pid \cup {None}, token : Token \cup {None}]]
  /\ backends \subseteq Pid
  /\ pid \in [Session -> Pid \cup {None}]
  /\ held \in [Session -> [Key -> Token \cup {None}]]
  /\ closed \in [Session -> BOOLEAN]
  /\ used \in 0..MaxToken
  /\ says \subseteq Session \X Key \X Token

Init ==
  /\ conn = [s \in Session |-> None]
  /\ lock = [k \in Key |-> NoLock]
  /\ backends = {}
  /\ pid = [s \in Session |-> None]
  /\ held = [s \in Session |-> [k \in Key |-> None]]
  /\ closed = [s \in Session |-> FALSE]
  /\ doing = [s \in Session |-> Idle]
  /\ used = 0
  /\ says = {}

----------------------------------------------------------------------------
\* postgres.js opens a connection when a statement needs one and there is none.
Connect(s, p) ==
  /\ conn[s] = None /\ doing[s] # Idle /\ p \notin backends
  /\ conn' = [conn EXCEPT ![s] = p]
  /\ backends' = backends \cup {p}
  /\ UNCHANGED <<lock, pid, held, closed, doing, used, says>>

\* The connection goes; the backend is still there until the server ends it.
Disconnect(s) ==
  /\ conn[s] # None
  /\ conn' = [conn EXCEPT ![s] = None]
  /\ says' = {a \in says : a[1] # s}
  /\ UNCHANGED <<lock, backends, pid, held, closed, doing, used>>

ServerEnds(p) ==
  /\ p \in backends \ {conn[s] : s \in Session}
  /\ backends' = backends \ {p}
  /\ lock' = [k \in Key |-> IF lock[k].pid = p THEN NoLock ELSE lock[k]]
  /\ UNCHANGED <<conn, pid, held, closed, doing, used, says>>

\* exec, after the statement answered: a new backend means the old one's locks are gone.
AfterExec(s) ==
  IF pid[s] # None /\ conn[s] # pid[s] THEN [k \in Key |-> None] ELSE held[s]

Answered(s) ==
  /\ conn[s] # None
  /\ pid' = [pid EXCEPT ![s] = conn[s]]

Ends(s) == doing' = [doing EXCEPT ![s] = Idle]

\* trySession begins once the operation before it has ended: if the lock looks held
\* here it looks first, else it asks for the lock.
Try(s, k) ==
  /\ doing[s] = Idle /\ ~closed[s] /\ used < MaxToken
  /\ used' = used + 1
  /\ doing' = [doing EXCEPT ![s] = [op |-> IF held[s][k] # None THEN "look" ELSE "lock",
                                    key |-> k, token |-> used + 1]]
  /\ UNCHANGED <<conn, lock, backends, pid, held, closed, says>>

\* The look: the lock is still held here, and the caller gets null, or the
\* connection is new and the lock is asked for.
Look(s) ==
  /\ doing[s].op = "look" /\ Answered(s)
  /\ held' = [held EXCEPT ![s] = AfterExec(s)]
  /\ IF AfterExec(s)[doing[s].key] # None THEN Ends(s)
     ELSE doing' = [doing EXCEPT ![s].op = "lock"]
  /\ UNCHANGED <<conn, lock, backends, closed, used, says>>

Lock(s) ==
  LET k == doing[s].key
      ok == lock[k] = NoLock \/ lock[k].pid = conn[s]
  IN
  /\ doing[s].op = "lock" /\ Answered(s)
  /\ held' = [held EXCEPT ![s] =
               IF ok THEN [AfterExec(s) EXCEPT ![k] = doing[s].token] ELSE AfterExec(s)]
  /\ lock' = IF ok THEN [lock EXCEPT ![k] = [pid |-> conn[s], token |-> doing[s].token]] ELSE lock
  /\ Ends(s)
  /\ UNCHANGED <<conn, backends, closed, used, says>>

Anyones(s, k, t) == held[s][k] # None
Mine(s, k, t) == held[s][k] = t

\* release() of the acquisition with token t, which its holder may call at any time.
Release(s, k, t) ==
  /\ doing[s] = Idle /\ t <= used /\ Mine(s, k, t) /\ ~closed[s]
  /\ held' = [held EXCEPT ![s][k] = None]
  /\ doing' = [doing EXCEPT ![s] = [op |-> "unlock", key |-> k, token |-> t]]
  /\ says' = says \ {<<s, k, t>>}
  /\ UNCHANGED <<conn, lock, backends, pid, closed, used>>

\* A key may only be unlocked by the backend that holds it.
Freed(s, k) == IF lock[k].pid = conn[s] THEN [lock EXCEPT ![k] = NoLock] ELSE lock

Unlock(s) ==
  /\ doing[s].op = "unlock" /\ Answered(s)
  /\ held' = [held EXCEPT ![s] = AfterExec(s)]
  /\ lock' = Freed(s, doing[s].key)
  /\ Ends(s)
  /\ UNCHANGED <<conn, backends, closed, used, says>>

\* held(): the answer is Postgres's own, and the token must still be the one here.
Ask(s, k, t) ==
  /\ doing[s] = Idle /\ t <= used /\ Mine(s, k, t) /\ ~closed[s]
  /\ doing' = [doing EXCEPT ![s] = [op |-> "ask", key |-> k, token |-> t]]
  /\ UNCHANGED <<conn, lock, backends, pid, held, closed, used, says>>

TokenOnly(s, k, t) == AfterExec(s)[k] = t
Confirms(s, k, t) == lock[k].pid = conn[s] /\ AfterExec(s)[k] = t

Confirm(s) ==
  LET k == doing[s].key
      t == doing[s].token
  IN
  /\ doing[s].op = "ask" /\ Answered(s)
  /\ held' = [held EXCEPT ![s] = AfterExec(s)]
  /\ says' = IF Confirms(s, k, t) THEN says \cup {<<s, k, t>>} ELSE says \ {<<s, k, t>>}
  /\ Ends(s)
  /\ UNCHANGED <<conn, lock, backends, closed, used>>

\* What a release that failed on a live connection leaves: it tracks the lock again.
ForgetsIt(s) == held
TracksIt(s) == [held EXCEPT ![s][doing[s].key] = doing[s].token]

\* The statement fails without an answer: on a lost connection Unavailable, when a
\* release forgets the lock; on any other error the server did nothing.
Fails(s) ==
  /\ doing[s].op \in {"look", "lock", "unlock", "ask"}
  /\ \/ conn[s] = None /\ UNCHANGED held
     \/ /\ conn[s] # None
        /\ held' = IF doing[s].op = "unlock"
                   THEN TracksIt(s) ELSE held
  /\ Ends(s)
  /\ UNCHANGED <<conn, lock, backends, pid, closed, used, says>>

\* The connection goes after the server ran the statement and before its answer.
AnswerLost(s) ==
  /\ conn[s] # None /\ doing[s].op \in {"lock", "unlock"}
  /\ LET k == doing[s].key IN
       lock' = IF doing[s].op = "unlock" THEN Freed(s, k)
               ELSE IF lock[k] = NoLock
                    THEN [lock EXCEPT ![k] = [pid |-> conn[s], token |-> doing[s].token]] ELSE lock
  /\ conn' = [conn EXCEPT ![s] = None]
  /\ says' = {a \in says : a[1] # s}
  /\ Ends(s)
  /\ UNCHANGED <<backends, pid, held, closed, used>>

\* close(): forgets the locks and unlocks each; a failure leaves it to the end of
\* the session.
Close(s) ==
  /\ doing[s] = Idle /\ ~closed[s]
  /\ closed' = [closed EXCEPT ![s] = TRUE]
  /\ held' = [held EXCEPT ![s] = [k \in Key |-> None]]
  /\ \/ lock' = [k \in Key |-> IF held[s][k] # None /\ conn[s] # None /\ lock[k].pid = conn[s]
                               THEN NoLock ELSE lock[k]]
     \/ UNCHANGED lock
  /\ says' = {a \in says : a[1] # s}
  /\ UNCHANGED <<conn, backends, pid, doing, used>>

Next ==
  \/ \E s \in Session :
       \/ Disconnect(s) \/ Look(s) \/ Lock(s) \/ Unlock(s) \/ Confirm(s)
       \/ Fails(s) \/ AnswerLost(s) \/ Close(s)
       \/ \E p \in Pid : Connect(s, p)
       \/ \E k \in Key : Try(s, k)
       \/ \E k \in Key, t \in Token : Release(s, k, t) \/ Ask(s, k, t)
  \/ \E p \in Pid : ServerEnds(p)

Spec == Init /\ [][Next]_vars

----------------------------------------------------------------------------
\* Whoever was last told it holds the lock does hold it, until its connection goes:
\* not a lock another acquisition took after a reconnect, not one the server freed.
ConfirmedIsHeld ==
  \A a \in says : lock[a[2]].pid = conn[a[1]] /\ lock[a[2]].token = a[3]

\* No lock is left that nobody can release: one on a live connection belongs to an
\* acquisition its client tracks, is being released, or is a closed client's.
NoLockLeaked ==
  \A s \in Session, k \in Key :
    (conn[s] # None /\ lock[k].pid = conn[s] /\ ~closed[s]) =>
      \/ held[s][k] = lock[k].token
      \/ doing[s].op = "unlock" /\ doing[s].key = k

=============================================================================
