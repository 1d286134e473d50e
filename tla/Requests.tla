------------------------------ MODULE Requests ------------------------------
(***************************************************************************)
(* Writes repeated under one request id: `once` in requests.ts around a    *)
(* transaction of tx.ts, called by a worker through retryUnavailable.  The *)
(* connection can go at any point; a transaction whose client is gone goes *)
(* on at the server, where its commit may still land, after the client has *)
(* begun to repeat the write.                                              *)
(***************************************************************************)
EXTENDS Naturals, FiniteSets

CONSTANTS
  Client,        \* callers of a write, each making one call
  Id,            \* request ids
  Item,          \* tasks a write may act on
  None,
  CallOf,        \* the call of each client: [id, sig, named, items]
  MaxRetries,    \* MAX_RETRIES: reruns of a transaction
  MaxTries,      \* tries retryUnavailable has time for
  Faults         \* which of {"drop", "conflict"} happen

VARIABLES
  events,        \* committed events that carry a request id
  tx,            \* each client's open transaction: how far it is, the row it locked
  lost,          \* transactions at the server whose client has lost its connection
  pc,            \* where each client's call stands
  held,          \* the error `once` caught and may throw again
  reruns,        \* reruns of the client's transaction
  tries,         \* tries of retryUnavailable
  reply          \* what the caller was told

vars == <<events, tx, lost, pc, held, reruns, tries, reply>>

NoTx == [st |-> "none", item |-> None]
NoReply == [kind |-> "none", item |-> None]
Told(k) == [kind |-> k, item |-> None]

Prior(i) == {e \in events : e.id = i}
EventOf(c, x) == [id |-> CallOf[c].id, sig |-> CallOf[c].sig, item |-> x]
Free == Item \ {e.item : e \in events}
Locked == {tx[c].item : c \in Client} \cup {l.item : l \in lost}
\* The project's events lock, held from the insert to the end of the transaction.
EventsLockFree == (\A c \in Client : tx[c].st # "inserted") /\ (\A l \in lost : l.st # "inserted")

TypeOK ==
  /\ events \subseteq {EventOf(c, x) : c \in Client, x \in Item}
  /\ tx \in [Client -> {NoTx} \cup [st : {"open", "inserted"}, item : Item]]
  /\ lost \subseteq [of : Client, st : {"open", "inserted"}, item : Item]
  /\ pc \in [Client -> {"lookup", "act", "running", "second", "caught", "done"}]
  /\ held \in [Client -> {"none", "unavailable", "refused", "error"}]
  /\ reruns \in [Client -> 0..MaxRetries]
  /\ tries \in [Client -> 0..MaxTries]

Init ==
  /\ events = {}
  /\ tx = [c \in Client |-> NoTx]
  /\ lost = {}
  /\ pc = [c \in Client |-> "lookup"]
  /\ held = [c \in Client |-> "none"]
  /\ reruns = [c \in Client |-> 0]
  /\ tries = [c \in Client |-> 0]
  /\ reply = [c \in Client |-> NoReply]

----------------------------------------------------------------------------
\* What `replayed` answers when the id has been used: the first result, but only
\* to the same kind of write by the same actor on the same task or plan.
ReplayToAnyone(c, e) == [kind |-> "ok", item |-> e.item]
Replayed(c, e) ==
  IF e.sig = CallOf[c].sig THEN [kind |-> "ok", item |-> e.item] ELSE Told("invalid")

Finish(c, r) ==
  /\ reply' = [reply EXCEPT ![c] = r]
  /\ pc' = [pc EXCEPT ![c] = "done"]

\* `once`, first lookup: replay, or act.
Lookup(c) ==
  /\ pc[c] = "lookup"
  /\ \/ \E e \in Prior(CallOf[c].id) : Finish(c, Replayed(c, e))
     \/ Prior(CallOf[c].id) = {} /\ pc' = [pc EXCEPT ![c] = "act"] /\ UNCHANGED reply
  /\ reruns' = [reruns EXCEPT ![c] = 0]
  /\ UNCHANGED <<events, tx, lost, held, tries>>

\* The transaction's body locks the row it acts on.  A claim skips locked rows and
\* returns null when it finds none; a write that names its task waits for the row
\* and is refused when the task's state no longer allows it.
Act(c) ==
  LET items == CallOf[c].items
      ready == (items \cap Free) \ Locked
  IN
  /\ pc[c] = "act"
  /\ CallOf[c].named => items \cap Locked = {}
  /\ \/ \E x \in ready :
          /\ tx' = [tx EXCEPT ![c] = [st |-> "open", item |-> x]]
          /\ pc' = [pc EXCEPT ![c] = "running"]
          /\ UNCHANGED <<held, reply>>
     \/ /\ ready = {} /\ ~CallOf[c].named
        /\ Finish(c, Told("nothing"))
        /\ UNCHANGED <<tx, held>>
     \/ /\ ready = {} /\ CallOf[c].named
        /\ held' = [held EXCEPT ![c] = "refused"]
        /\ pc' = [pc EXCEPT ![c] = "second"]
        /\ UNCHANGED <<tx, reply>>
  /\ UNCHANGED <<events, lost, reruns, tries>>

\* The unique index on (project_id, request_id).
Unindexed(i) == TRUE
Unused(i) == Prior(i) = {}

\* writeEvents: one transaction at a time has inserted; a duplicate fails at the
\* unique index and its client sees an error.
Insert(c) ==
  /\ tx[c].st = "open" /\ EventsLockFree
  /\ \/ /\ Unused(CallOf[c].id)
        /\ tx' = [tx EXCEPT ![c].st = "inserted"]
        /\ UNCHANGED <<held, pc>>
     \/ /\ ~Unused(CallOf[c].id)
        /\ tx' = [tx EXCEPT ![c] = NoTx]
        /\ held' = [held EXCEPT ![c] = "error"]
        /\ pc' = [pc EXCEPT ![c] = "second"]
  /\ UNCHANGED <<events, lost, reruns, tries, reply>>

Commit(c) ==
  /\ tx[c].st = "inserted"
  /\ tx' = [tx EXCEPT ![c] = NoTx]
  /\ events' = events \cup {EventOf(c, tx[c].item)}
  /\ Finish(c, [kind |-> "ok", item |-> tx[c].item])
  /\ UNCHANGED <<lost, held, reruns, tries>>

\* The server ends a transaction whose connection is gone; one that was committing
\* may have committed.
EndLost(l) ==
  /\ lost' = lost \ {l}
  /\ \/ UNCHANGED events
     \/ l.st = "inserted" /\ events' = events \cup {EventOf(l.of, l.item)}
  /\ UNCHANGED <<tx, held, pc, reruns, tries, reply>>

\* A deadlock or serialization failure: the runner reruns the whole transaction,
\* up to MaxRetries times, then raises Unavailable.
Conflict(c) ==
  /\ "conflict" \in Faults
  /\ tx[c].st = "open"
  /\ tx' = [tx EXCEPT ![c] = NoTx]
  /\ \/ /\ reruns[c] < MaxRetries
        /\ reruns' = [reruns EXCEPT ![c] = @ + 1]
        /\ pc' = [pc EXCEPT ![c] = "act"]
        /\ UNCHANGED held
     \/ /\ reruns[c] = MaxRetries
        /\ held' = [held EXCEPT ![c] = "unavailable"]
        /\ pc' = [pc EXCEPT ![c] = "second"]
        /\ UNCHANGED reruns
  /\ UNCHANGED <<events, lost, tries, reply>>

\* The connection goes while the transaction runs: Unavailable, whatever became of it.
Drop(c) ==
  /\ "drop" \in Faults
  /\ tx[c] # NoTx
  /\ tx' = [tx EXCEPT ![c] = NoTx]
  /\ lost' = lost \cup {[of |-> c, st |-> tx[c].st, item |-> tx[c].item]}
  /\ held' = [held EXCEPT ![c] = "unavailable"]
  /\ pc' = [pc EXCEPT ![c] = "second"]
  /\ UNCHANGED <<events, reruns, tries, reply>>

\* `once`, the catch: if the write has happened by now, return its result, else
\* throw what was caught; SecondSkipped throws it without looking.
SecondSkipped(c) ==
  /\ pc[c] = "second"
  /\ pc' = [pc EXCEPT ![c] = "caught"]
  /\ UNCHANGED <<events, tx, lost, held, reruns, tries, reply>>
Second(c) ==
  /\ pc[c] = "second"
  /\ \/ \E e \in Prior(CallOf[c].id) : Finish(c, Replayed(c, e))
     \/ Prior(CallOf[c].id) = {} /\ pc' = [pc EXCEPT ![c] = "caught"] /\ UNCHANGED reply
  /\ UNCHANGED <<events, tx, lost, held, reruns, tries>>

\* A lookup on a lost connection is a plain query: its error is not an Unavailable.
LookupFails(c) ==
  /\ "drop" \in Faults
  /\ pc[c] \in {"lookup", "second"}
  /\ Finish(c, Told("error"))
  /\ UNCHANGED <<events, tx, lost, held, reruns, tries>>

\* retryUnavailable: again with the same request id while there is time.
Caught(c) ==
  /\ pc[c] = "caught"
  /\ \/ /\ held[c] = "unavailable" /\ tries[c] < MaxTries
        /\ tries' = [tries EXCEPT ![c] = @ + 1]
        /\ pc' = [pc EXCEPT ![c] = "lookup"]
        /\ UNCHANGED reply
     \/ /\ held[c] # "unavailable" \/ tries[c] = MaxTries
        /\ Finish(c, Told(held[c]))
        /\ UNCHANGED tries
  /\ held' = [held EXCEPT ![c] = "none"]
  /\ UNCHANGED <<events, tx, lost, reruns>>

Next ==
  \/ \E c \in Client :
       \/ Lookup(c) \/ Act(c) \/ Insert(c) \/ Commit(c) \/ Conflict(c) \/ Drop(c)
       \/ Second(c) \/ LookupFails(c) \/ Caught(c)
  \/ \E l \in lost : EndLost(l)

Spec == Init /\ [][Next]_vars

----------------------------------------------------------------------------
\* The write an id has made, as its event tells it.
Written ==
  [i \in Id |-> IF Prior(i) = {} THEN None
                ELSE LET e == CHOOSE f \in Prior(i) : TRUE IN [sig |-> e.sig, item |-> e.item]]

Promise == INSTANCE OnceOnly WITH
  IdOf <- [c \in Client |-> CallOf[c].id],
  SigOf <- [c \in Client |-> CallOf[c].sig],
  written <- Written

\* Requests implements OnceOnly: each step makes one of its moves or none.
KeepsPromise == Promise!Spec

=============================================================================
