------------------------------ MODULE OnceOnly ------------------------------
(***************************************************************************)
(* What the engine promises a caller that repeats a write under one        *)
(* request id: the write takes effect at most once, every caller told that *)
(* it happened is told the same thing, and a caller told that it was       *)
(* refused is told so while it has not happened.                           *)
(***************************************************************************)
CONSTANTS Client, Id, Item, None,
          IdOf,           \* the request id each client writes under
          SigOf           \* what its write is: its kind, actor and target

VARIABLES written,        \* the write each request id made, or None
          reply           \* what each client was told

vars == <<written, reply>>

Reply == [kind : {"none", "invalid", "unavailable", "error", "nothing", "refused"}, item : {None}]
         \cup [kind : {"ok"}, item : Item]

Init ==
  /\ written = [i \in Id |-> None]
  /\ reply = [c \in Client |-> [kind |-> "none", item |-> None]]

\* The one write of client c's id takes effect; c may be told in the same step.
Write(c, x) ==
  /\ written[IdOf[c]] = None
  /\ \A i \in Id : written[i] # None => written[i].item # x
  /\ written' = [written EXCEPT ![IdOf[c]] = [sig |-> SigOf[c], item |-> x]]
  /\ \/ UNCHANGED reply
     \/ reply' = [reply EXCEPT ![c] = [kind |-> "ok", item |-> x]]

Made(c) == written[IdOf[c]] # None /\ written[IdOf[c]].sig = SigOf[c]

Tell(c, r) ==
  /\ reply[c].kind = "none"
  /\ r.kind = "ok" => Made(c) /\ r.item = written[IdOf[c]].item
  /\ r.kind = "refused" => ~Made(c)
  /\ reply' = [reply EXCEPT ![c] = r]
  /\ UNCHANGED written

Next ==
  \/ \E c \in Client, x \in Item : Write(c, x)
  \/ \E c \in Client, r \in Reply : Tell(c, r)

Spec == Init /\ [][Next]_vars

=============================================================================
