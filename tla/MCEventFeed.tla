---------------------------- MODULE MCEventFeed ----------------------------
(***************************************************************************)
(* Three transactions, two of the followed project and one of another.      *)
(***************************************************************************)
EXTENDS EventFeed

FeedTxn == {"x", "y", "z"}
FeedProjectOf == [x |-> "p", y |-> "p", z |-> "q"]

=============================================================================
