\* The log and a follower, with reconnects, failing handlers and other projects' ids.
SPECIFICATION FairSpec
CONSTANTS
  Txn <- FeedTxn
  Project = {"p", "q"}
  ProjectOf <- FeedProjectOf
  Followed = "p"
  EventsPage = 1
  MaxId = 4
  MaxDrops = 1
  MaxFailures = 1
  None = None
INVARIANTS
  NoneSkipped
PROPERTIES
  InOrderOnce
  EventsArrive
CHECK_DEADLOCK FALSE
