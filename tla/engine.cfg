\* Requests, session locks, activation, purge, cancelling and migrations, one at a time.
SPECIFICATION Spec
CONSTANTS
  c1 = c1 c2 = c2 c3 = c3 i1 = i1 i2 = i2 x1 = x1 x2 = x2
  t1 = t1 t2 = t2 t3 = t3 t4 = t4 w1 = w1 w2 = w2 w3 = w3 p1 = p1 p2 = p2
  None = None
  Client = {c1, c2, c3}
  Id = {i1, i2}
  Item = {x1, x2}
  CallOf <- Calls
  MaxRetries = 1
  MaxTries = 1
  Faults = {"drop", "conflict"}
  Session = {s1, s2}
  Key = {k1}
  Pid = {b1, b2, b3}
  MaxToken = 3
  Task = {t1, t2, t3}
  Writer = {w1, w2}
  VerOf <- Versions
  Lc <- Lifecycles
  First = 1
  ParentOf <- Containers
  DependsOn <- Waits
  MaxWrites = 6
  PurgeWriter = {w1, w2, w3}
  Old = {1, 2}
  New <- Filing
  MaxAborts = 1
  CancelTask = {t1, t2, t3, t4}
  Shapes <- Forests
  MaxActs = 1
  Proc = {p1, p2}
  Code <- Releases
  Floor <- Breaking
  Left <- LeftBehind
  Triggers = 2
  MaxCommands = 2
INVARIANTS
  LocksTrue
  ActivationSound
  
  
  SchemasSound
PROPERTIES
  KeepsPromise
  WritesFenced
CHECK_DEADLOCK FALSE
