\* Dumps, migration, import, export, init, work by hand, planning, snapshots, ownership, follow-up.
SPECIFICATION MCSpec
CONSTANTS
  None = None
  p1 = p1 p2 = p2 p3 = p3 b1 = b1 b2 = b2 b3 = b3
  Dumper = {p1, p2, p3} KindOf <- Kinds Keep = 1 MaxDays = 1
  RepoFile = {f1, f2} MaxRuns = 5 MaxWork = 2
  MaxInits = 4
  Person = {p1, p2} HandCheck = {k1} MaxAttempts = 2
  Launcher = {l1, l2} Plan = {q1} Task = {x1, x2}
  Location = {f1} MaxWrites = 1 MaxSnaps = 2 MaxRestores = 2
  Proc = {p1, p2} Cmd = {c1, c2}
  Reviews = {v1, v2} MaxRounds = 2 SelfKnown = TRUE MaxTime = 4 MaxPushes = 1 MaxLost = 1
  Bead = {1, 2, 3, 4} Graphs <- ExportGraphs
INVARIANTS
  CopiesKept
  
  OneKind
  
  
  
PROPERTIES
  RerunsKeep
  ApprovedWasSeen
CHECK_DEADLOCK FALSE
