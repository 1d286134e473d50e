\* A drain, the health gate, agents, the board and lots, one at a time.
SPECIFICATION FairSpec
CONSTANTS
  None = None NoLog = NoLog
  Task = {t1, g1, h1} Gap = {g1} RepairTask = {h1} MaxRepeat = 2 Caps = {0, 2} MaxActs = 1
  Happens = {"refuse", "red", "lost", "agent", "git", "api", "budget", "unblock", "approve", "pause"}
  MaxFail = 2 MaxRounds = 2 MaxPushes = 1
  Pid = {p1, p2} Run = {r1, r2} MaxStarts = 2 MaxAttempts = 2 MaxReuse = 1 Cap = 1
  Reader = {r1, r2} LogAtStart <- Logs MaxLines = 3 MaxSwaps = 1 MaxEvents = 2
  MaxTime = 3 MaxFeed = 9
INVARIANTS
  EndsHonestly
  
  
PROPERTIES
  
  Terminates
CHECK_DEADLOCK FALSE
