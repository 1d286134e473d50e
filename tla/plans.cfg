\* A plan's tasks, its approval and its discard, beside tasks of no plan.
SPECIFICATION Spec
CONSTANTS
  State <- SmallState
  Terminal <- ShreniTerminal
  Satisfying <- ShreniSatisfying
  Claimable = "open"
  Leased = "claimed"
  Role <- ShreniRole
  System = "system"
  CreateState = "proposed"
  CreateByRole <- ShreniCreateByRole
  Move <- SmallMove
  MoveDef <- SmallMoveDef
  Permission <- SmallPlanning
  OnApprove = "approve"
  OnClaim = "claim"
  OnDiscard = "cancel"
  OnLeaseExpiry = "expire"
  OnRepeatedExpiry = "expire"
  RepeatAfter = 3
  Guard <- ShreniGuard
  MoveRole <- ShreniMoveRole
  Kind = {"work", "container"}
  Hold = {FALSE}
  Priority = {2}
  Plan = {p1}
  MaxTasks = 3
  MaxAttempts = 0
  None = None
INVARIANTS
  PlansWhole

  
CHECK_DEADLOCK FALSE
