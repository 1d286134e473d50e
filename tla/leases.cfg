\* Claims, heartbeats, lapses and sweeps under Shreni's whole lifecycle.
SPECIFICATION Spec
CONSTANTS
  State <- ShreniState
  Terminal <- ShreniTerminal
  Satisfying <- ShreniSatisfying
  Claimable = "open"
  Leased = "claimed"
  Role <- ShreniRole
  System = "system"
  CreateState = "proposed"
  CreateByRole <- ShreniCreateByRole
  Move <- ShreniMove
  MoveDef <- ShreniMoveDef
  Permission <- CreateOnly
  OnApprove = "approve"
  OnClaim = "claim"
  OnDiscard = "cancel"
  OnLeaseExpiry = "expire"
  OnRepeatedExpiry = "flag"
  RepeatAfter = 2
  Guard <- ShreniGuard
  MoveRole <- ShreniMoveRole
  Kind = {"work"}
  Hold = {TRUE}
  Priority = {2}
  Plan = {}
  MaxTasks = 2
  MaxAttempts = 3
  None = None
INVARIANTS
  LeaseExact
  ExpiriesBounded
PROPERTIES
  AttemptsAppendOnly
CHECK_DEADLOCK FALSE
