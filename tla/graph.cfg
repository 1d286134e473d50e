\* Containers, dependencies, edits, deletes and moves of three tasks.
SPECIFICATION Spec
CONSTANTS
  State <- SmallState
  Terminal <- ShreniTerminal
  Satisfying <- ShreniSatisfying
  Claimable = "open"
  Leased = "claimed"
  Role <- ShreniRole
  System = "system"
  CreateState = "proposed"
  CreateByRole <- ShreniCreateByRole
  Move <- SmallMove
  MoveDef <- SmallMoveDef
  Permission <- SmallPermission
  OnApprove = "approve"
  OnClaim = "claim"
  OnDiscard = "cancel"
  OnLeaseExpiry = "expire"
  OnRepeatedExpiry = "expire"
  RepeatAfter = 3
  Guard <- ShreniGuard
  MoveRole <- ShreniMoveRole
  Kind = {"work", "container"}
  Hold = {FALSE}
  Priority = {2}
  Plan = {}
  MaxTasks = 3
  MaxAttempts = 1
  None = None
INVARIANTS
  TypeOK
  GraphAcyclic
  NoNestedDeps
  ClosedOverClosed
  NothingStranded
PROPERTIES
  SettlingAnnounced
CHECK_DEADLOCK FALSE
