\* Reviews submitted before a follow-up pass, during it and after it.
SPECIFICATION Spec
CONSTANTS
  Reviews = {v1, v2}
  MaxRounds = 2
  SelfKnown = TRUE
  MaxTime = 4
  MaxPushes = 1
  MaxLost = 1
  None = None
INVARIANT NoReviewLost
CHECK_DEADLOCK FALSE
