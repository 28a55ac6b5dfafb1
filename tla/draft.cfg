SPECIFICATION Spec
CONSTANTS
  MaxEvents = 6
  MaxHurried = 1
CHECK_DEADLOCK FALSE
INVARIANTS
  DraftFollowsRoom
  
  FollowInv
