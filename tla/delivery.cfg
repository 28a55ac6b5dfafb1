SPECIFICATION FairSpec
CONSTANTS
  Rooms = {r1}
  Users = {u1, u2}
  Histories <- SomeHistories
  MaxEvents = 3
  MaxFaults = 1
  MaxRestarts = 1
  Calls = {c1}
  MaxRetries = 1
CHECK_DEADLOCK FALSE
INVARIANTS
  TypeOK
  TableFollowsTimeline
  SessionIsForMembers
PROPERTIES
  SendEnds
  ImplementsSendCall
