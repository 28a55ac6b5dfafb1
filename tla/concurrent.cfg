SPECIFICATION FairSpec
CONSTANTS
  Workers = {w1, w2}
  SendRooms = {r1}
  NoRoom = NoRoom
  Inputs <- ConcurrentInputs
  MaxFlows = 2
  MaxPosts = 1
  MaxMsgs = 1
  MaxFaults = 0
  MaxRestarts = 0
INVARIANTS
  TypeOK
  SentWasPosted
PROPERTIES
  PostedIsRecorded
