SPECIFICATION Spec
CONSTANTS
  Workers = {w1}
  SendRooms = {r1}
  NoRoom = NoRoom
  Inputs <- FaultInputs
  MaxFlows = 1
  MaxPosts = 1
  MaxMsgs = 1
  MaxFaults = 1
  MaxRestarts = 1
INVARIANTS
  TypeOK
  SentInv
