SPECIFICATION Spec
CONSTANTS
  Workers = {w1}
  SendRooms = {r1, r2}
  NoRoom = NoRoom
  Inputs <- SerialInputs
  MaxFlows = 2
  MaxPosts = 2
  MaxMsgs = 1
  MaxFaults = 0
  MaxRestarts = 0
INVARIANTS
  SentIsRecorded
  Answerable
  SerialInv
PROPERTIES
  ImplementsPostBoard
