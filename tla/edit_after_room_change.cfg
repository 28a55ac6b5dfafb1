SPECIFICATION Spec
CONSTANTS
  Workers = {w1}
  SendRooms = {r1, r2}
  NoRoom = NoRoom
  Inputs <- RoomInputs
  MaxFlows = 1
  MaxPosts = 2
  MaxMsgs = 1
  MaxFaults = 0
  MaxRestarts = 0
PROPERTIES
  EditReachesPost
