SPECIFICATION Spec
CONSTANTS
  Workers = {w1}
  SendRooms = {r1}
  NoRoom = NoRoom
  Inputs <- RestartInputs
  MaxFlows = 1
  MaxPosts = 1
  MaxMsgs = 1
  MaxFaults = 0
  MaxRestarts = 2
PROPERTIES
  RestartKeepsFlow
