SPECIFICATION Spec
CONSTANTS
  Workers = {w1, w2}
  SendRooms = {r1}
  NoRoom = NoRoom
  Inputs <- NotifyInputs
  MaxFlows = 2
  MaxPosts = 1
  MaxMsgs = 1
  MaxFaults = 0
  MaxRestarts = 0
SYMMETRY WorkerSymmetry
PROPERTIES
  NotifyKeepsDraft
