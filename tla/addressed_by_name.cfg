SPECIFICATION Spec
CONSTANTS
  Workers = {w1}
  Rooms = {r1}
  Zones = {utc, cet}
  UTC = utc
  Times = {t1}
  SendRooms = {s1}
  None = None
  Empty = Empty
  Unknown = Unknown
  Commands <- PrefixCommands
  Reads = {}
  MaxCommands = 2
  MaxFaults = 0
  MaxRestarts = 0
CHECK_DEADLOCK FALSE
PROPERTIES
  CommandsAreHeeded
