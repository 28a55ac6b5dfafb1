SPECIFICATION Spec
CONSTANTS
  Workers = {w1, w2}
  Rooms = {r1, r2}
  Zones = {utc, cet}
  UTC = utc
  Times = {t1, t2}
  SendRooms = {s1}
  None = None
  Empty = Empty
  Unknown = Unknown
  Commands <- SettingsCommands
  Reads = {"notify"}
  MaxCommands = 3
  MaxFaults = 1
  MaxRestarts = 1
SYMMETRY Symmetry
INVARIANTS
  TypeOK
  ToldIsInForce
  SettingHasRoom
PROPERTIES
  RestartRestores
