SPECIFICATION FairSpec
CONSTANTS
  Users = {u1, u2}
  Zones <- SomeZones
  ServerZone = 0
  None = None
  HoursPerDay = 2
  MinutesPerHour = 1
  SecondsPerMinute = 2
  MaxDelay = 1
  MaxChanges = 1
  MaxRestarts = 1
INVARIANTS
  TypeOK
  LoopInv
PROPERTIES
  MinutesInTurn
  OnTime
  DueReminded
