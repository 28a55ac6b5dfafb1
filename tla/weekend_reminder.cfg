SPECIFICATION Spec
CONSTANTS
  Users = {u1}
  Zones <- WesternZones
  ServerZone = 0
  None = None
  HoursPerDay = 3
  MinutesPerHour = 1
  SecondsPerMinute = 2
  MaxDelay = 0
  MaxChanges = 0
  MaxRestarts = 0
PROPERTIES
  NoWeekendReminder
