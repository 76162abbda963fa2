\* One interrupt of another device is enough.
SPECIFICATION Spec
CONSTANTS
  Words = 2
  Shock <- MCShock
  Thread = {"main", "poll"}
  Split = 1
  NoPid = 0
  MaxShock = 1
  MaxForeign = 1
  MaxStarts = 1
  MaxFaults = 0
PROPERTIES
  HandledWhenRead
CHECK_DEADLOCK FALSE
