SPECIFICATION Spec
CONSTANTS
  Locked = {"hdc", "apds"}
  Free = {"main"}
  NarrowOnes = {"hdc"}
  Narrow = 2
  Modulus = 8
  MaxNow = 3
INVARIANTS
  TypeOK
  OneClock
  OnlyUnlockedThrow
  CalibratedOnce
\* The process may have ended.
CHECK_DEADLOCK FALSE
