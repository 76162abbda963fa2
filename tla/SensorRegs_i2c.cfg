\* Two callers of one core: i2c.
SPECIFICATION Spec
CONSTANTS
  Words = 3
  Kind = "i2c"
  Reader = {r1, r2}
  MaxSample = 3
SYMMETRY Perms
INVARIANTS
  WholeRegisters
  OneAcquisition
  LockedOnlyInSet
CHECK_DEADLOCK TRUE
