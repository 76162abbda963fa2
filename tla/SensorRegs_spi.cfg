\* Two callers of one core: spi.
SPECIFICATION Spec
CONSTANTS
  Words = 4
  Kind = "spi"
  Reader = {r1, r2}
  MaxSample = 3
SYMMETRY Perms
INVARIANTS
  TypeOK
  WholeRegisters
  OneAcquisition
CHECK_DEADLOCK TRUE
