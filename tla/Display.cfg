SPECIFICATION Spec
CONSTANTS
  Size = 2
  Address <- MCAddress
  Others <- MCOthers
INVARIANTS
  SettledRegisters
  ShowsNumber
  SettledDuty
PROPERTY
  InvalidBlocks
