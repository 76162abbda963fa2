SPECIFICATION Spec
CONSTANTS
  Size = 4
  PreShock = 1
  Fields = 2
  BusGap = 1
  MaxSample = 7
  Garbage = Garbage
  Invalid = Invalid
INVARIANTS
  TypeOK
  RecordedWindow
  ReadInOrder
  AvailUntilRead
PROPERTIES
  KeptUntilEnabled
  ImplementsEventBuffer
  OperationsAgree
CHECK_DEADLOCK TRUE
