SPECIFICATION FairSpec
CONSTANTS
  Words = 2
  Shock <- MCShock
  Thread = {"main", "poll"}
  Split = 1
  NoPid = 0
  MaxShock = 2
  MaxForeign = 1
  MaxStarts = 2
  MaxFaults = 1
INVARIANTS
  TypeOK
  WholeEvents
  ReadInRequestedMode
PROPERTIES
  DeliveredOnce
  EnabledAgain
\* Every counter is bounded and the handler can wait for its own thread.
CHECK_DEADLOCK FALSE
