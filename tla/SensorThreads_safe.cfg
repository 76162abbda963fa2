SPECIFICATION Spec
CONSTANTS
  Sensor = {"hdc", "mpu", "apds"}
  QueueCounts = {1, 2}
  Burst = 2
  EventLen = 3
  MaxFaults = 1
  MaxFiles = 1
  MaxEvents = 2
  MaxStored <- MCStoredSafe
INVARIANTS
  TypeOK
  Accounted
  DevicesKept
  EventsWhole
  EventsAccounted
PROPERTY
  ImplementsStream
\* The main thread may have ended and the samples are bounded.
CHECK_DEADLOCK FALSE
