SPECIFICATION FairSpec
CONSTANTS
  Sensor = {"hdc", "mpu", "apds"}
  QueueCounts = {1, 2}
  Burst = 2
  EventLen = 3
  MaxFaults = 1
  MaxFiles = 2
  MaxEvents = 1
  MaxStored <- MCStoredLive
PROPERTIES
  Delivers
  ReconfigurationEnds
\* The main thread may have ended and the samples are bounded.
CHECK_DEADLOCK FALSE
