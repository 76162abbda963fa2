--------------------------- MODULE MCSensorThreads ---------------------------
(* The threads, with bounds of their own for each sensor: more samples for *)
(* the safety properties, fewer for the liveness properties.               *)
EXTENDS SensorThreads
MCStoredSafe == [hdc |-> 1, mpu |-> 3, apds |-> 1]
MCStoredLive == [hdc |-> 0, mpu |-> 1, apds |-> 1]
=============================================================================
