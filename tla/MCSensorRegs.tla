---------------------------- MODULE MCSensorRegs ----------------------------
(* The sensor registers with interchangeable readers.                      *)
EXTENDS SensorRegs, TLC
Perms == Permutations(Reader)
=============================================================================
