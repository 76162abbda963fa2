---------------------------- MODULE MCShockPath ----------------------------
(* The path of a shock with windows of two words.                          *)
EXTENDS ShockPath
MCShock == 0 .. MaxShock
=============================================================================
