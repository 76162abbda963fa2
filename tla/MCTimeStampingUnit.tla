------------------------ MODULE MCTimeStampingUnit ------------------------
(* Timestamps of three bits; the lower word has one of them.               *)
EXTENDS TimeStampingUnit
=============================================================================
