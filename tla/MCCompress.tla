---------------------------- MODULE MCCompress ----------------------------
(* Streams of up to three times the temporary buffer.                      *)
EXTENDS Compress
=============================================================================
