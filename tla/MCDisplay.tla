----------------------------- MODULE MCDisplay -----------------------------
(* A PWM of one bit; two numbers, of three digits and of one.               *)
EXTENDS Display

MCAddress == <<<<1, 9, 2>>, <<7>>>>

\* A partial write of two digits, the second of them invalid.
MCOthers == {[at |-> 2, bytes |-> <<3, 16>>]}

=============================================================================
