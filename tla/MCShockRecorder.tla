-------------------------- MODULE MCShockRecorder --------------------------
(* The shock recorder with a RAM of four samples of two words, one of them *)
(* from before the shock, and its refinement of EventBuffer.               *)
EXTENDS ShockRecorder

Buffer == INSTANCE EventBuffer WITH
  Words <- Size * Fields,
  Shock <- Sample,
  shock <- shockSeq,
  taken <- IF capture = "sealed" THEN Taken ELSE 0

\* Every cycle of the recorder (fsm, mpu9250-ea.vhd) is a step of EventBuffer
\* or leaves it alone.
ImplementsEventBuffer == Buffer!BufferSpec

\* The operation of EventBuffer that an operation on the bus performs.  A read
\* of a sealed window takes its word in the first of its two cycles; any other
\* read may do so in either.
BufferOp(op) ==
  CASE op = "ReadFirst"  -> "Read"
    [] op = "ReadSecond" -> IF capture = "sealed" THEN "None" ELSE "Read"
    [] OTHER -> op

\* The operations agree: what a bus operation does in a cycle, alone or together
\* with the end of a recording or the detection of a shock, is what EventBuffer
\* says of that very operation.  An interrupt raised in the cycle in which the
\* driver clears one is the case in point.
OperationsAgree ==
  [][\A op \in BusOp, loud \in BOOLEAN :
       Cycle(op, loud) => \E move \in Buffer!Move : Buffer!Step(BufferOp(op), move)]_vars
=============================================================================
