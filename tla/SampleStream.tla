---------------------------- MODULE SampleStream ----------------------------
(***************************************************************************)
(* What the queue and the publisher of a sensor promise: the samples a     *)
(* sensor stored are sent once each, in their order, in bursts of at       *)
(* least one and at most Burst of them.  SensorQueue implements it.        *)
(***************************************************************************)
EXTENDS Naturals

CONSTANTS Sensor, Burst

VARIABLES
  stored,     \* per sensor: samples stored so far; they are numbered from 1
  received    \* per sensor: the numbers sent so far, in order

UpTo(n) == [i \in 1 .. n |-> i]

StreamInit ==
  /\ stored = [s \in Sensor |-> 0]
  /\ received = [s \in Sensor |-> UpTo(0)]

Store(s) ==
  /\ stored' = [stored EXCEPT ![s] = @ + 1]
  /\ UNCHANGED received

Send(s) ==
  /\ \E done \in 0 .. stored[s], n \in 1 .. Burst :
       /\ received[s] = UpTo(done) /\ done + n <= stored[s]
       /\ received' = [received EXCEPT ![s] = UpTo(done + n)]
  /\ UNCHANGED stored

StreamNext == \E s \in Sensor : Store(s) \/ Send(s)

StreamSpec == StreamInit /\ [][StreamNext]_<<stored, received>>

=============================================================================
