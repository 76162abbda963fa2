-------------------------------- MODULE Pwm --------------------------------
(***************************************************************************)
(* The PWM controller of the seven segment display.  A step of Clock is a  *)
(* rising edge, SetValue a write to the register it compares with.         *)
(***************************************************************************)
EXTENDS Naturals

CONSTANT Size   \* values of the counter: 2 ** dataWidth

ASSUME SizeAssumption == Size \in Nat /\ Size >= 2

VARIABLES
  counter, output,
  value,  \* the input of the controller
  age     \* edges since the input changed, counted to Size

pwm == <<counter, output, value, age>>

PwmTypeOK ==
  /\ {counter, value} \subseteq 0 .. Size - 1
  /\ output \in BOOLEAN /\ age \in 0 .. Size

PwmInit == counter = 0 /\ output = FALSE /\ value = 0 /\ age = 0

ClockClearFirst ==   \* mutant of Clock: switching off wins over switching on
  /\ counter' = IF counter = Size - 1 THEN 0 ELSE counter + 1
  /\ output' = (counter # value /\ (counter = Size - 1 \/ output))
  /\ age' = IF age = Size THEN age ELSE age + 1
  /\ UNCHANGED value

\* Switching on comes last in the process, so it wins over switching off.
Clock ==
  /\ counter' = IF counter = Size - 1 THEN 0 ELSE counter + 1
  /\ output' = (counter = Size - 1 \/ (output /\ counter # value))
  /\ age' = IF age = Size THEN age ELSE age + 1
  /\ UNCHANGED value

SetValue(v) ==
  /\ value' = v /\ age' = (IF v = value THEN age ELSE 0)
  /\ UNCHANGED <<counter, output>>

PwmNext == Clock \/ \E v \in 0 .. Size - 1 : SetValue(v)

PwmSpec == PwmInit /\ [][PwmNext]_pwm

-----------------------------------------------------------------------------
(* Properties.                                                             *)

\* One period after the input changed, the output is on in the first value + 1
\* cycles of each period and off in the others, whenever the change came.
SettledDuty == age = Size => (output <=> counter <= value)

\* What the comment at the head of pwm_controller.vhd says: a duty cycle from 0%
\* (value 0) to 99% (the largest value), that is on in value of the Size cycles.
DocumentedDuty == age = Size => (output <=> counter < value)

=============================================================================
