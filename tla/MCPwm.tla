------------------------------- MODULE MCPwm -------------------------------
(* A counter of two bits: all phases and all inputs.                        *)
EXTENDS Pwm
=============================================================================
