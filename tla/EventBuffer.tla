---------------------------- MODULE EventBuffer ----------------------------
(***************************************************************************)
(* What the shock recorder of the MPU9250 core promises to its driver,     *)
(* without clock cycles, addresses and RAM: the buffer is enabled, records *)
(* one shock, raises the interrupt, keeps the recorded window until it is  *)
(* enabled again, and hands out its words one after the other.             *)
(*                                                                         *)
(* In one step the recorder makes a move of its own (or none) and the bus  *)
(* performs an operation (or none): both can fall into one clock cycle,    *)
(* and then the bus wins.  ShockRecorder implements this module.           *)
(***************************************************************************)
EXTENDS Naturals

CONSTANTS
  Words,      \* words of a window: 1024 samples of 11 words
  Shock       \* identities of shocks

ASSUME WordsAssumption == Words \in Nat \ {0}

VARIABLES
  state,      \* Idle, WaitShock or RecShock
  avail,      \* bit 1 of the control register: a window can be read
  int,        \* bit 0 of the interrupt status register
  intEn,      \* bit 0 of the interrupt enable register
  capture,    \* none, open or sealed: what is known of the buffer's content
  shock,      \* the last shock detected
  taken       \* words read of a sealed window

bufferVars == <<state, avail, int, intEn, capture, shock, taken>>

Move == {"None", "Detect", "Complete"}
Op   == {"None", "Read", "Enable", "ClearInt", "IntOn", "IntOff"}

BufferInit ==
  /\ state = "Idle" /\ avail = FALSE /\ int = FALSE /\ intEn = FALSE
  /\ capture = "none" /\ shock \in Shock /\ taken = 0

MayMove(move) ==
  CASE move = "Detect"   -> state = "WaitShock"
    [] move = "Complete" -> state = "RecShock"
    [] OTHER             -> TRUE

\* A read while a shock is recorded disturbs the window: it moves the read
\* pointer that marks its end.
Disturbs(op, move) == op = "Read" /\ (move = "Detect" \/ state = "RecShock")

NextCapture(op, move) ==
  CASE op = "Enable" \/ Disturbs(op, move) -> "none"
    [] op # "Enable" /\ ~Disturbs(op, move) /\ move = "Detect" -> "open"
    [] op # "Enable" /\ ~Disturbs(op, move) /\ move = "Complete" /\ capture = "open" -> "sealed"
    [] OTHER -> capture

NextTaken(op) ==
  CASE op = "Enable" \/ capture # "sealed" -> 0
    [] op = "Read" /\ capture = "sealed" /\ avail -> taken + 1
    [] OTHER -> taken

\* The available bit of a sealed window falls with its last word.  A window
\* that is not sealed can run out at any read.
AvailAfter(op, move) ==
  CASE move = "Complete" /\ op # "Read" -> {TRUE}
    [] op = "Read" /\ capture = "sealed" -> {avail /\ taken + 1 < Words}
    [] op = "Read" /\ capture # "sealed" -> {FALSE, avail \/ move = "Complete"}
    [] OTHER -> {avail}

Step(op, move) ==
  /\ MayMove(move)
  /\ state' = CASE op = "Enable" -> "WaitShock"
                [] op # "Enable" /\ move = "Detect"   -> "RecShock"
                [] op # "Enable" /\ move = "Complete" -> "Idle"
                [] OTHER -> state
  /\ avail' \in AvailAfter(op, move)
  /\ int' = (op # "ClearInt" /\ (int \/ move = "Complete"))
  /\ intEn' = (IF op \in {"IntOn", "IntOff"} THEN op = "IntOn" ELSE intEn)
  /\ capture' = NextCapture(op, move)
  /\ taken' = NextTaken(op)
  /\ IF move = "Detect" THEN shock' \in Shock ELSE UNCHANGED shock

BufferNext == \E op \in Op, move \in Move : Step(op, move)

BufferSpec == BufferInit /\ [][BufferNext]_bufferVars

BufferTypeOK ==
  /\ state \in {"Idle", "WaitShock", "RecShock"}
  /\ {avail, int, intEn} \subseteq BOOLEAN
  /\ capture \in {"none", "open", "sealed"}
  /\ shock \in Shock
  /\ taken \in 0 .. Words

=============================================================================
