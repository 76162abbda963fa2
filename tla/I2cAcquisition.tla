--------------------------- MODULE I2cAcquisition ---------------------------
(***************************************************************************)
(* The acquisition of the HDC1000 core: the state machine that commands    *)
(* the Avalon I2C master, waits for the sensor's ready line and takes the  *)
(* four bytes of temperature and humidity out of the master's FIFO.        *)
(*                                                                         *)
(* Clock is a rising edge of iClk.  The I2C master and the sensor are not  *)
(* part of the repository; they are modelled as the state machine uses     *)
(* them, at any speed.  A byte is named by the measurement it belongs to   *)
(* and its place in it.                                                    *)
(***************************************************************************)
EXTENDS Integers, Sequences, Functions

CONSTANTS
  MaxSample,  \* bound: acquisitions
  MaxNacks    \* bound: transfers the sensor does not acknowledge

ASSUME BoundsAssumption == MaxSample \in Nat /\ MaxNacks \in Nat

VARIABLES
  state, read,    \* reg.hdcState, reg.read: the strobe of this cycle
  avm,            \* reg.avm: the request on the bus of the I2C master
  bytes, time,    \* reg.shadowReg
  valid,          \* reg.valid
  rdySync,        \* hdcRdy and hdcRdySync
  sample,         \* acquisitions that have taken their first byte
  cmds, rx,       \* FIFOs of the I2C master
  nacks, aborted, \* transfers not acknowledged; the last one was not
  rdy, measuring, \* the sensor: its ready line, low when it has a result
  measured, place \* its last measurement, and the byte it sends next

regs == <<state, read, avm, bytes, time, valid, rdySync, sample>>
sensor == <<rdy, measuring, measured, place>>
vars == <<regs, cmds, rx, nacks, aborted, sensor>>

\* What a write to the transfer command register asks of the I2C master.
Command == {"address", "write", "measure", "readAddress", "byte"}

Reset ==
  /\ state = "Init" /\ read = FALSE /\ avm = "none" /\ valid = FALSE
  /\ bytes = [i \in 1 .. 4 |-> <<0, i>>] /\ time = 0 /\ sample = 0
  /\ rdySync = <<0, 0>>

Init ==
  /\ Reset /\ cmds = <<>> /\ rx = <<>> /\ nacks = 0 /\ aborted = FALSE
  /\ rdy = 1 /\ measuring = FALSE /\ measured = 0 /\ place = 1

\* The states that issue one request and go on: the request and the next state.
ChainShort == [               \* mutant of Chain: a read command is missing
  Init          |-> <<"setup", "InitHdc1">>,
  InitHdc1      |-> <<"address", "InitHdc2">>,
  InitHdc2      |-> <<"write", "InitHdc3">>,
  InitHdc3      |-> <<"write", "InitHdc4">>,
  InitHdc4      |-> <<"write", "Idle">>,
  WakeUpI2c     |-> <<"setup", "StartMeasure1">>,
  StartMeasure1 |-> <<"address", "StartMeasure2">>,
  StartMeasure2 |-> <<"measure", "Wait1">>,
  RdCmd1        |-> <<"readAddress", "RdCmd2">>,
  RdCmd2        |-> <<"byte", "RdCmd3">>,
  RdCmd3        |-> <<"byte", "RdCmd4">>,
  RdCmd4        |-> <<"byte", "WaitRead1">>,
  WaitRead1     |-> <<"level", "WaitRead2">>]

\* Init stands for the setup of the I2C master and the read that wakes it up.
Chain == [
  Init          |-> <<"setup", "InitHdc1">>,
  InitHdc1      |-> <<"address", "InitHdc2">>,
  InitHdc2      |-> <<"write", "InitHdc3">>,
  InitHdc3      |-> <<"write", "InitHdc4">>,
  InitHdc4      |-> <<"write", "Idle">>,
  WakeUpI2c     |-> <<"setup", "StartMeasure1">>,
  StartMeasure1 |-> <<"address", "StartMeasure2">>,
  StartMeasure2 |-> <<"measure", "Wait1">>,
  RdCmd1        |-> <<"readAddress", "RdCmd2">>,
  RdCmd2        |-> <<"byte", "RdCmd3">>,
  RdCmd3        |-> <<"byte", "RdCmd4">>,
  RdCmd4        |-> <<"byte", "RdCmd5">>,
  RdCmd5        |-> <<"byte", "WaitRead1">>,
  WaitRead1     |-> <<"level", "WaitRead2">>]

Goto(request, next) == avm' = request /\ state' = next
Stay(request) == Goto(request, state)

Issue ==
  /\ state \in DOMAIN Chain /\ Goto(Chain[state][1], Chain[state][2])
  /\ valid' = TRUE /\ UNCHANGED <<bytes, time, sample>>

\* A strobe of another cycle than this one is lost.
IdleState ==
  /\ state = "Idle" /\ Goto("none", IF read THEN "WakeUpI2c" ELSE "Idle")
  /\ valid' = TRUE /\ UNCHANGED <<bytes, time, sample>>

Wait1 ==
  /\ state = "Wait1" /\ Goto("none", IF rdySync[2] # 0 THEN "Wait2" ELSE "Wait1")
  /\ valid' = TRUE /\ UNCHANGED <<bytes, time, sample>>

Wait2 ==
  /\ state = "Wait2"
  /\ IF rdySync[2] = 0 THEN Goto("setup", "RdCmd1") ELSE Stay("none")
  /\ valid' = TRUE /\ UNCHANGED <<bytes, time, sample>>

WaitRead2Early(waitrequest) ==   \* mutant of WaitRead2: three bytes are enough
  /\ state = "WaitRead2"
  /\ IF ~waitrequest /\ Len(rx) >= 3 THEN Goto("data", "TmpRead1") ELSE Stay("level")
  /\ valid' = TRUE /\ UNCHANGED <<bytes, time, sample>>

WaitRead2(waitrequest) ==
  /\ state = "WaitRead2"
  /\ IF ~waitrequest /\ Len(rx) >= 4 THEN Goto("data", "TmpRead1") ELSE Stay("level")
  /\ valid' = TRUE /\ UNCHANGED <<bytes, time, sample>>

ReadState == <<"TmpRead1", "TmpRead2", "HumRead1", "HumRead2">>
Received == IF rx = <<>> THEN <<0, 0>> ELSE Head(rx)

\* The four reads: each keeps its request on the bus until it is answered, and the
\* request of the next one is there in the cycle after.
ReadByte(waitrequest) == \E i \in 1 .. 4 :
  /\ state = ReadState[i]
  /\ \/ /\ waitrequest
        /\ Stay("data") /\ valid' = (i = 1)
        /\ UNCHANGED <<bytes, time, sample>>
     \/ /\ ~waitrequest
        /\ bytes' = [bytes EXCEPT ![i] = Received]
        /\ sample' = (IF i = 1 THEN sample + 1 ELSE sample)
        /\ time' = (IF i = 4 THEN sample ELSE time)
        /\ valid' = (i = 4)
        /\ IF i = 4 THEN Goto("none", "Idle") ELSE Goto("data", ReadState[i + 1])

\* The master takes a command when it is on the bus and gives a byte away when it
\* answers the read.
Clock(waitrequest) ==
  /\ Issue \/ IdleState \/ Wait1 \/ Wait2 \/ WaitRead2(waitrequest) \/ ReadByte(waitrequest)
  /\ read' \in {FALSE, sample < MaxSample}
  /\ rdySync' = <<rdy, rdySync[1]>>
  /\ cmds' = IF avm \in Command THEN Append(cmds, avm) ELSE cmds
  /\ rx' = IF avm = "data" /\ ~waitrequest /\ rx # <<>> THEN Tail(rx) ELSE rx
  /\ UNCHANGED <<nacks, aborted, sensor>>

-----------------------------------------------------------------------------
(* The I2C master and the sensor.                                          *)

Start == {"address", "readAddress"}

Transfer ==
  /\ cmds # <<>> /\ cmds' = Tail(cmds)
  /\ LET c == Head(cmds) IN
       /\ aborted => c \in Start
       /\ aborted' = FALSE
       /\ measuring' = (measuring \/ c = "measure")
       /\ rdy' = (IF c \in {"measure", "readAddress"} THEN 1 ELSE rdy)
       /\ rx' = (IF c = "byte" THEN Append(rx, <<measured, place>>) ELSE rx)
       /\ place' = CASE c = "byte" -> place + 1 [] c = "readAddress" -> 1 [] OTHER -> place
  /\ UNCHANGED <<regs, nacks, measured>>

\* Without an acknowledge the transfer ends, ...
Nack ==
  /\ nacks < MaxNacks /\ nacks' = nacks + 1
  /\ cmds # <<>> /\ Head(cmds) # "byte" /\ ~aborted
  /\ cmds' = Tail(cmds) /\ aborted' = TRUE
  /\ UNCHANGED <<regs, rx, sensor>>

\* ... and the master drops the rest of it and, as nobody resets its status, perhaps
\* also what follows.
Drop ==
  /\ aborted /\ cmds # <<>> /\ cmds' = Tail(cmds)
  /\ UNCHANGED <<regs, rx, nacks, aborted, sensor>>

Ready ==
  /\ measuring /\ measuring' = FALSE
  /\ measured' = measured + 1 /\ rdy' = 0
  /\ UNCHANGED <<regs, cmds, rx, nacks, aborted, place>>

Next == (\E waitrequest \in BOOLEAN : Clock(waitrequest)) \/ Transfer \/ Nack \/ Drop \/ Ready

Spec == Init /\ [][Next]_vars

\* The clock runs and the master answers reads; it works off its commands and the
\* sensor ends its measurements.
Fairness == WF_vars(Clock(FALSE)) /\ WF_vars(Transfer) /\ WF_vars(Ready)
FairSpec == Spec /\ Fairness

-----------------------------------------------------------------------------
(* Properties.                                                             *)

\* The shadow registers as SensorRegs sees them: the data word has the number of an
\* acquisition when its four bytes are those of one measurement, each in its place.
Mixed == -1
Data ==
  LET whole == {n \in 0 .. MaxSample : \A i \in 1 .. 4 : bytes[i] = <<n, i>>}
  IN  IF whole = {} THEN Mixed ELSE CHOOSE n \in whole : TRUE

Regs == INSTANCE SensorRegs
  WITH Words <- 3, Kind <- "i2c", Reader <- {},
       shadow <- <<Data, time, time>>, reading <- state \in Range(Tail(ReadState)),
       lock <- FALSE, reg <- <<>>, readdata <- 0, bus <- {}, got <- <<>>,
       disturbed <- <<>>, raced <- <<>>

\* The state machine acquires as SensorRegs says: the four bytes come out of the FIFO
\* in their places, none of another measurement, and valid is low from the first byte
\* to the last, however slow the master, even when a transfer fails.
ImplementsAcquire == [][Regs!Acquire]_<<valid, bytes, time, sample, state>>

\* A strobe that meets the idle state machine leads to one more acquisition, unless
\* the sensor does not answer: then nothing ends the waiting.
AcquisitionEnds ==
  \A n \in 0 .. MaxSample - 1 :
    state = "Idle" /\ read /\ sample = n ~> nacks > 0 \/ (sample = n + 1 /\ state = "Idle")

=============================================================================
