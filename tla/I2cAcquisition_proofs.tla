----------------------- MODULE I2cAcquisition_proofs -----------------------
(***************************************************************************)
(* The state machine of the HDC1000 core acquires as SensorRegs says, for  *)
(* any number of acquisitions and of failed transfers.  The argument       *)
(* follows a measurement through the master's FIFOs: the command to        *)
(* measure is the last one before the ready line falls, so the commands    *)
(* that read the result find the FIFO empty and fill the other one with    *)
(* the four bytes of this measurement, or leave it empty.                  *)
(***************************************************************************)
EXTENDS I2cAcquisition, SequenceTheorems, TLAPS

Measure == {"Init", "InitHdc1", "InitHdc2", "InitHdc3", "InitHdc4",
            "Idle", "WakeUpI2c", "StartMeasure1", "StartMeasure2"}
Wait == {"Wait1", "Wait2"}
Fetch == {"RdCmd1", "RdCmd2", "RdCmd3", "RdCmd4", "RdCmd5", "WaitRead1", "WaitRead2"}
Take == {"TmpRead1", "TmpRead2", "HumRead1", "HumRead2"}

Type ==
  /\ state \in Measure \cup Wait \cup Fetch \cup Take
  /\ avm \in Command \cup {"none", "setup", "level", "data"}
  /\ bytes \in [1 .. 4 -> Int \X Int] /\ time \in 0 .. MaxSample
  /\ sample \in 0 .. MaxSample /\ read \in BOOLEAN /\ valid \in BOOLEAN
  /\ rdySync \in {0, 1} \X {0, 1} /\ rdy \in {0, 1}
  /\ cmds \in Seq(Command) /\ rx \in Seq(Int \X Int)
  /\ aborted \in BOOLEAN /\ measuring \in BOOLEAN /\ measured \in Int /\ place \in Int

\* The number of the next acquisition is within the bound.
RoomInv ==
  /\ read /\ state # "TmpRead2" => sample < MaxSample
  /\ state \notin {"Init", "InitHdc1", "InitHdc2", "InitHdc3", "InitHdc4", "Idle",
                 "TmpRead2", "HumRead1", "HumRead2"} => sample < MaxSample

\* Until the command to measure nothing is measured.
BeforeMeasure ==
  state \in Measure =>
    /\ ~measuring /\ measured = sample /\ rdy = 1 /\ rx = <<>>
    /\ avm \in {"none", "setup", "address", "write"}
    /\ \A i \in 1 .. Len(cmds) : cmds[i] \in {"address", "write"}
    /\ state \notin {"Init", "InitHdc1"} => rdySync[2] = 1
    /\ state # "Init" => rdySync[1] = 1

\* The command to measure is the last one: when it is done, none is left.
Measuring ==
  state \in Wait =>
    /\ rx = <<>> /\ avm \in {"none", "measure"} /\ (state = "Wait2" => avm = "none")
    /\ \A i \in 1 .. Len(cmds) :
         cmds[i] \in {"address", "write", "measure"}
           /\ (cmds[i] = "measure" => i = Len(cmds) /\ avm = "none")
    /\ measuring \/ measured = sample + 1 => avm = "none" /\ cmds = <<>>
    /\ measuring => measured = sample
    /\ measured \in {sample, sample + 1}
    /\ rdy = 0 \/ rdySync[1] = 0 \/ rdySync[2] = 0 => measured = sample + 1

\* The commands to read the result, in their order, and the bytes they have brought.
Issued == [RdCmd1 |-> 0, RdCmd2 |-> 0, RdCmd3 |-> 1, RdCmd4 |-> 2, RdCmd5 |-> 3,
           WaitRead1 |-> 4, WaitRead2 |-> 5]
ReadCommand(i) == IF i = 1 THEN "readAddress" ELSE "byte"
Done == Issued[state] - Len(cmds)

Fetching ==
  state \in Fetch =>
    /\ ~measuring /\ measured = sample + 1
    /\ avm = CASE state = "RdCmd1" -> "setup" [] state = "WaitRead2" -> "level"
               [] OTHER -> ReadCommand(Issued[state] + 1)
    /\ Len(cmds) <= Issued[state]
    /\ \A i \in 1 .. Len(cmds) : cmds[i] = ReadCommand(Done + i)
    /\ \/ rx = <<>> /\ (Done = 0 \/ aborted)
       \/ /\ Done > 0 /\ ~aborted /\ rdy = 1 /\ place = Done
          /\ Len(rx) = Done - 1 /\ \A i \in 1 .. Len(rx) : rx[i] = <<measured, i>>

\* The bytes taken so far, and those still to take.
NewBytes == CASE state = "TmpRead2" -> 1 [] state = "HumRead1" -> 2 [] state = "HumRead2" -> 3
              [] OTHER -> 0

Taking ==
  state \in Take =>
    /\ ~measuring /\ rdy = 1 /\ cmds = <<>> /\ avm = "data"
    /\ measured = IF NewBytes = 0 THEN sample + 1 ELSE sample
    /\ Len(rx) = 4 - NewBytes
    /\ \A j \in 1 .. 4 : j <= Len(rx) => rx[j] = <<measured, NewBytes + j>>
    /\ NewBytes > 0 => rdySync[1] = 1
    /\ NewBytes > 1 => rdySync[2] = 1

\* The shadow registers: of one acquisition, or of two while the bytes are taken.
Bytes ==
  /\ time = IF NewBytes = 0 THEN sample ELSE sample - 1
  /\ \A i \in 1 .. 4 :
       bytes[i] = <<IF NewBytes = 0 \/ i <= NewBytes THEN sample ELSE sample - 1, i>>

Inv == Type /\ RoomInv /\ BeforeMeasure /\ Measuring /\ Fetching /\ Taking /\ Bytes

-----------------------------------------------------------------------------
(* The FIFOs.                                                              *)

LEMMA CommandAdded ==
  ASSUME Type, avm \in Command
  PROVE  /\ Append(cmds, avm) \in Seq(Command) /\ Len(Append(cmds, avm)) = Len(cmds) + 1
         /\ \A i \in 1 .. Len(cmds) : Append(cmds, avm)[i] = cmds[i]
         /\ Append(cmds, avm)[Len(cmds) + 1] = avm
BY AppendProperties DEF Type

LEMMA CommandDone ==
  ASSUME Type, cmds # <<>>
  PROVE  /\ Tail(cmds) \in Seq(Command) /\ Len(Tail(cmds)) = Len(cmds) - 1
         /\ \A i \in 1 .. Len(Tail(cmds)) : Tail(cmds)[i] = cmds[i + 1]
         /\ Head(cmds) = cmds[1] /\ Head(cmds) \in Command /\ Len(cmds) \in Nat \ {0}
<1>1. cmds \in Seq(Command) BY DEF Type
<1>2. Head(cmds) = cmds[1] BY <1>1
<1>3. Len(cmds) \in Nat \ {0} BY <1>1
<1> QED BY <1>1, <1>2, <1>3, HeadTailProperties

LEMMA ByteAdded ==
  ASSUME Type, NEW b \in Int \X Int
  PROVE  /\ Append(rx, b) \in Seq(Int \X Int) /\ Len(Append(rx, b)) = Len(rx) + 1
         /\ \A i \in 1 .. Len(rx) : Append(rx, b)[i] = rx[i]
         /\ Append(rx, b)[Len(rx) + 1] = b
BY AppendProperties DEF Type

LEMMA ByteTaken ==
  ASSUME Type, rx # <<>>
  PROVE  /\ Tail(rx) \in Seq(Int \X Int) /\ Len(Tail(rx)) = Len(rx) - 1
         /\ \A i \in 1 .. Len(Tail(rx)) : Tail(rx)[i] = rx[i + 1]
         /\ Head(rx) = rx[1] /\ Head(rx) \in Int \X Int
<1>1. rx \in Seq(Int \X Int) BY DEF Type
<1>2. Head(rx) = rx[1] BY <1>1
<1> QED BY <1>1, <1>2, HeadTailProperties

LEMMA Lengths == Type => Len(cmds) \in Nat /\ Len(rx) \in Nat
<1> SUFFICES ASSUME Type PROVE Len(cmds) \in Nat /\ Len(rx) \in Nat OBVIOUS
<1>1. cmds \in Seq(Command) /\ rx \in Seq(Int \X Int) BY DEF Type
<1> QED BY <1>1, LenProperties

-----------------------------------------------------------------------------
(* The steps of the state machine, one state after the other.              *)

LEMMA IssueCases ==
  ASSUME Issue
  PROVE  /\ \/ state = "Init" /\ avm' = "setup" /\ state' = "InitHdc1"
            \/ state = "InitHdc1" /\ avm' = "address" /\ state' = "InitHdc2"
            \/ state = "InitHdc2" /\ avm' = "write" /\ state' = "InitHdc3"
            \/ state = "InitHdc3" /\ avm' = "write" /\ state' = "InitHdc4"
            \/ state = "InitHdc4" /\ avm' = "write" /\ state' = "Idle"
            \/ state = "WakeUpI2c" /\ avm' = "setup" /\ state' = "StartMeasure1"
            \/ state = "StartMeasure1" /\ avm' = "address" /\ state' = "StartMeasure2"
            \/ state = "StartMeasure2" /\ avm' = "measure" /\ state' = "Wait1"
            \/ state = "RdCmd1" /\ avm' = "readAddress" /\ state' = "RdCmd2"
            \/ state = "RdCmd2" /\ avm' = "byte" /\ state' = "RdCmd3"
            \/ state = "RdCmd3" /\ avm' = "byte" /\ state' = "RdCmd4"
            \/ state = "RdCmd4" /\ avm' = "byte" /\ state' = "RdCmd5"
            \/ state = "RdCmd5" /\ avm' = "byte" /\ state' = "WaitRead1"
            \/ state = "WaitRead1" /\ avm' = "level" /\ state' = "WaitRead2"
         /\ valid' = TRUE /\ UNCHANGED <<bytes, time, sample>>
BY DEF Issue, Chain, Goto

LEMMA ReadByteCases ==
  ASSUME NEW waitrequest \in BOOLEAN, ReadByte(waitrequest)
  PROVE  /\ state \in Take
         /\ \/ /\ waitrequest /\ state' = state /\ avm' = "data" /\ valid' = (state = "TmpRead1")
               /\ UNCHANGED <<bytes, time, sample>>
            \/ /\ ~waitrequest /\ bytes' = [bytes EXCEPT ![NewBytes + 1] = Received]
               /\ valid' = (state = "HumRead2")
               /\ \/ /\ state = "TmpRead1" /\ state' = "TmpRead2" /\ avm' = "data"
                     /\ sample' = sample + 1 /\ time' = time
                  \/ /\ state = "TmpRead2" /\ state' = "HumRead1" /\ avm' = "data"
                     /\ sample' = sample /\ time' = time
                  \/ /\ state = "HumRead1" /\ state' = "HumRead2" /\ avm' = "data"
                     /\ sample' = sample /\ time' = time
                  \/ /\ state = "HumRead2" /\ state' = "Idle" /\ avm' = "none"
                     /\ sample' = sample /\ time' = sample
<1>0. /\ ReadState[1] = "TmpRead1" /\ ReadState[2] = "TmpRead2"
      /\ ReadState[3] = "HumRead1" /\ ReadState[4] = "HumRead2"
  BY DEF ReadState
<1>1. PICK i \in 1 .. 4 :
        /\ state = ReadState[i]
        /\ \/ waitrequest /\ Stay("data") /\ valid' = (i = 1) /\ UNCHANGED <<bytes, time, sample>>
           \/ /\ ~waitrequest
              /\ bytes' = [bytes EXCEPT ![i] = Received]
              /\ sample' = (IF i = 1 THEN sample + 1 ELSE sample)
              /\ time' = (IF i = 4 THEN sample ELSE time)
              /\ valid' = (i = 4)
              /\ IF i = 4 THEN Goto("none", "Idle") ELSE Goto("data", ReadState[i + 1])
  BY DEF ReadByte
<1>2. CASE i = 1 BY <1>0, <1>1, <1>2 DEF Goto, Stay, NewBytes, Take
<1>3. CASE i = 2 BY <1>0, <1>1, <1>3 DEF Goto, Stay, NewBytes, Take
<1>4. CASE i = 3 BY <1>0, <1>1, <1>4 DEF Goto, Stay, NewBytes, Take
<1>5. CASE i = 4 BY <1>0, <1>1, <1>5 DEF Goto, Stay, NewBytes, Take
<1> QED BY <1>2, <1>3, <1>4, <1>5

LEMMA InitInv == Init => Inv
<1> SUFFICES ASSUME Init PROVE Inv OBVIOUS
<1> USE BoundsAssumption DEF Init, Reset
<1>1. Type
  <2>1. cmds \in Seq(Command) /\ rx \in Seq(Int \X Int) OBVIOUS
  <2>2. bytes \in [1 .. 4 -> Int \X Int] OBVIOUS
  <2>3. state \in Measure BY DEF Measure
  <2>4. avm \in Command \cup {"none", "setup", "level", "data"} OBVIOUS
  <2>5. rdySync \in {0, 1} \X {0, 1} /\ rdy \in {0, 1} OBVIOUS
  <2>6. time \in 0 .. MaxSample /\ sample \in 0 .. MaxSample /\ measured \in Int /\ place \in Int
    OBVIOUS
  <2>7. read \in BOOLEAN /\ valid \in BOOLEAN /\ aborted \in BOOLEAN /\ measuring \in BOOLEAN
    OBVIOUS
  <2> HIDE DEF Init, Reset
  <2> QED BY <2>1, <2>2, <2>3, <2>4, <2>5, <2>6, <2>7 DEF Type
<1>2. RoomInv BY DEF RoomInv
<1>3. BeforeMeasure BY DEF BeforeMeasure
<1>4. Measuring /\ Fetching /\ Taking BY DEF Measuring, Fetching, Taking, Wait, Fetch, Take
<1>5. Bytes BY DEF Bytes, NewBytes
<1> QED BY <1>1, <1>2, <1>3, <1>4, <1>5 DEF Inv

\* What every edge does besides the step of its state.
LEMMA ClockCommon ==
  ASSUME Type, NEW waitrequest \in BOOLEAN, Clock(waitrequest)
  PROVE  /\ rdySync' = <<rdy, rdySync[1]>> /\ read' \in BOOLEAN /\ (read' => sample < MaxSample)
         /\ avm \in Command => cmds' = Append(cmds, avm)
         /\ avm \notin Command => cmds' = cmds
         /\ avm # "data" \/ waitrequest \/ rx = <<>> => rx' = rx
         /\ avm = "data" /\ ~waitrequest /\ rx # <<>> => rx' = Tail(rx)
         /\ UNCHANGED <<aborted, rdy, measuring, measured, place>>
<1>1. read' \in BOOLEAN /\ (read' => sample < MaxSample)
  <2> DEFINE room == sample < MaxSample
  <2>1. room \in BOOLEAN OBVIOUS
  <2>2. read' = FALSE \/ read' = room BY DEF Clock
  <2> HIDE DEF room
  <2>3. CASE read' = FALSE BY <2>3
  <2>4. CASE read' = room
    <3>1. read' \in BOOLEAN /\ (read' => room) BY <2>1, <2>4, Zenon
    <3> QED BY <3>1 DEF room
  <2> QED BY <2>2, <2>3, <2>4
<1> QED BY <1>1 DEF Clock, sensor

LEMMA TypeOfClock ==
  ASSUME Type, RoomInv, Bytes, NEW waitrequest \in BOOLEAN, Clock(waitrequest)
  PROVE  Type'
<1>1. cmds' \in Seq(Command)
  <2>1. CASE avm \in Command BY <2>1, ClockCommon, CommandAdded
  <2>2. CASE avm \notin Command BY <2>2, ClockCommon DEF Type
  <2> QED BY <2>1, <2>2
<1>2. rx' \in Seq(Int \X Int)
  <2>1. CASE avm = "data" /\ ~waitrequest /\ rx # <<>> BY <2>1, ClockCommon, ByteTaken
  <2>2. CASE ~(avm = "data" /\ ~waitrequest /\ rx # <<>>) BY <2>2, ClockCommon DEF Type
  <2> QED BY <2>1, <2>2
<1>3. rdySync' \in {0, 1} \X {0, 1}
  <2>1. rdy \in {0, 1} /\ rdySync[1] \in {0, 1} BY DEF Type
  <2>2. rdySync' = <<rdy, rdySync[1]>> BY ClockCommon
  <2> QED BY <2>1, <2>2
<1>4. /\ read' \in BOOLEAN /\ aborted' \in BOOLEAN /\ measuring' \in BOOLEAN
      /\ measured' \in Int /\ place' \in Int /\ rdy' \in {0, 1}
  BY ClockCommon DEF Type
<1>5. /\ state' \in Measure \cup Wait \cup Fetch \cup Take
      /\ avm' \in Command \cup {"none", "setup", "level", "data"}
      /\ bytes' \in [1 .. 4 -> Int \X Int]
      /\ time' \in 0 .. MaxSample /\ sample' \in 0 .. MaxSample /\ valid' \in BOOLEAN
  <2>1. CASE Issue
    <3>1. state' \in Measure \cup Wait \cup Fetch /\ avm' \in Command \cup {"setup", "level"}
      BY <2>1, IssueCases DEF Measure, Wait, Fetch, Command
    <3> QED BY <2>1, <3>1, IssueCases DEF Type
  <2>2. CASE IdleState \/ Wait1 \/ Wait2 \/ WaitRead2(waitrequest)
    <3>1. state' \in Measure \cup Wait \cup Fetch \cup Take /\ avm' \in {"none", "setup", "level", "data"}
      BY <2>2 DEF IdleState, Wait1, Wait2, WaitRead2, Goto, Stay, Measure, Wait, Fetch, Take
    <3>2. valid' = TRUE /\ UNCHANGED <<bytes, time, sample>>
      BY <2>2 DEF IdleState, Wait1, Wait2, WaitRead2
    <3> QED BY <3>1, <3>2 DEF Type
  <2>3. CASE ReadByte(waitrequest)
    <3>1. Received \in Int \X Int BY ByteTaken DEF Received
    <3>2. state \in Take /\ state' \in Take \cup {"Idle"} /\ avm' \in {"none", "data"}
          /\ valid' \in BOOLEAN
      BY <2>3, ReadByteCases DEF Take
    <3>3. state' \in Measure \cup Take BY <3>2 DEF Measure
    <3>4. bytes' \in [1 .. 4 -> Int \X Int] BY <2>3, <3>1, ReadByteCases DEF Type
    <3>5. sample' = sample \/ (state = "TmpRead1" /\ sample' = sample + 1)
      BY <2>3, ReadByteCases
    <3>6. sample' \in 0 .. MaxSample
      <4>1. sample \in 0 .. MaxSample BY DEF Type
      <4>2. state = "TmpRead1" => sample < MaxSample BY DEF RoomInv
      <4>3. MaxSample \in Nat BY BoundsAssumption
      <4> QED BY <3>5, <4>1, <4>2, <4>3
    <3>7. time' \in {time, sample} BY <2>3, ReadByteCases
    <3> QED BY <3>2, <3>3, <3>4, <3>6, <3>7 DEF Type
  <2> QED BY <2>1, <2>2, <2>3 DEF Clock
<1> QED BY <1>1, <1>2, <1>3, <1>4, <1>5 DEF Type

LEMMA RoomOfClock ==
  ASSUME Type, RoomInv, NEW waitrequest \in BOOLEAN, Clock(waitrequest)
  PROVE  RoomInv'
<1>1. sample \in Int /\ MaxSample \in Int BY BoundsAssumption DEF Type
<1>2. read' => sample < MaxSample BY ClockCommon
<1>3. CASE Issue BY <1>2, <1>3, IssueCases DEF RoomInv
<1>4. CASE IdleState \/ Wait1 \/ Wait2 \/ WaitRead2(waitrequest)
  BY <1>2, <1>4 DEF RoomInv, IdleState, Wait1, Wait2, WaitRead2, Goto, Stay
<1>5. CASE ReadByte(waitrequest)
  <2>1. state \in Take BY <1>5, ReadByteCases
  <2> QED BY <1>2, <1>5, <2>1, ReadByteCases DEF RoomInv, Take
<1> QED BY <1>3, <1>4, <1>5 DEF Clock

LEMMA BeforeMeasureOfClock ==
  ASSUME Inv, NEW waitrequest \in BOOLEAN, Clock(waitrequest)
  PROVE  BeforeMeasure'
<1> SUFFICES ASSUME state' \in Measure PROVE BeforeMeasure' BY DEF BeforeMeasure
<1>1. Type /\ BeforeMeasure /\ Taking BY DEF Inv
<1>2. CASE state \in Measure
  <2>1. /\ ~measuring /\ measured = sample /\ rdy = 1 /\ rx = <<>>
        /\ avm \in {"none", "setup", "address", "write"}
        /\ \A i \in 1 .. Len(cmds) : cmds[i] \in {"address", "write"}
        /\ state \notin {"Init", "InitHdc1"} => rdySync[2] = 1
        /\ state # "Init" => rdySync[1] = 1
    BY <1>1, <1>2 DEF BeforeMeasure
  <2>2. \A i \in 1 .. Len(cmds') : cmds'[i] \in {"address", "write"}
    <3>1. CASE avm \in Command
      <4>1. avm \in {"address", "write"} BY <2>1, <3>1 DEF Command
      <4>2. cmds' = Append(cmds, avm) BY <1>1, <3>1, ClockCommon
      <4> QED BY <1>1, <2>1, <3>1, <4>1, <4>2, CommandAdded, Lengths
    <3>2. CASE avm \notin Command BY <1>1, <2>1, <3>2, ClockCommon
    <3> QED BY <3>1, <3>2
  <2>3. rx' = <<>> BY <1>1, <2>1, ClockCommon
  <2>4. /\ avm' \in {"none", "setup", "address", "write"} /\ sample' = sample
        /\ state' \notin {"Init", "InitHdc1"} => state # "Init"
        /\ state' # "Init"
    <3>1. CASE Issue BY <1>2, <3>1, IssueCases DEF Measure
    <3>2. CASE IdleState BY <3>2 DEF IdleState, Goto
    <3>3. CASE ReadByte(waitrequest) BY <1>2, <3>3, ReadByteCases DEF Measure, Take
    <3> QED BY <1>2, <3>1, <3>2, <3>3 DEF Clock, Wait1, Wait2, WaitRead2, Measure
  <2>5. rdySync'[1] = 1 /\ rdySync'[2] = rdySync[1] BY <1>1, <2>1, ClockCommon DEF Type
  <2> QED BY <1>1, <2>1, <2>2, <2>3, <2>4, <2>5, ClockCommon DEF BeforeMeasure
<1>3. CASE state \notin Measure
  <2>1. ReadByte(waitrequest) /\ state = "HumRead2"
    <3>1. CASE Issue BY <1>3, <3>1, IssueCases DEF Measure
    <3>2. CASE IdleState BY <1>3, <3>2 DEF IdleState, Measure
    <3>3. CASE Wait1 \/ Wait2 \/ WaitRead2(waitrequest)
      BY <3>3 DEF Wait1, Wait2, WaitRead2, Goto, Stay, Measure
    <3>4. CASE ReadByte(waitrequest) BY <3>4, ReadByteCases DEF Measure, Take
    <3> QED BY <3>1, <3>2, <3>3, <3>4 DEF Clock
  <2>2. ~waitrequest /\ state' = "Idle" /\ avm' = "none" /\ sample' = sample
    BY <2>1, ReadByteCases DEF Measure
  <2>3. /\ ~measuring /\ rdy = 1 /\ cmds = <<>> /\ avm = "data" /\ measured = sample
        /\ Len(rx) = 1 /\ rdySync[1] = 1
    BY <1>1, <2>1 DEF Taking, Take, NewBytes
  <2>4. rx' = <<>>
    <3>0. Len(rx) = 1 BY <2>3
    <3>1. rx # <<>> BY <3>0
    <3>2. rx' = Tail(rx) /\ Tail(rx) \in Seq(Int \X Int) /\ Len(Tail(rx)) = 0
      BY <1>1, <2>2, <2>3, <3>1, ClockCommon, ByteTaken
    <3> QED BY <3>2, EmptySeq
  <2>5. cmds' = <<>>
    <3>1. avm \notin Command BY <2>3 DEF Command
    <3> QED BY <1>1, <2>3, <3>1, ClockCommon
  <2>6. rdySync'[1] = 1 /\ rdySync'[2] = 1
    <3>1. rdySync' = <<rdy, rdySync[1]>> BY <1>1, ClockCommon
    <3> QED BY <2>3, <3>1
  <2>7. ~measuring' /\ measured' = sample' /\ rdy' = 1
    <3>1. UNCHANGED <<measuring, measured, rdy>> BY <1>1, ClockCommon
    <3> QED BY <2>2, <2>3, <3>1
  <2>8. \A i \in 1 .. Len(cmds') : cmds'[i] \in {"address", "write"} BY <2>5
  <2> QED BY <2>2, <2>4, <2>6, <2>7, <2>8 DEF BeforeMeasure
<1> QED BY <1>2, <1>3

LEMMA MeasuringOfClock ==
  ASSUME Inv, NEW waitrequest \in BOOLEAN, Clock(waitrequest)
  PROVE  Measuring'
<1> SUFFICES ASSUME state' \in Wait PROVE Measuring' BY DEF Measuring
<1>1. Type /\ BeforeMeasure /\ Measuring BY DEF Inv
<1>2. sample \in Int /\ measured \in Int BY <1>1 DEF Type
<1>3. UNCHANGED <<measuring, measured, rdy>> /\ rdySync' = <<rdy, rdySync[1]>> BY <1>1, ClockCommon
<1>4. CASE state = "StartMeasure2"
  <2>1. /\ ~measuring /\ measured = sample /\ rdy = 1 /\ rx = <<>>
        /\ avm \in {"none", "setup", "address", "write"}
        /\ \A i \in 1 .. Len(cmds) : cmds[i] \in {"address", "write"}
        /\ rdySync[2] = 1 /\ rdySync[1] = 1
    BY <1>1, <1>4 DEF BeforeMeasure, Measure
  <2>2. avm' = "measure" /\ state' = "Wait1" /\ sample' = sample
    <3>1. Issue BY <1>4 DEF Clock, IdleState, Wait1, Wait2, WaitRead2, ReadByte, ReadState
    <3> QED BY <1>4, <3>1, IssueCases
  <2>3. \A i \in 1 .. Len(cmds') : cmds'[i] \in {"address", "write"}
    <3>1. CASE avm \in Command
      <4>1. avm \in {"address", "write"} BY <2>1, <3>1 DEF Command
      <4>2. cmds' = Append(cmds, avm) BY <1>1, <3>1, ClockCommon
      <4> QED BY <1>1, <2>1, <3>1, <4>1, <4>2, CommandAdded, Lengths
    <3>2. CASE avm \notin Command BY <1>1, <2>1, <3>2, ClockCommon
    <3> QED BY <3>1, <3>2
  <2>4. rx' = <<>> BY <1>1, <2>1, ClockCommon
  <2> QED BY <1>2, <1>3, <2>1, <2>2, <2>3, <2>4 DEF Measuring
<1>5. CASE state \in Wait
  <2>1. /\ rx = <<>> /\ avm \in {"none", "measure"} /\ (state = "Wait2" => avm = "none")
        /\ \A i \in 1 .. Len(cmds) :
             cmds[i] \in {"address", "write", "measure"}
               /\ (cmds[i] = "measure" => i = Len(cmds) /\ avm = "none")
        /\ measuring \/ measured = sample + 1 => avm = "none" /\ cmds = <<>>
        /\ measuring => measured = sample
        /\ measured \in {sample, sample + 1}
        /\ rdy = 0 \/ rdySync[1] = 0 \/ rdySync[2] = 0 => measured = sample + 1
    BY <1>1, <1>5 DEF Measuring
  <2>2. avm' = "none" /\ sample' = sample
    <3>1. CASE Issue BY <1>5, <3>1, IssueCases DEF Wait
    <3>2. CASE Wait1 \/ Wait2 BY <3>2 DEF Wait1, Wait2, Goto, Stay, Wait
    <3>3. CASE ReadByte(waitrequest) BY <1>5, <3>3, ReadByteCases DEF Wait, Take
    <3> QED BY <1>5, <3>1, <3>2, <3>3 DEF Clock, IdleState, WaitRead2, Wait
  <2>3. \A i \in 1 .. Len(cmds') :
          cmds'[i] \in {"address", "write", "measure"} /\ (cmds'[i] = "measure" => i = Len(cmds'))
    <3>1. CASE avm = "measure"
      <4>1. avm \in Command BY <3>1 DEF Command
      <4>2. cmds' = Append(cmds, avm) BY <1>1, <4>1, ClockCommon
      <4> QED BY <1>1, <2>1, <3>1, <4>1, <4>2, CommandAdded, Lengths
    <3>2. CASE avm = "none" BY <1>1, <2>1, <3>2, ClockCommon DEF Command
    <3> QED BY <2>1, <3>1, <3>2
  <2>4. rx' = <<>> BY <1>1, <2>1, ClockCommon
  <2>5. measuring \/ measured = sample + 1 => cmds' = <<>>
    BY <1>1, <2>1, ClockCommon DEF Command
  <2>6. rdySync'[1] = rdy /\ rdySync'[2] = rdySync[1] BY <1>3
  <2> QED BY <1>3, <2>1, <2>2, <2>3, <2>4, <2>5, <2>6 DEF Measuring
<1>6. state = "StartMeasure2" \/ state \in Wait
  <2>1. CASE Issue BY <2>1, IssueCases DEF Wait
  <2>2. CASE IdleState \/ WaitRead2(waitrequest)
    BY <2>2 DEF IdleState, WaitRead2, Goto, Stay, Wait
  <2>3. CASE ReadByte(waitrequest) BY <2>3, ReadByteCases DEF Wait, Take
  <2> QED BY <2>1, <2>2, <2>3 DEF Clock, Wait1, Wait2, Wait
<1> QED BY <1>4, <1>5, <1>6

LEMMA FetchingOfClock ==
  ASSUME Inv, NEW waitrequest \in BOOLEAN, Clock(waitrequest)
  PROVE  Fetching'
<1> SUFFICES ASSUME state' \in Fetch PROVE Fetching' BY DEF Fetching
<1>1. Type /\ Measuring /\ Fetching BY DEF Inv
<1>2. /\ sample \in Int /\ measured \in Int /\ Len(cmds) \in Nat
  BY <1>1, Lengths DEF Type
<1>3. UNCHANGED <<measuring, measured, rdy, aborted, place>> BY <1>1, ClockCommon
<1>4. CASE state = "Wait2"
  <2>1. Wait2 BY <1>4 DEF Clock, Issue, Chain, IdleState, Wait1, WaitRead2, ReadByte, ReadState
  <2>2. state' = "RdCmd1" /\ avm' = "setup" /\ rdySync[2] = 0 /\ sample' = sample
    BY <1>4, <2>1 DEF Wait2, Goto, Stay, Fetch
  <2>3. measured = sample + 1 /\ avm = "none" /\ cmds = <<>> /\ rx = <<>> /\ ~measuring
    BY <1>1, <1>2, <1>4, <2>2 DEF Measuring, Wait
  <2>4. cmds' = <<>> /\ rx' = <<>> BY <1>1, <2>3, ClockCommon DEF Command
  <2>5. Issued[state'] = 0 /\ Done' = 0 BY <2>2, <2>4 DEF Issued, Done
  <2> QED BY <1>3, <2>2, <2>3, <2>4, <2>5 DEF Fetching
<1>5. CASE state \in Fetch
  <2>1. /\ ~measuring /\ measured = sample + 1
        /\ avm = CASE state = "RdCmd1" -> "setup" [] state = "WaitRead2" -> "level"
                   [] OTHER -> ReadCommand(Issued[state] + 1)
        /\ Len(cmds) <= Issued[state]
        /\ \A i \in 1 .. Len(cmds) : cmds[i] = ReadCommand(Done + i)
        /\ \/ rx = <<>> /\ (Done = 0 \/ aborted)
           \/ /\ Done > 0 /\ ~aborted /\ rdy = 1 /\ place = Done
              /\ Len(rx) = Done - 1 /\ \A i \in 1 .. Len(rx) : rx[i] = <<measured, i>>
    BY <1>1, <1>5 DEF Fetching
  <2>2. /\ sample' = sample /\ Issued[state] \in Nat /\ avm # "data"
        /\ avm' = CASE state' = "RdCmd1" -> "setup" [] state' = "WaitRead2" -> "level"
                    [] OTHER -> ReadCommand(Issued[state'] + 1)
        /\ \/ avm \in Command /\ Issued[state'] = Issued[state] + 1
              /\ avm = ReadCommand(Issued[state] + 1)
           \/ avm \notin Command /\ Issued[state'] = Issued[state]
    <3>1. CASE Issue
      <4>1. sample' = sample /\
            \/ state = "RdCmd1" /\ avm' = "readAddress" /\ state' = "RdCmd2"
            \/ state = "RdCmd2" /\ avm' = "byte" /\ state' = "RdCmd3"
            \/ state = "RdCmd3" /\ avm' = "byte" /\ state' = "RdCmd4"
            \/ state = "RdCmd4" /\ avm' = "byte" /\ state' = "RdCmd5"
            \/ state = "RdCmd5" /\ avm' = "byte" /\ state' = "WaitRead1"
            \/ state = "WaitRead1" /\ avm' = "level" /\ state' = "WaitRead2"
        BY <1>5, <3>1, IssueCases DEF Fetch
      <4> QED BY <2>1, <4>1 DEF Issued, ReadCommand, Command
    <3>2. CASE WaitRead2(waitrequest)
      <4>1. state = "WaitRead2" /\ state' = state /\ avm' = "level" /\ sample' = sample
        BY <3>2 DEF WaitRead2, Goto, Stay, Fetch
      <4> QED BY <2>1, <4>1 DEF Issued, Command
    <3>3. CASE ReadByte(waitrequest) BY <1>5, <3>3, ReadByteCases DEF Fetch, Take
    <3> QED BY <1>5, <3>1, <3>2, <3>3 DEF Clock, IdleState, Wait1, Wait2, Fetch
  <2>3. rx' = rx BY <1>1, <2>2, ClockCommon
  <2>4. /\ Len(cmds') <= Issued[state'] /\ Done' = Done
        /\ \A i \in 1 .. Len(cmds') : cmds'[i] = ReadCommand(Done + i)
    <3>1. CASE avm \in Command
      <4>1. /\ Len(cmds') = Len(cmds) + 1 /\ cmds'[Len(cmds) + 1] = avm
            /\ \A i \in 1 .. Len(cmds) : cmds'[i] = cmds[i]
        BY <1>1, <3>1, ClockCommon, CommandAdded
      <4>2. Issued[state'] = Issued[state] + 1 /\ avm = ReadCommand(Issued[state] + 1)
        BY <2>2, <3>1
      <4>3. Done' = Done /\ Len(cmds') <= Issued[state'] BY <1>2, <2>1, <2>2, <4>1, <4>2 DEF Done
      <4>4. Done + (Len(cmds) + 1) = Issued[state] + 1 BY <1>2, <2>2 DEF Done
      <4>5. ASSUME NEW i \in 1 .. Len(cmds') PROVE cmds'[i] = ReadCommand(Done + i)
        <5>1. CASE i = Len(cmds) + 1 BY <4>1, <4>2, <4>4, <5>1
        <5>2. CASE i # Len(cmds) + 1
          <6>1. i \in 1 .. Len(cmds) BY <1>2, <4>1, <5>2
          <6> QED BY <2>1, <4>1, <6>1
        <5> QED BY <5>1, <5>2
      <4> QED BY <4>3, <4>5
    <3>2. CASE avm \notin Command
      <4>1. cmds' = cmds /\ Issued[state'] = Issued[state] BY <1>1, <2>2, <3>2, ClockCommon
      <4> QED BY <2>1, <4>1 DEF Done
    <3> QED BY <3>1, <3>2
  <2> QED BY <1>3, <2>1, <2>2, <2>3, <2>4 DEF Fetching
<1>6. state = "Wait2" \/ state \in Fetch
  <2>1. CASE Issue BY <2>1, IssueCases DEF Fetch
  <2>2. CASE IdleState \/ Wait1 BY <2>2 DEF IdleState, Wait1, Goto, Stay, Fetch
  <2>3. CASE ReadByte(waitrequest) BY <2>3, ReadByteCases DEF Fetch, Take
  <2> QED BY <2>1, <2>2, <2>3 DEF Clock, Wait2, WaitRead2, Fetch
<1> QED BY <1>4, <1>5, <1>6

LEMMA TakingOfClock ==
  ASSUME Inv, NEW waitrequest \in BOOLEAN, Clock(waitrequest)
  PROVE  Taking'
<1> SUFFICES ASSUME state' \in Take PROVE Taking' BY DEF Taking
<1>1. Type /\ Fetching /\ Taking BY DEF Inv
<1>2. sample \in Int /\ measured \in Int /\ Len(cmds) \in Nat /\ Len(rx) \in Nat
  BY <1>1, Lengths DEF Type
<1>3. UNCHANGED <<measuring, measured, rdy>> /\ rdySync' = <<rdy, rdySync[1]>> BY <1>1, ClockCommon
<1>4. CASE state = "WaitRead2"
  <2>1. WaitRead2(waitrequest)
    BY <1>4 DEF Clock, Issue, Chain, IdleState, Wait1, Wait2, ReadByte, ReadState
  <2>2. state' = "TmpRead1" /\ avm' = "data" /\ Len(rx) >= 4 /\ sample' = sample
    BY <1>4, <2>1 DEF WaitRead2, Goto, Stay, Take
  <2>3. avm = "level" /\ Issued[state] = 5 /\ ~measuring /\ measured = sample + 1
        /\ Len(cmds) <= 5
    BY <1>1, <1>4 DEF Fetching, Fetch, Issued
  <2>4. Done > 0 /\ rdy = 1 /\ Len(rx) = Done - 1 /\ \A i \in 1 .. Len(rx) : rx[i] = <<measured, i>>
    BY <1>1, <1>4, <2>2 DEF Fetching, Fetch
  <2>5. Done = 5 - Len(cmds) BY <2>3 DEF Done
  <2>6. Len(cmds) = 0 /\ Len(rx) = 4 BY <1>2, <2>2, <2>4, <2>5
  <2>7. cmds' = <<>>
    <3>1. cmds = <<>> BY <1>1, <2>6, EmptySeq DEF Type
    <3> QED BY <1>1, <2>3, <3>1, ClockCommon DEF Command
  <2>8. rx' = rx BY <1>1, <2>3, ClockCommon
  <2>9. NewBytes' = 0 BY <2>2 DEF NewBytes
  <2>10. ASSUME NEW j \in 1 .. 4 PROVE rx'[j] = <<measured', NewBytes' + j>>
    <3>1. j \in 1 .. Len(rx) /\ NewBytes' + j = j BY <2>6, <2>9
    <3>2. rx[j] = <<measured, j>> BY <2>4, <3>1
    <3> QED BY <1>3, <2>8, <3>1, <3>2
  <2>11. ~measuring' /\ rdy' = 1 /\ measured' = sample' + 1
    BY <1>3, <2>2, <2>3, <2>4
  <2>12. Len(rx') = 4 - NewBytes' BY <2>6, <2>8, <2>9
  <2> HIDE DEF NewBytes
  <2> QED BY <2>2, <2>7, <2>9, <2>10, <2>11, <2>12 DEF Taking
<1>5. CASE state \in Take
  <2>1. /\ ~measuring /\ rdy = 1 /\ cmds = <<>> /\ avm = "data"
        /\ measured = IF NewBytes = 0 THEN sample + 1 ELSE sample
        /\ Len(rx) = 4 - NewBytes
        /\ \A j \in 1 .. 4 : j <= Len(rx) => rx[j] = <<measured, NewBytes + j>>
        /\ NewBytes > 0 => rdySync[1] = 1
        /\ NewBytes > 1 => rdySync[2] = 1
    BY <1>1, <1>5 DEF Taking
  <2>2. cmds' = <<>> BY <1>1, <2>1, ClockCommon DEF Command
  <2>3. ReadByte(waitrequest)
    BY <1>5 DEF Clock, Issue, Chain, IdleState, Wait1, Wait2, WaitRead2, Take
  <2>4. rdySync'[1] = 1 /\ rdySync'[2] = rdySync[1] BY <1>3, <2>1
  <2>5. CASE waitrequest
    <3>1. state' = state /\ avm' = "data" /\ sample' = sample BY <2>3, <2>5, ReadByteCases
    <3>2. rx' = rx BY <1>1, <2>5, ClockCommon
    <3>3. NewBytes' = NewBytes BY <3>1 DEF NewBytes
    <3>4. NewBytes \in 0 .. 3 BY DEF NewBytes
    <3> QED BY <1>3, <2>1, <2>2, <2>4, <3>1, <3>2, <3>3, <3>4 DEF Taking
  <2>6. CASE ~waitrequest
    <3>1. /\ avm' = "data" /\ NewBytes' = NewBytes + 1 /\ NewBytes \in 0 .. 2
          /\ sample' = IF NewBytes = 0 THEN sample + 1 ELSE sample
      BY <2>3, <2>6, ReadByteCases DEF NewBytes, Take
    <3>2. rx # <<>> BY <2>1, <3>1
    <3>3. /\ rx' = Tail(rx) /\ Len(Tail(rx)) = Len(rx) - 1
          /\ \A i \in 1 .. Len(Tail(rx)) : Tail(rx)[i] = rx[i + 1]
      BY <1>1, <2>1, <2>6, <3>2, ClockCommon, ByteTaken
    <3>4. Len(rx') = 4 - NewBytes' BY <2>1, <3>1, <3>3
    <3>5. ASSUME NEW j \in 1 .. 4, j <= Len(rx') PROVE rx'[j] = <<measured', NewBytes' + j>>
      <4>1. j \in 1 .. Len(Tail(rx)) /\ j + 1 \in 1 .. 4 /\ j + 1 <= Len(rx)
        BY <1>2, <2>1, <3>1, <3>3, <3>5
      <4>2. rx[j + 1] = <<measured, NewBytes + (j + 1)>> BY <2>1, <4>1
      <4>3. NewBytes + (j + 1) = NewBytes' + j BY <3>1
      <4> QED BY <1>3, <3>3, <4>1, <4>2, <4>3
    <3>6. measured' = sample' /\ NewBytes' > 0 BY <1>3, <2>1, <3>1
    <3> QED BY <1>3, <2>1, <2>2, <2>4, <3>1, <3>4, <3>5, <3>6 DEF Taking
  <2> QED BY <2>5, <2>6
<1>6. state = "WaitRead2" \/ state \in Take
  <2>1. CASE Issue BY <2>1, IssueCases DEF Take
  <2>2. CASE IdleState \/ Wait1 \/ Wait2 BY <2>2 DEF IdleState, Wait1, Wait2, Goto, Stay, Take
  <2>3. CASE ReadByte(waitrequest) BY <2>3, ReadByteCases
  <2> QED BY <2>1, <2>2, <2>3 DEF Clock, WaitRead2
<1> QED BY <1>4, <1>5, <1>6

\* The byte a read takes belongs to the next acquisition, or to the running one.
LEMMA BytesOfClock ==
  ASSUME Inv, NEW waitrequest \in BOOLEAN, Clock(waitrequest)
  PROVE  Bytes'
<1>1. Type /\ Taking /\ Bytes BY DEF Inv
<1>2. sample \in Int /\ bytes \in [1 .. 4 -> Int \X Int] /\ measured \in Int BY <1>1 DEF Type
<1>3. CASE UNCHANGED <<bytes, time, sample>> /\ NewBytes' = NewBytes
  BY <1>1, <1>3 DEF Bytes
<1>4. CASE Issue
  <2>1. NewBytes = 0 /\ NewBytes' = 0 BY <1>4, IssueCases DEF NewBytes
  <2> QED BY <1>3, <1>4, <2>1, IssueCases
<1>5. CASE IdleState \/ Wait1 \/ Wait2 \/ WaitRead2(waitrequest)
  <2>1. NewBytes = 0 /\ NewBytes' = 0 /\ UNCHANGED <<bytes, time, sample>>
    BY <1>5 DEF IdleState, Wait1, Wait2, WaitRead2, Goto, Stay, NewBytes
  <2> QED BY <1>3, <2>1
<1>6. CASE ReadByte(waitrequest) /\ waitrequest
  <2>1. UNCHANGED <<bytes, time, sample, state>> BY <1>6, ReadByteCases
  <2> QED BY <1>3, <2>1 DEF NewBytes
<1>7. CASE ReadByte(waitrequest) /\ ~waitrequest
  <2>1. /\ NewBytes \in 0 .. 3 /\ NewBytes' = (IF NewBytes = 3 THEN 0 ELSE NewBytes + 1)
        /\ sample' = (IF NewBytes = 0 THEN sample + 1 ELSE sample)
        /\ time' = (IF NewBytes = 3 THEN sample ELSE time)
        /\ state \in Take /\ bytes' = [bytes EXCEPT ![NewBytes + 1] = Received]
    BY <1>7, ReadByteCases DEF NewBytes, Take
  <2>2. Received = <<sample', NewBytes + 1>>
    <3>1. /\ Len(rx) = 4 - NewBytes /\ measured = (IF NewBytes = 0 THEN sample + 1 ELSE sample)
          /\ \A j \in 1 .. 4 : j <= Len(rx) => rx[j] = <<measured, NewBytes + j>>
      BY <1>1, <2>1 DEF Taking
    <3>2. rx # <<>> /\ rx[1] = <<measured, NewBytes + 1>> BY <2>1, <3>1
    <3>3. Head(rx) = rx[1] BY <1>1, <3>2, ByteTaken
    <3> QED BY <2>1, <3>1, <3>2, <3>3 DEF Received
  <2>3. bytes'[NewBytes + 1] = <<sample', NewBytes + 1>> BY <1>2, <2>1, <2>2
  <2>4. \A i \in 1 .. 4 : i # NewBytes + 1 => bytes'[i] = bytes[i] BY <1>2, <2>1
  <2>5. time' = IF NewBytes' = 0 THEN sample' ELSE sample' - 1
    BY <1>1, <1>2, <2>1 DEF Bytes
  <2>6. ASSUME NEW i \in 1 .. 4
        PROVE  bytes'[i] = <<IF NewBytes' = 0 \/ i <= NewBytes' THEN sample' ELSE sample' - 1, i>>
    <3>1. CASE i = NewBytes + 1 BY <2>1, <2>3, <3>1
    <3>2. CASE i # NewBytes + 1
      <4>1. bytes'[i] = <<IF NewBytes = 0 \/ i <= NewBytes THEN sample ELSE sample - 1, i>>
        BY <1>1, <2>4, <3>2 DEF Bytes
      <4> QED BY <1>2, <2>1, <3>2, <4>1
    <3> QED BY <3>1, <3>2
  <2> QED BY <2>5, <2>6 DEF Bytes
<1> QED BY <1>4, <1>5, <1>6, <1>7 DEF Clock

-----------------------------------------------------------------------------
(* The steps of the I2C master and of the sensor leave the state machine alone. *)

LEMMA BytesOfOthers == Bytes /\ UNCHANGED regs => Bytes'
BY DEF Bytes, NewBytes, regs

LEMMA TransferCommon ==
  ASSUME Transfer
  PROVE  /\ cmds # <<>> /\ cmds' = Tail(cmds)
         /\ aborted => Head(cmds) \in Start
         /\ aborted' = FALSE
         /\ measuring' = (measuring \/ Head(cmds) = "measure")
         /\ rdy' = (IF Head(cmds) \in {"measure", "readAddress"} THEN 1 ELSE rdy)
         /\ rx' = (IF Head(cmds) = "byte" THEN Append(rx, <<measured, place>>) ELSE rx)
         /\ Head(cmds) = "byte" => place' = place + 1
         /\ Head(cmds) = "readAddress" => place' = 1
         /\ Head(cmds) \notin {"byte", "readAddress"} => place' = place
         /\ UNCHANGED <<state, read, avm, bytes, time, valid, rdySync, sample, measured>>
         /\ UNCHANGED regs
BY DEF Transfer, regs

LEMMA TransferKeeps ==
  ASSUME Inv, Transfer
  PROVE  Inv'
<1>0. Type /\ RoomInv /\ BeforeMeasure /\ Measuring /\ Fetching /\ Taking /\ Bytes BY DEF Inv
<1>1. /\ Tail(cmds) \in Seq(Command) /\ Len(Tail(cmds)) = Len(cmds) - 1
      /\ \A i \in 1 .. Len(Tail(cmds)) : Tail(cmds)[i] = cmds[i + 1]
      /\ Head(cmds) = cmds[1] /\ Head(cmds) \in Command /\ Len(cmds) \in Nat \ {0}
  BY <1>0, TransferCommon, CommandDone
<1>2. cmds' = Tail(cmds) /\ 1 \in 1 .. Len(cmds) BY <1>1, TransferCommon
<1>3. Type'
  <2>1. <<measured, place>> \in Int \X Int BY <1>0 DEF Type
  <2>2. rx' \in Seq(Int \X Int)
    <3>1. CASE Head(cmds) = "byte"
      <4>1. rx' = Append(rx, <<measured, place>>) BY <3>1, TransferCommon
      <4> QED BY <1>0, <2>1, <4>1, ByteAdded
    <3>2. CASE Head(cmds) # "byte"
      <4>1. rx' = rx BY <3>2, TransferCommon
      <4> QED BY <1>0, <4>1 DEF Type
    <3> QED BY <3>1, <3>2
  <2>3. rdy' \in {0, 1} /\ aborted' \in BOOLEAN
    <3>1. rdy' \in {1, rdy} /\ aborted' = FALSE BY TransferCommon
    <3>2. rdy \in {0, 1} BY <1>0 DEF Type
    <3> QED BY <3>1, <3>2
  <2>4. measuring' \in BOOLEAN
    <3>1. measuring \in BOOLEAN BY <1>0 DEF Type
    <3>2. CASE Head(cmds) = "measure" BY <3>2, TransferCommon
    <3>3. CASE Head(cmds) # "measure" BY <3>1, <3>3, TransferCommon
    <3> QED BY <3>2, <3>3
  <2>5. place' \in Int
    <3>1. place' \in {place, place + 1, 1} BY TransferCommon
    <3>2. place \in Int BY <1>0 DEF Type
    <3> QED BY <3>1, <3>2
  <2> QED BY <1>0, <1>1, <1>2, <2>2, <2>3, <2>4, <2>5, TransferCommon DEF Type
<1>4. RoomInv' BY <1>0, TransferCommon DEF RoomInv
<1>5. BeforeMeasure'
  <2> SUFFICES ASSUME state \in Measure PROVE BeforeMeasure' BY TransferCommon DEF BeforeMeasure
  <2>1. Head(cmds) \in {"address", "write"} BY <1>0, <1>1, <1>2 DEF BeforeMeasure
  <2>2. ~measuring' /\ rdy' = 1 /\ rx' = <<>> BY <1>0, <2>1, TransferCommon DEF BeforeMeasure
  <2>3. \A i \in 1 .. Len(cmds') : cmds'[i] \in {"address", "write"}
    BY <1>0, <1>1, <1>2 DEF BeforeMeasure
  <2> QED BY <1>0, <2>2, <2>3, TransferCommon DEF BeforeMeasure
<1>6. Measuring'
  <2> SUFFICES ASSUME state \in Wait PROVE Measuring' BY TransferCommon DEF Measuring
  <2>1. /\ rx = <<>> /\ avm \in {"none", "measure"} /\ (state = "Wait2" => avm = "none")
        /\ \A i \in 1 .. Len(cmds) :
             cmds[i] \in {"address", "write", "measure"}
               /\ (cmds[i] = "measure" => i = Len(cmds) /\ avm = "none")
        /\ measuring \/ measured = sample + 1 => avm = "none" /\ cmds = <<>>
        /\ measuring => measured = sample
        /\ measured \in {sample, sample + 1}
        /\ rdy = 0 \/ rdySync[1] = 0 \/ rdySync[2] = 0 => measured = sample + 1
    BY <1>0 DEF Measuring
  <2>2. cmds # <<>> /\ ~measuring /\ measured = sample /\ rdy = 1
    BY <1>0, <2>1, TransferCommon DEF Type
  <2>3. rx' = <<>> /\ rdy' = 1
    <3>1. Head(cmds) # "byte" BY <1>1, <1>2, <2>1
    <3> QED BY <2>1, <2>2, <3>1, TransferCommon
  <2>4. \A i \in 1 .. Len(cmds') :
          cmds'[i] \in {"address", "write", "measure"}
            /\ (cmds'[i] = "measure" => i = Len(cmds') /\ avm = "none")
    <3> SUFFICES ASSUME NEW i \in 1 .. Len(cmds')
                 PROVE  cmds'[i] \in {"address", "write", "measure"}
                          /\ (cmds'[i] = "measure" => i = Len(cmds') /\ avm = "none")
      OBVIOUS
    <3>1. cmds'[i] = cmds[i + 1] /\ i + 1 \in 1 .. Len(cmds) /\ Len(cmds') = Len(cmds) - 1
      BY <1>1, <1>2
    <3>2. /\ cmds[i + 1] \in {"address", "write", "measure"}
          /\ cmds[i + 1] = "measure" => i + 1 = Len(cmds) /\ avm = "none"
      BY <2>1, <3>1
    <3>3. Len(cmds) \in Nat BY <1>1
    <3> QED BY <3>1, <3>2, <3>3
  <2>5. measuring' => avm = "none" /\ cmds' = <<>>
    <3> SUFFICES ASSUME measuring' PROVE avm = "none" /\ cmds' = <<>> OBVIOUS
    <3>1. cmds[1] = "measure" BY <1>1, <2>2, TransferCommon
    <3>2. Len(cmds) = 1 /\ avm = "none" BY <1>2, <2>1, <3>1
    <3> QED BY <1>1, <1>2, <3>2, EmptySeq
  <2>6. measured' = sample' /\ sample' = sample /\ avm' = avm /\ state' = state
        /\ rdySync' = rdySync
    BY <2>2, TransferCommon
  <2>7. sample \in Int BY <1>0 DEF Type
  <2> QED BY <2>1, <2>2, <2>3, <2>4, <2>5, <2>6, <2>7 DEF Measuring
<1>7. Fetching'
  <2> SUFFICES ASSUME state \in Fetch PROVE Fetching' BY TransferCommon DEF Fetching
  <2>1. /\ ~measuring /\ measured = sample + 1
        /\ avm = CASE state = "RdCmd1" -> "setup" [] state = "WaitRead2" -> "level"
                   [] OTHER -> ReadCommand(Issued[state] + 1)
        /\ Len(cmds) <= Issued[state]
        /\ \A i \in 1 .. Len(cmds) : cmds[i] = ReadCommand(Done + i)
        /\ \/ rx = <<>> /\ (Done = 0 \/ aborted)
           \/ /\ Done > 0 /\ ~aborted /\ rdy = 1 /\ place = Done
              /\ Len(rx) = Done - 1 /\ \A i \in 1 .. Len(rx) : rx[i] = <<measured, i>>
    BY <1>0 DEF Fetching
  <2>2. Issued[state] \in Nat /\ Len(rx) \in Nat /\ place \in Int /\ measured \in Int
    <3>1. Issued[state] \in Nat BY DEF Fetch, Issued
    <3>2. Len(rx) \in Nat BY <1>0, Lengths
    <3> QED BY <1>0, <3>1, <3>2 DEF Type
  <2>3. Done \in Nat BY <1>1, <2>1, <2>2 DEF Done
  <2>4. Len(cmds') = Len(cmds) - 1 /\ Done' = Done + 1
    BY <1>1, <1>2, <2>2, TransferCommon DEF Done
  <2>5. Head(cmds) = ReadCommand(Done + 1) BY <1>1, <1>2, <2>1
  <2>6. \A i \in 1 .. Len(cmds') : cmds'[i] = ReadCommand(Done' + i)
    <3> SUFFICES ASSUME NEW i \in 1 .. Len(cmds') PROVE cmds'[i] = ReadCommand(Done' + i) OBVIOUS
    <3>1. cmds'[i] = cmds[i + 1] /\ i + 1 \in 1 .. Len(cmds) BY <1>1, <1>2
    <3>2. Done + (i + 1) = Done' + i BY <2>3, <2>4
    <3> QED BY <2>1, <3>1, <3>2
  <2>7. ~measuring' /\ Len(cmds') <= Issued[state] /\ ~aborted'
    <3>1. Len(cmds') <= Issued[state] BY <1>1, <2>1, <2>2, <2>4
    <3>2. Head(cmds) # "measure" BY <2>5 DEF ReadCommand
    <3> QED BY <2>1, <3>1, <3>2, TransferCommon
  <2>8. Done' > 0 /\ rdy' = 1 /\ place' = Done' /\ Len(rx') = Done' - 1
        /\ \A i \in 1 .. Len(rx') : rx'[i] = <<measured, i>>
    <3>1. CASE Done = 0
      <4>1. Head(cmds) = "readAddress" BY <2>5, <3>1 DEF ReadCommand
      <4>2. rx = <<>> BY <2>1, <3>1
      <4> QED BY <2>4, <3>1, <4>1, <4>2, TransferCommon
    <3>2. CASE Done > 0
      <4>1. Head(cmds) = "byte" BY <2>3, <2>5, <3>2 DEF ReadCommand
      <4>2. ~aborted BY <4>1, TransferCommon DEF Start
      <4>3. rdy = 1 /\ place = Done /\ Len(rx) = Done - 1
            /\ \A i \in 1 .. Len(rx) : rx[i] = <<measured, i>>
        BY <2>1, <3>2, <4>2
      <4>4. rx' = Append(rx, <<measured, place>>) /\ <<measured, place>> \in Int \X Int
        BY <2>2, <4>1, TransferCommon
      <4>5. Len(rx') = Len(rx) + 1 /\ rx'[Len(rx) + 1] = <<measured, place>>
            /\ \A i \in 1 .. Len(rx) : rx'[i] = rx[i]
        BY <1>0, <4>4, ByteAdded
      <4>6. \A i \in 1 .. Len(rx') : i \in 1 .. Len(rx) \/ i = Len(rx) + 1
        BY <2>2, <4>5
      <4>7. \A i \in 1 .. Len(rx') : rx'[i] = <<measured, i>>
        <5> SUFFICES ASSUME NEW i \in 1 .. Len(rx') PROVE rx'[i] = <<measured, i>> OBVIOUS
        <5>1. CASE i \in 1 .. Len(rx) BY <4>3, <4>5, <5>1
        <5>2. CASE i = Len(rx) + 1
          <6>1. i = place BY <2>3, <4>3, <5>2
          <6> QED BY <4>5, <5>2, <6>1
        <5> QED BY <4>6, <5>1, <5>2
      <4>8. rdy' = rdy /\ place' = place + 1 BY <4>1, TransferCommon
      <4> QED BY <2>3, <2>4, <4>3, <4>5, <4>7, <4>8
    <3> QED BY <2>3, <3>1, <3>2
  <2>9. UNCHANGED <<state, avm, sample, measured>> BY TransferCommon
  <2> QED BY <2>1, <2>6, <2>7, <2>8, <2>9 DEF Fetching
<1>8. Taking'
  <2>1. state \notin Take BY <1>0, TransferCommon DEF Taking
  <2> QED BY <2>1, TransferCommon DEF Taking
<1>9. Bytes' BY <1>0, TransferCommon, BytesOfOthers
<1> QED BY <1>3, <1>4, <1>5, <1>6, <1>7, <1>8, <1>9 DEF Inv

\* A command that has no effect on the sensor: not acknowledged, or dropped.
LEMMA LostKeeps ==
  ASSUME Inv, Nack \/ Drop
  PROVE  Inv'
<1>0. Type /\ RoomInv /\ BeforeMeasure /\ Measuring /\ Fetching /\ Taking /\ Bytes BY DEF Inv
<1>1. /\ cmds # <<>> /\ cmds' = Tail(cmds) /\ aborted' = TRUE
      /\ aborted \/ Head(cmds) # "byte"
      /\ UNCHANGED <<state, read, avm, bytes, time, valid, rdySync, sample>> /\ UNCHANGED regs
      /\ UNCHANGED <<rx, rdy, measuring, measured, place>>
  <2>1. CASE Nack BY <2>1 DEF Nack, regs, sensor
  <2>2. CASE Drop
    <3>1. aborted' = TRUE BY <1>0, <2>2 DEF Drop, Type
    <3> QED BY <2>2, <3>1 DEF Drop, regs, sensor
  <2> QED BY <2>1, <2>2
<1>2. /\ Tail(cmds) \in Seq(Command) /\ Len(Tail(cmds)) = Len(cmds) - 1
      /\ \A i \in 1 .. Len(Tail(cmds)) : Tail(cmds)[i] = cmds[i + 1]
      /\ Head(cmds) = cmds[1] /\ Len(cmds) \in Nat \ {0}
  BY <1>0, <1>1, CommandDone
<1>3. 1 \in 1 .. Len(cmds) /\ Len(cmds') = Len(cmds) - 1 BY <1>1, <1>2
<1>4. \A i \in 1 .. Len(cmds') : cmds'[i] = cmds[i + 1] /\ i + 1 \in 1 .. Len(cmds)
  BY <1>1, <1>2
<1>5. Type' BY <1>0, <1>1, <1>2 DEF Type
<1>6. RoomInv' BY <1>0, <1>1 DEF RoomInv
<1>7. BeforeMeasure'
  <2> SUFFICES ASSUME state \in Measure PROVE BeforeMeasure' BY <1>1 DEF BeforeMeasure
  <2>1. \A i \in 1 .. Len(cmds') : cmds'[i] \in {"address", "write"}
    BY <1>0, <1>4 DEF BeforeMeasure
  <2> QED BY <1>0, <1>1, <2>1 DEF BeforeMeasure
<1>8. Measuring'
  <2> SUFFICES ASSUME state \in Wait PROVE Measuring' BY <1>1 DEF Measuring
  <2>1. /\ \A i \in 1 .. Len(cmds) :
             cmds[i] \in {"address", "write", "measure"}
               /\ (cmds[i] = "measure" => i = Len(cmds) /\ avm = "none")
        /\ measuring \/ measured = sample + 1 => cmds = <<>>
        /\ rx = <<>> /\ avm \in {"none", "measure"} /\ (state = "Wait2" => avm = "none")
        /\ measured \in {sample, sample + 1}
        /\ rdy = 0 \/ rdySync[1] = 0 \/ rdySync[2] = 0 => measured = sample + 1
    BY <1>0 DEF Measuring
  <2>2. ~measuring /\ measured # sample + 1 BY <1>1, <2>1
  <2>3. \A i \in 1 .. Len(cmds') :
          cmds'[i] \in {"address", "write", "measure"}
            /\ (cmds'[i] = "measure" => i = Len(cmds') /\ avm = "none")
    <3> SUFFICES ASSUME NEW i \in 1 .. Len(cmds')
                 PROVE  cmds'[i] \in {"address", "write", "measure"}
                          /\ (cmds'[i] = "measure" => i = Len(cmds') /\ avm = "none")
      OBVIOUS
    <3>1. cmds'[i] = cmds[i + 1] /\ i + 1 \in 1 .. Len(cmds) BY <1>4
    <3>2. /\ cmds[i + 1] \in {"address", "write", "measure"}
          /\ cmds[i + 1] = "measure" => i + 1 = Len(cmds) /\ avm = "none"
      BY <2>1, <3>1
    <3>3. Len(cmds) \in Nat BY <1>2
    <3> QED BY <1>3, <3>1, <3>2, <3>3
  <2> QED BY <1>1, <2>1, <2>2, <2>3 DEF Measuring
<1>9. Fetching'
  <2> SUFFICES ASSUME state \in Fetch PROVE Fetching' BY <1>1 DEF Fetching
  <2>1. /\ ~measuring /\ measured = sample + 1
        /\ avm = CASE state = "RdCmd1" -> "setup" [] state = "WaitRead2" -> "level"
                   [] OTHER -> ReadCommand(Issued[state] + 1)
        /\ Len(cmds) <= Issued[state]
        /\ \A i \in 1 .. Len(cmds) : cmds[i] = ReadCommand(Done + i)
        /\ \/ rx = <<>> /\ (Done = 0 \/ aborted)
           \/ /\ Done > 0 /\ ~aborted /\ rdy = 1 /\ place = Done
              /\ Len(rx) = Done - 1 /\ \A i \in 1 .. Len(rx) : rx[i] = <<measured, i>>
    BY <1>0 DEF Fetching
  <2>2. Issued[state] \in Nat BY DEF Fetch, Issued
  <2>3. Done \in Nat BY <1>2, <2>1, <2>2 DEF Done
  <2>4. Len(cmds') <= Issued[state] /\ Done' = Done + 1
    BY <1>1, <1>2, <1>3, <2>1, <2>2 DEF Done
  <2>5. rx = <<>>
    <3>1. aborted \/ Done = 0
      <4>1. SUFFICES ASSUME Head(cmds) # "byte" PROVE Done = 0 BY <1>1
      <4>2. ReadCommand(Done + 1) # "byte" BY <1>2, <1>3, <2>1, <4>1
      <4>3. Done + 1 = 1 BY <4>2 DEF ReadCommand
      <4> QED BY <2>3, <4>3
    <3> QED BY <2>1, <3>1
  <2>6. \A i \in 1 .. Len(cmds') : cmds'[i] = ReadCommand(Done' + i)
    <3> SUFFICES ASSUME NEW i \in 1 .. Len(cmds') PROVE cmds'[i] = ReadCommand(Done' + i) OBVIOUS
    <3>1. Done + (i + 1) = Done' + i BY <2>3, <2>4
    <3> QED BY <1>4, <2>1, <3>1
  <2> QED BY <1>1, <2>1, <2>4, <2>5, <2>6 DEF Fetching
<1>10. Taking'
  <2>1. state \notin Take BY <1>0, <1>1 DEF Taking
  <2> QED BY <1>1, <2>1 DEF Taking
<1>11. Bytes' BY <1>0, <1>1, BytesOfOthers
<1> QED BY <1>5, <1>6, <1>7, <1>8, <1>9, <1>10, <1>11 DEF Inv

\* The sensor measures only while the state machine waits for it.
LEMMA ReadyKeeps ==
  ASSUME Inv, Ready
  PROVE  Inv'
<1>0. Type /\ RoomInv /\ BeforeMeasure /\ Measuring /\ Fetching /\ Taking /\ Bytes BY DEF Inv
<1>1. /\ measuring /\ measuring' = FALSE /\ measured' = measured + 1 /\ rdy' = 0
      /\ UNCHANGED <<state, read, avm, bytes, time, valid, rdySync, sample>> /\ UNCHANGED regs
      /\ UNCHANGED <<cmds, rx, nacks, aborted, place>>
  BY DEF Ready, regs
<1>2. state \in Wait
  BY <1>0, <1>1 DEF Type, BeforeMeasure, Fetching, Taking
<1>3. Type'
  <2>1. measured \in Int BY <1>0 DEF Type
  <2>2. measured' \in Int BY <1>1, <2>1
  <2>3. rdy' \in {0, 1} /\ measuring' \in BOOLEAN BY <1>1
  <2> QED BY <1>0, <1>1, <2>2, <2>3 DEF Type
<1>4. RoomInv' BY <1>0, <1>1 DEF RoomInv
<1>5. BeforeMeasure' BY <1>1, <1>2 DEF BeforeMeasure, Measure, Wait
<1>6. Fetching' /\ Taking' BY <1>1, <1>2 DEF Fetching, Taking, Fetch, Take, Wait
<1>7. Measuring'
  <2>1. /\ rx = <<>> /\ avm = "none" /\ cmds = <<>> /\ measured = sample
    BY <1>0, <1>1, <1>2 DEF Measuring
  <2>2. sample \in Int BY <1>0 DEF Type
  <2>3. rx' = <<>> /\ avm' = "none" /\ cmds' = <<>> /\ measured' = sample' + 1 /\ ~measuring'
    BY <1>1, <2>1
  <2>4. \A i \in 1 .. Len(cmds') : FALSE BY <2>3
  <2> QED BY <2>3, <2>4 DEF Measuring
<1>8. Bytes' BY <1>0, <1>1, BytesOfOthers
<1> QED BY <1>3, <1>4, <1>5, <1>6, <1>7, <1>8 DEF Inv

LEMMA InvStep == Inv /\ [Next]_vars => Inv'
<1> SUFFICES ASSUME Inv, [Next]_vars PROVE Inv' OBVIOUS
<1>1. CASE \E waitrequest \in BOOLEAN : Clock(waitrequest)
  <2>1. PICK waitrequest \in BOOLEAN : Clock(waitrequest) BY <1>1
  <2>2. Type /\ RoomInv /\ Bytes BY DEF Inv
  <2> QED BY <2>1, <2>2, TypeOfClock, RoomOfClock, BeforeMeasureOfClock, MeasuringOfClock,
             FetchingOfClock, TakingOfClock, BytesOfClock DEF Inv
<1>2. CASE Transfer BY <1>2, TransferKeeps
<1>3. CASE Nack \/ Drop BY <1>3, LostKeeps
<1>4. CASE Ready BY <1>4, ReadyKeeps
<1>5. CASE UNCHANGED vars
  <2>1. UNCHANGED <<state, read, avm, bytes, time, valid, rdySync, sample, cmds, rx, aborted,
                    rdy, measuring, measured, place>>
    BY <1>5 DEF vars, regs, sensor
  <2>2. Type' /\ RoomInv' BY <2>1 DEF Inv, Type, RoomInv
  <2>3. BeforeMeasure' /\ Measuring' BY <2>1 DEF Inv, BeforeMeasure, Measuring
  <2>4. Fetching' BY <2>1 DEF Inv, Fetching, Done
  <2>5. Taking' /\ Bytes' BY <2>1 DEF Inv, Taking, Bytes, NewBytes
  <2> QED BY <2>2, <2>3, <2>4, <2>5 DEF Inv
<1> QED BY <1>1, <1>2, <1>3, <1>4, <1>5 DEF Next

\* The FIFOs hold what the state says: no command is left over when a result is read,
\* and the bytes waiting are those of the last measurement, in their places.
THEOREM FifoInvariant == Spec => []Inv
BY InitInv, InvStep, PTL DEF Spec

-----------------------------------------------------------------------------
(* The refinement.                                                         *)

Acquired == <<valid, bytes, time, sample, state>>
Reading == state \in Range(Tail(ReadState))

\* After the first of the four reads the acquisition is reading the sensor.
LEMMA ReadingStates == Reading <=> NewBytes > 0
<1>1. Range(Tail(ReadState)) = {"TmpRead2", "HumRead1", "HumRead2"}
  <2> DEFINE t == Tail(ReadState)
  <2>1. Len(t) = 3 /\ t[1] = "TmpRead2" /\ t[2] = "HumRead1" /\ t[3] = "HumRead2"
        /\ DOMAIN t = 1 .. 3
    BY DEF ReadState
  <2>2. 1 .. 3 = {1, 2, 3} OBVIOUS
  <2> HIDE DEF t
  <2>3. Range(t) = {t[1], t[2], t[3]} BY <2>1, <2>2 DEF Range
  <2> QED BY <2>1, <2>3 DEF t
<1> QED BY <1>1 DEF Reading, NewBytes

\* What the data word shows.
LEMMA DataWord ==
  Type /\ Bytes => Data = IF NewBytes = 0 THEN sample ELSE Mixed
<1> SUFFICES ASSUME Type, Bytes PROVE Data = IF NewBytes = 0 THEN sample ELSE Mixed OBVIOUS
<1> DEFINE whole == {n \in 0 .. MaxSample : \A i \in 1 .. 4 : bytes[i] = <<n, i>>}
<1>1. sample \in 0 .. MaxSample /\ NewBytes \in 0 .. 3 BY DEF Type, NewBytes
<1>2. CASE NewBytes = 0
  <2>1. \A i \in 1 .. 4 : bytes[i] = <<sample, i>> BY <1>2 DEF Bytes
  <2>2. whole = {sample}
    <3>1. sample \in whole BY <1>1, <2>1
    <3>2. ASSUME NEW n \in whole PROVE n = sample
      <4>1. bytes[1] = <<n, 1>> /\ bytes[1] = <<sample, 1>> BY <2>1
      <4> QED BY <4>1
    <3> QED BY <3>1, <3>2
  <2> HIDE DEF whole
  <2>3. whole # {} /\ (CHOOSE n \in whole : TRUE) = sample BY <2>2
  <2> QED BY <1>2, <2>3 DEF Data, whole
<1>3. CASE NewBytes # 0
  <2>1. bytes[1] = <<sample, 1>> /\ bytes[4] = <<sample - 1, 4>> BY <1>1, <1>3 DEF Bytes
  <2>2. ASSUME NEW n \in whole PROVE FALSE
    <3>1. bytes[1] = <<n, 1>> /\ bytes[4] = <<n, 4>> OBVIOUS
    <3>2. n = sample /\ n = sample - 1 BY <2>1, <3>1
    <3> QED BY <1>1, <3>2
  <2>3. whole = {} BY <2>2
  <2> HIDE DEF whole
  <2> QED BY <1>3, <2>3 DEF Data, whole
<1> QED BY <1>2, <1>3

\* The three actions of SensorRegs in the words of this module.
LEMMA Triple ==
  ASSUME NEW a, NEW b, NEW f, DOMAIN f = 1 .. 3, f = [w \in 1 .. 3 |-> f[w]],
         f[1] = a, f[2] = b, f[3] = b
  PROVE  <<a, b, b>> = f
OBVIOUS

LEMMA ActsAsBegin ==
  ASSUME ~Reading, sample < MaxSample, Reading', sample' = sample + 1, valid' = FALSE,
         Data' = Mixed, time' = time
  PROVE  Regs!Begin
<1> DEFINE f == [w \in 1 .. 3 |-> IF w \in 1 .. 3 \ {2, 3} THEN Mixed ELSE <<Data, time, time>>[w]]
<1>1. DOMAIN f = 1 .. 3 /\ f[1] = Mixed /\ f[2] = time /\ f[3] = time /\ f = [w \in 1 .. 3 |-> f[w]]
  OBVIOUS
<1>2. <<Mixed, time, time>> = f
  <2> HIDE DEF f
  <2> QED BY <1>1, Triple
<1>3. <<Data, time, time>>' = f BY <1>2
<1>4. "i2c" # "spi" OBVIOUS
<1> QED BY <1>3, <1>4 DEF Reading, Regs!Begin, Regs!Word, Regs!Time, Regs!Data, Regs!Mixed, Mixed

LEMMA ActsAsEnd ==
  ASSUME Reading, ~Reading', sample \in Nat, sample' = sample, valid' = TRUE,
         Data = Mixed, Data' = sample, time' = sample
  PROVE  Regs!End
<1> DEFINE f == [w \in 1 .. 3 |-> sample]
<1>1. DOMAIN f = 1 .. 3 /\ f[1] = sample /\ f[2] = sample /\ f[3] = sample
      /\ f = [w \in 1 .. 3 |-> f[w]]
  OBVIOUS
<1>2. <<sample, sample, sample>> = f
  <2> HIDE DEF f
  <2> QED BY <1>1, Triple
<1>3. <<Data, time, time>>' = f BY <1>2
<1>4. Regs!Pending = {1}
  <2>1. Mixed # sample BY DEF Mixed
  <2>2. Regs!Data = {1} BY DEF Regs!Data, Regs!Word, Regs!Time
  <2>3. <<Data, time, time>>[1] = Mixed OBVIOUS
  <2> QED BY <2>1, <2>2, <2>3 DEF Regs!Pending
<1>5. <<Data, time, time>>[1] = Mixed OBVIOUS
<1>6. [v \in 1 .. 3 |-> IF "i2c" = "i2c" \/ v = 1 THEN sample ELSE <<Data, time, time>>[v]] = f
  OBVIOUS
<1>7. valid' = ("i2c" = "i2c") OBVIOUS
<1> HIDE DEF f
<1> QED BY <1>3, <1>4, <1>5, <1>6, <1>7 DEF Reading, Regs!End, Regs!Word, Regs!Mixed, Mixed

LEMMA ActsAsWait ==
  ASSUME valid' = ~Reading, Reading' = Reading, UNCHANGED <<sample, time, Data>>
  PROVE  Regs!Wait
BY DEF Reading, Regs!Wait

LEMMA Refines == Inv /\ Inv' /\ [Next]_vars => [Regs!Acquire]_Acquired
<1> SUFFICES ASSUME Inv, Inv', [Next]_vars PROVE [Regs!Acquire]_Acquired OBVIOUS
<1>1. Type /\ RoomInv /\ Bytes /\ Type' /\ Bytes' BY DEF Inv
<1>2. Reading \in BOOLEAN /\ (Reading <=> NewBytes > 0) BY ReadingStates DEF Reading
<1>3. Reading' \in BOOLEAN /\ (Reading' <=> NewBytes' > 0)
  <2>1. (Reading <=> NewBytes > 0)' BY ReadingStates, PTL
  <2> QED BY <2>1 DEF Reading
<1>4. Data = IF NewBytes = 0 THEN sample ELSE Mixed BY <1>1, DataWord
<1>5. Data' = IF NewBytes' = 0 THEN sample' ELSE Mixed
  <2>1. (Type /\ Bytes => Data = IF NewBytes = 0 THEN sample ELSE Mixed)' BY DataWord, PTL
  <2> QED BY <1>1, <2>1 DEF Mixed
<1>6. sample \in Nat /\ NewBytes \in 0 .. 3 BY <1>1, BoundsAssumption DEF Type, NewBytes
<1>7. CASE \E waitrequest \in BOOLEAN : Clock(waitrequest)
  <2>0. PICK waitrequest \in BOOLEAN : Clock(waitrequest) BY <1>7
  <2>1. CASE NewBytes = 0 /\ NewBytes' = 0 /\ valid' = TRUE /\ UNCHANGED <<time, sample>>
    <3>1. Reading = FALSE /\ Reading' = FALSE BY <1>2, <1>3, <2>1
    <3>2. Data' = Data BY <1>4, <1>5, <2>1
    <3> QED BY <2>1, <3>1, <3>2, ActsAsWait DEF Regs!Acquire
  <2>2. CASE NewBytes > 0 /\ NewBytes' > 0 /\ valid' = FALSE /\ UNCHANGED <<time, sample>>
    <3>1. Reading = TRUE /\ Reading' = TRUE BY <1>2, <1>3, <2>2
    <3>2. Data = Mixed /\ Data' = Mixed BY <1>4, <1>5, <1>6, <2>2
    <3> QED BY <2>2, <3>1, <3>2, ActsAsWait DEF Regs!Acquire
  <2>3. CASE Issue
    <3>1. NewBytes = 0 /\ NewBytes' = 0 BY <2>3, IssueCases DEF NewBytes
    <3> QED BY <2>1, <2>3, <3>1, IssueCases
  <2>4. CASE IdleState \/ Wait1 \/ Wait2 \/ WaitRead2(waitrequest)
    <3>1. NewBytes = 0 /\ NewBytes' = 0 /\ valid' = TRUE /\ UNCHANGED <<time, sample>>
      BY <2>4 DEF IdleState, Wait1, Wait2, WaitRead2, Goto, Stay, NewBytes
    <3> QED BY <2>1, <3>1
  <2>5. CASE ReadByte(waitrequest)
    <3>1. CASE waitrequest
      <4>1. state' = state /\ valid' = (state = "TmpRead1") /\ UNCHANGED <<time, sample>>
            /\ state \in Take
        BY <2>5, <3>1, ReadByteCases
      <4>2. NewBytes' = NewBytes BY <4>1 DEF NewBytes
      <4>3. CASE state = "TmpRead1" BY <2>1, <4>1, <4>2, <4>3 DEF NewBytes
      <4>4. CASE state # "TmpRead1"
        <5>1. valid' = FALSE BY <4>1, <4>4
        <5>2. NewBytes > 0 BY <4>1, <4>4 DEF NewBytes, Take
        <5> QED BY <2>2, <4>1, <4>2, <5>1, <5>2
      <4> QED BY <4>3, <4>4
    <3>2. CASE ~waitrequest
      <4>1. /\ valid' = (state = "HumRead2")
            /\ \/ state = "TmpRead1" /\ state' = "TmpRead2" /\ sample' = sample + 1 /\ time' = time
               \/ state = "TmpRead2" /\ state' = "HumRead1" /\ sample' = sample /\ time' = time
               \/ state = "HumRead1" /\ state' = "HumRead2" /\ sample' = sample /\ time' = time
               \/ state = "HumRead2" /\ state' = "Idle" /\ sample' = sample /\ time' = sample
        BY <2>5, <3>2, ReadByteCases
      <4>2. CASE state = "TmpRead1"
        <5>1. NewBytes = 0 /\ NewBytes' = 1 /\ valid' = FALSE /\ sample' = sample + 1 /\ time' = time
          BY <4>1, <4>2 DEF NewBytes
        <5>2. ~Reading /\ Reading' /\ Data' = Mixed BY <1>2, <1>3, <1>5, <5>1
        <5>3. sample < MaxSample BY <1>1, <4>2 DEF RoomInv
        <5> QED BY <5>1, <5>2, <5>3, ActsAsBegin DEF Regs!Acquire
      <4>3. CASE state = "HumRead2"
        <5>1. NewBytes = 3 /\ NewBytes' = 0 /\ valid' = TRUE /\ sample' = sample /\ time' = sample
          BY <4>1, <4>3 DEF NewBytes
        <5>2. Reading /\ ~Reading' /\ Data = Mixed /\ Data' = sample
          BY <1>2, <1>3, <1>4, <1>5, <5>1
        <5> QED BY <1>6, <5>1, <5>2, ActsAsEnd DEF Regs!Acquire
      <4>4. CASE state \in {"TmpRead2", "HumRead1"}
        <5>1. valid' = FALSE /\ UNCHANGED <<time, sample>> BY <4>1, <4>4
        <5>2. NewBytes > 0 /\ NewBytes' > 0 BY <4>1, <4>4 DEF NewBytes
        <5> QED BY <2>2, <5>1, <5>2
      <4> QED BY <4>1, <4>2, <4>3, <4>4
    <3> QED BY <3>1, <3>2
  <2> QED BY <2>0, <2>3, <2>4, <2>5 DEF Clock
<1>8. CASE Transfer \/ Nack \/ Drop \/ Ready \/ UNCHANGED vars
  BY <1>8 DEF Transfer, Nack, Drop, Ready, vars, regs, Acquired
<1> QED BY <1>7, <1>8 DEF Next

\* Every step of the state machine, the I2C master and the sensor is one of the
\* acquisition SensorRegs describes, or none: the bytes of a measurement come out of
\* the FIFO in their places and valid covers them, for any number of acquisitions and
\* of transfers that fail.
THEOREM AcquisitionImplemented == Spec => ImplementsAcquire
BY FifoInvariant, Refines, PTL DEF Spec, ImplementsAcquire, Acquired

=============================================================================
