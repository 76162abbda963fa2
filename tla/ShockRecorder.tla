--------------------------- MODULE ShockRecorder ---------------------------
(***************************************************************************)
(* The shock recorder of the MPU9250 core, hdl/components/mpu9250: the     *)
(* FSM that writes every sample of the sensor into a ring of RAM while the *)
(* buffer is enabled, freezes the ring Size - PreShock samples after a     *)
(* shock, raises the interrupt, and lets the bus master read the window    *)
(* back word by word from one address.                                     *)
(*                                                                         *)
(* One step is one rising edge of iClk: all registers change together.     *)
(* Where several statements of the process assign one register, the last   *)
(* one wins; the bus sections come after the FSM, so the bus wins.         *)
(*                                                                         *)
(* Abstraction.  A sample (nine values and a timestamp) is its number: 1   *)
(* for the first acquisition since reset, and so on.  A word read from the *)
(* buffer is the number of the sample it belongs to.  Whether a sample     *)
(* exceeds shockLevel is a choice, so any content of shockLevel, and any   *)
(* write to it, is covered.                                                *)
(***************************************************************************)
EXTENDS Naturals, Sequences

CONSTANTS
  Size,       \* samples the RAM holds: 1024 (ram.vhd, 10-bit addresses)
  PreShock,   \* gPreShockCount: samples kept from before the shock: 256
  Fields,     \* words of one sample behind the buffer address: 11
  BusGap,     \* idle cycles the interconnect leaves after a read
  MaxSample,  \* bound: number of samples acquired in a behaviour
  Garbage,    \* what the RAM returns when a read meets a write (DONT_CARE)
  Invalid     \* the word of an invalid read, DEADBEEF

ASSUME SizeAssumption == Size \in Nat \ {0}
ASSUME FieldsAssumption == Fields \in Nat \ {0}
\* The read FSM is reset by a sample recorded after the shock: there is one.
ASSUME PreShockAssumption == PreShock \in Nat /\ PreShock + 2 <= Size
ASSUME BusGapAssumption == BusGap \in Nat
ASSUME MaxSampleAssumption == MaxSample \in Nat
ASSUME GarbageAssumption == Garbage \notin Nat /\ Invalid \notin Nat /\ Garbage # Invalid

Address == 0 .. Size - 1
Sample  == 0 .. MaxSample       \* 0 is the content of the RAM at power-up

\* Arithmetic of the address registers, which wrap at the size of the RAM.
IncNoWrap(a) == a + 1                            \* mutant of Inc
Inc(a)      == IF a = Size - 1 THEN 0 ELSE a + 1
Back(a, n)  == IF n <= a THEN a - n ELSE a + Size - n
Ahead(a, n) == IF a + n < Size THEN a + n ELSE a + n - Size

VARIABLES
  state,      \* reg.ram.state: Idle, WaitShock or RecShock
  wState,     \* reg.ram.wState: Idle or IncAddr
  write,      \* reg.ram.ctrl.write, the write enable of the RAM
  wAddr,      \* reg.ram.ctrl.wAddr
  rAddr,      \* reg.ram.ctrl.rAddr
  rState,     \* reg.ram.rState: the word the next read delivers
  rInc,       \* reg.ram.rInc: low in the second cycle of a read
  avail,      \* reg.ram.avail
  int,        \* reg.ram.int
  intEn,      \* reg.ram.intEn
  readdata,   \* reg.readdata: a sample, or Invalid
  newData,    \* reg.newData: a sample was completed in this cycle
  shadow,     \* reg.shadowReg: number of the last sample acquired
  ram,        \* contents of the RAM
  ramOut,     \* output of the RAM array, before its output register
  ramRData,   \* output register of the RAM
  busWait     \* cycles until the master may start the next bus operation

regs == <<state, wState, write, wAddr, rAddr, rState, rInc, avail, int, intEn, readdata>>
env  == <<newData, shadow, ram, ramOut, ramRData, busWait>>

\* What the properties need to remember of the past.
VARIABLES
  armSeq,     \* last sample before the ones recorded without a gap
  shockSeq,   \* the sample that triggered the recording
  capture,    \* none, open (a shock is being recorded) or sealed (recorded)
  got         \* the words the master received from the sealed window

history == <<armSeq, shockSeq, capture, got>>
vars == <<regs, env, history>>

TypeOK ==
  /\ state \in {"Idle", "WaitShock", "RecShock"}
  /\ wState \in {"Idle", "IncAddr"}
  /\ {write, rInc, avail, int, intEn, newData} \subseteq BOOLEAN
  /\ wAddr \in Address /\ rAddr \in Address
  /\ rState \in 0 .. Fields - 1
  /\ shadow \in Sample
  /\ ram \in [Address -> Sample]
  /\ {ramOut, ramRData} \subseteq Sample \cup {Garbage}
  /\ readdata \in Sample \cup {Garbage, Invalid}
  /\ busWait \in 0 .. BusGap + 1
  /\ armSeq \in Sample /\ shockSeq \in Sample
  /\ capture \in {"none", "open", "sealed"}
  /\ got \in Seq(Sample \cup {Garbage})

-----------------------------------------------------------------------------
(* What the bus master can do in a cycle.  A read of the buffer keeps      *)
(* avs_s0_read up for two cycles (readWaitTime 1); the master takes        *)
(* readdata in the second one.  Reads of the other registers change none   *)
(* of this state.                                                          *)

Write == {"Enable", "ClearInt", "IntOn", "IntOff"}
BusOp == {"None", "ReadFirst", "ReadSecond"} \cup Write

InSecondCycle == busWait = BusGap + 1

BusMay(op) ==
  CASE op = "ReadSecond" -> InSecondCycle
    [] op = "None"       -> ~InSecondCycle
    [] OTHER             -> busWait = 0

BusNext(op) ==
  busWait' = CASE op = "ReadFirst" -> BusGap + 1
               [] busWait > 0      -> busWait - 1
               [] OTHER            -> 0

-----------------------------------------------------------------------------
(* The FSM.                                                                *)

\* A sample is written: wren is raised for the next cycle.
StartsWrite ==
  /\ newData /\ wState = "Idle"
  /\ \/ state = "WaitShock"
     \/ state = "RecShock" /\ wAddr # rAddr

DetectsAgain(loud) == state # "Idle" /\ wState = "IncAddr" /\ loud   \* mutant of Detects

\* The sample being written exceeds the threshold.
Detects(loud) == state = "WaitShock" /\ wState = "IncAddr" /\ loud

\* The ring is full up to the first sample of the window.
Completes == state = "RecShock" /\ wState = "Idle" /\ wAddr = rAddr

BufRead(op)  == op \in {"ReadFirst", "ReadSecond"}
DeliversTwice(op) == BufRead(op) /\ avail        \* mutant of Delivers: no rInc
Delivers(op) == BufRead(op) /\ avail /\ rInc
EndsSample(op) == Delivers(op) /\ rState = Fields - 1
EndsWindowLate(op) == EndsSample(op) /\ rAddr = wAddr   \* mutant of EndsWindow
EndsWindow(op) == EndsSample(op) /\ Inc(rAddr) = wAddr

NextStateRearms(op, loud) ==     \* mutant of NextState: not disabled on completion
  CASE op = "Enable"  -> "WaitShock"
    [] op # "Enable" /\ Detects(loud) -> "RecShock"
    [] op # "Enable" /\ Completes     -> "WaitShock"
    [] OTHER -> state

NextState(op, loud) ==
  CASE op = "Enable"  -> "WaitShock"
    [] op # "Enable" /\ Detects(loud) -> "RecShock"
    [] op # "Enable" /\ Completes     -> "Idle"
    [] OTHER -> state

NextRAddrEarly(op, loud) ==      \* mutant of NextRAddr: one sample too early
  CASE EndsSample(op) /\ ~EndsWindow(op) -> Inc(rAddr)
    [] Detects(loud) /\ ~(EndsSample(op) /\ ~EndsWindow(op)) -> Back(wAddr, PreShock + 1)
    [] OTHER -> rAddr

NextRAddr(op, loud) ==
  CASE EndsSample(op) /\ ~EndsWindow(op) -> Inc(rAddr)
    [] Detects(loud) /\ ~(EndsSample(op) /\ ~EndsWindow(op)) -> Back(wAddr, PreShock)
    [] OTHER -> rAddr

NextRState(op) ==
  CASE Delivers(op) -> IF rState = Fields - 1 THEN 0 ELSE rState + 1
    [] ~Delivers(op) /\ StartsWrite /\ state = "RecShock" -> 0
    [] OTHER -> rState

NextAvail(op) == IF EndsWindow(op) THEN FALSE ELSE avail \/ Completes

NextIntSetWins(op) == (op # "ClearInt" /\ int) \/ Completes   \* mutant of NextInt

NextInt(op) == op # "ClearInt" /\ (int \/ Completes)

NextIntEn(op) == IF op \in {"IntOn", "IntOff"} THEN op = "IntOn" ELSE intEn

NextWAddr == IF state # "Idle" /\ wState = "IncAddr" THEN Inc(wAddr) ELSE wAddr

Fsm(op, loud) ==
  /\ state'  = NextState(op, loud)
  /\ wState' = IF StartsWrite THEN "IncAddr" ELSE "Idle"
  /\ write'  = StartsWrite
  /\ wAddr'  = NextWAddr
  /\ rAddr'  = NextRAddr(op, loud)
  /\ rState' = NextRState(op)
  /\ rInc'   = ~Delivers(op)
  /\ avail'  = NextAvail(op)
  /\ int'    = NextInt(op)
  /\ intEn'  = NextIntEn(op)
  /\ readdata' = IF Delivers(op) THEN ramRData ELSE Invalid

-----------------------------------------------------------------------------
(* The RAM: one write port, one read port whose address and output are     *)
(* both registered.                                                        *)

Ram ==
  /\ ram' = IF write THEN [ram EXCEPT ![wAddr] = shadow] ELSE ram
  /\ ramOut' = IF write /\ wAddr = rAddr THEN Garbage ELSE ram[rAddr]
  /\ ramRData' = ramOut

(* The acquisition of a sample takes several hundred cycles (27 bytes over *)
(* a 1 MHz SPI): two pulses of newData are never within three cycles.      *)

Acquire ==
  \/ newData' = FALSE /\ UNCHANGED shadow
  \/ /\ ~newData /\ ~write
     /\ shadow < MaxSample      \* bound
     /\ newData' = TRUE /\ shadow' = shadow + 1

-----------------------------------------------------------------------------
(* The history variables.  A window is open from the shock on; it stays    *)
(* intact as long as nobody enables the buffer again or reads from it      *)
(* before the recording is complete.                                       *)

Remember(op, loud) ==
  /\ armSeq' = IF op = "Enable" /\ (state = "Idle" \/ Completes) THEN shadow ELSE armSeq
  /\ shockSeq' = IF Detects(loud) THEN shadow ELSE shockSeq
  /\ capture' =
       CASE op = "Enable" -> "none"
         [] BufRead(op) /\ (Detects(loud) \/ state = "RecShock") -> "none"
         [] op # "Enable" /\ ~BufRead(op) /\ Detects(loud) -> "open"
         [] op # "Enable" /\ ~BufRead(op) /\ Completes /\ capture = "open" -> "sealed"
         [] OTHER -> capture
  /\ got' =
       CASE capture # "sealed" \/ op = "Enable" -> << >>
         [] capture = "sealed" /\ op = "ReadSecond" /\ readdata # Invalid -> Append(got, readdata)
         [] OTHER -> got

-----------------------------------------------------------------------------
Init ==
  /\ state = "Idle" /\ wState = "Idle" /\ write = FALSE
  /\ wAddr = 0 /\ rAddr = 0 /\ rState = 0 /\ rInc = TRUE
  /\ avail = FALSE /\ int = FALSE /\ intEn = FALSE
  /\ readdata = Invalid
  /\ newData = FALSE /\ shadow = 0
  /\ ram = [a \in Address |-> 0] /\ ramOut = 0 /\ ramRData = 0
  /\ busWait = 0
  /\ armSeq = 0 /\ shockSeq = 0 /\ capture = "none" /\ got = << >>

Cycle(op, loud) ==
  /\ BusMay(op) /\ BusNext(op)
  /\ Fsm(op, loud) /\ Ram /\ Acquire
  /\ Remember(op, loud)

Quiet       == \E loud \in BOOLEAN : Cycle("None", loud)
ReadWord    == \E loud \in BOOLEAN, op \in {"ReadFirst", "ReadSecond"} : Cycle(op, loud)
Enable      == \E loud \in BOOLEAN : Cycle("Enable", loud)
ClearInt    == \E loud \in BOOLEAN : Cycle("ClearInt", loud)
SwitchIntEn == \E loud \in BOOLEAN, op \in {"IntOn", "IntOff"} : Cycle(op, loud)

Next == Quiet \/ ReadWord \/ Enable \/ ClearInt \/ SwitchIntEn

Spec == Init /\ [][Next]_vars

-----------------------------------------------------------------------------
(* Properties.                                                             *)

\* The write enable of the RAM is up exactly in the cycle in which the address
\* is about to advance, and never while the recorder is idle.
WriteDiscipline ==
  /\ write <=> wState = "IncAddr"
  /\ state = "Idle" => wState = "Idle"

\* The sample at distance k from the start of the window.
WindowSlot(k) == ram[Ahead(wAddr, k)]

\* A sealed window holds Size samples around the shock, PreShock of them from
\* before it, without a gap: only what lies before the enabling of the buffer
\* can be older content of the RAM.
RecordedWindow ==
  capture = "sealed" =>
    \A k \in 0 .. Size - 1 :
      shockSeq + k > armSeq + PreShock => WindowSlot(k) + PreShock = shockSeq + k

\* Words of a sealed window that left the recorder, with the one a read in its
\* second cycle is about to take.
Taken == Len(got) + (IF InSecondCycle /\ readdata # Invalid THEN 1 ELSE 0)

\* The master gets the words of a sealed window in order, all words of one
\* sample from that sample: none twice, none skipped, none from the sample
\* the pipeline of the RAM still holds.
ReadInOrder ==
  capture = "sealed" =>
    \A i \in 1 .. Len(got) : got[i] = WindowSlot((i - 1) \div Fields)

\* The data available bit of a sealed window falls with its last word, not
\* before and not after.
AvailUntilRead ==
  capture = "sealed" => (avail <=> Taken < Size * Fields)

\* "disabled internally on every interrupt to keep the data valid": between
\* the interrupt and the next enabling nothing is written to the RAM.
KeptUntilEnabled ==
  [][capture = "sealed" /\ capture' = "sealed" => UNCHANGED <<ram, wAddr>>]_vars

=============================================================================
