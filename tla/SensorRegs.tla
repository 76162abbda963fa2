----------------------------- MODULE SensorRegs -----------------------------
(***************************************************************************)
(* The sensor registers of the MPU9250, HDC1000 and APDS9301 cores.        *)
(*                                                                         *)
(* An acquisition fills the shadow registers piece by piece and keeps      *)
(* valid low meanwhile.  The registers the bus reads are loaded from the   *)
(* shadow registers in every cycle in which valid is high and lock is low. *)
(* Reading any word of the set raises lock, reading the last one, the      *)
(* upper word of the timestamp, lowers it.                                 *)
(*                                                                         *)
(* One step is one rising edge of iClk.  A value is the number of the      *)
(* acquisition it belongs to, or Mixed when its bytes belong to two.       *)
(***************************************************************************)
EXTENDS Integers, Sequences

CONSTANTS
  Words,      \* words of a set: data words, then two words of the timestamp
  Kind,       \* "spi" for the MPU9250, "i2c" for the HDC1000 and the APDS9301
  Reader,     \* callers that read the set word by word through a driver
  MaxSample   \* bound: acquisitions in a behaviour

ASSUME WordsAssumption == Words \in Nat /\ Words >= 3
ASSUME KindAssumption == Kind \in {"spi", "i2c"} /\ (Kind = "i2c" => Words = 3)
ASSUME MaxSampleAssumption == MaxSample \in Nat

Word  == 1 .. Words
Time  == {Words - 1, Words}            \* lower and upper word of the timestamp
Data  == Word \ Time
Mixed == -1
Value == Mixed .. MaxSample            \* 0 after reset

VARIABLES
  lock,       \* reg.lock
  valid,      \* reg.valid
  reg,        \* reg.reg, what the bus reads
  shadow,     \* reg.shadowReg
  reading,    \* the acquisition is reading the sensor
  sample,     \* number of the last acquisition begun
  readdata,   \* reg.readdata
  bus,        \* the reader whose read is in its second cycle, if any
  got,        \* per reader: the words received of the current set
  disturbed,  \* per reader: another one ended its set in the meantime
  raced       \* per reader: its set began in the cycle that loads new values

core == <<lock, valid, reg, shadow, reading, sample, readdata>>
vars == <<core, bus, got, disturbed, raced>>

TypeOK ==
  /\ {lock, valid, reading} \subseteq BOOLEAN
  /\ reg \in [Word -> Value] /\ shadow \in [Word -> Value]
  /\ sample \in 0 .. MaxSample
  /\ readdata \in Value
  /\ bus \in {{}} \cup {{r} : r \in Reader}
  /\ got \in [Reader -> Seq(Value)] /\ \A r \in Reader : Len(got[r]) <= Words
  /\ disturbed \in [Reader -> BOOLEAN] /\ raced \in [Reader -> BOOLEAN]

-----------------------------------------------------------------------------
(* The acquisition.                                                        *)

\* The sensor has new data.  The MPU9250 core takes the time first, the others
\* receive the first byte of a data word.
Begin ==
  /\ ~reading /\ sample < MaxSample
  /\ reading' = TRUE /\ sample' = sample + 1 /\ valid' = FALSE
  /\ shadow' = CASE Kind = "spi" -> [w \in Word |-> IF w \in Time THEN sample' ELSE shadow[w]]
                 [] Kind = "i2c" -> [w \in Word |-> IF w \in Data THEN Mixed ELSE shadow[w]]

\* The data words still to come: over SPI in their order, over I2C all in one.
Pending == {w \in Data : shadow[w] # sample}

\* A byte that does not end the acquisition: the first one of a word, or the
\* second one of a word that is not the last.
Byte ==
  /\ reading /\ Kind = "spi"
  /\ \E w \in Pending :
       /\ \A v \in Pending : w <= v
       /\ shadow[w] = Mixed => Pending # {w}
       /\ shadow' = [shadow EXCEPT ![w] = IF @ = Mixed THEN sample ELSE Mixed]
  /\ valid' = FALSE
  /\ UNCHANGED <<reading, sample>>

\* The last byte.  The MPU9250 core leaves valid low for one cycle more (newData);
\* the others take the time now and raise valid in the same cycle.
End ==
  /\ reading
  /\ \E w \in Pending :
       /\ Pending = {w} /\ shadow[w] = Mixed
       /\ shadow' = [v \in Word |-> IF Kind = "i2c" \/ v = w THEN sample ELSE shadow[v]]
  /\ reading' = FALSE /\ UNCHANGED sample
  /\ valid' = (Kind = "i2c")

WaitValid ==                     \* mutant of Wait: valid keeps its default
  /\ valid' = TRUE
  /\ UNCHANGED <<reading, sample, shadow>>

Wait ==
  /\ valid' = ~reading
  /\ UNCHANGED <<reading, sample, shadow>>

Acquire == Begin \/ Byte \/ End \/ Wait

Loads == ~lock /\ valid
Load == reg' = IF Loads THEN shadow ELSE reg

-----------------------------------------------------------------------------
(* The bus.  A read lasts two cycles (readWaitTime 1); the register read   *)
(* in the first one is what the master receives in the second one.         *)

Position(r) == IF Len(got[r]) = Words THEN 1 ELSE Len(got[r]) + 1
InSet(r) == Len(got[r]) \in 1 .. Words - 1 \/ r \in bus

AccessKeepsLock(r) ==            \* mutant of Access: nothing lowers lock
  /\ readdata' = reg[Position(r)]
  /\ lock' = TRUE

AccessUnlocksEarly(r) ==         \* mutant of Access: the lower word lowers lock
  /\ readdata' = reg[Position(r)]
  /\ lock' = (Position(r) \in Data)

\* Both cycles of a read assign readdata and lock.
Access(r) ==
  /\ readdata' = reg[Position(r)]
  /\ lock' = (Position(r) # Words)

ReadFirstNoReset(r) ==           \* mutant of ReadFirst: sets are not separated
  /\ bus = {} /\ bus' = {r}
  /\ Access(r)
  /\ UNCHANGED <<got, disturbed, raced>>

ReadFirst(r) ==
  /\ bus = {} /\ bus' = {r}
  /\ Access(r)
  /\ got' = [got EXCEPT ![r] = IF Position(r) = 1 THEN << >> ELSE got[r]]
  /\ disturbed' = [q \in Reader |->
                     IF q = r THEN Position(r) # 1 /\ disturbed[r]
                     ELSE disturbed[q] \/ (Position(r) = Words /\ InSet(q))]
  /\ raced' = [raced EXCEPT ![r] = IF Position(r) = 1 THEN Loads /\ shadow # reg ELSE raced[r]]

ReadSecond(r) ==
  /\ bus = {r} /\ bus' = {}
  /\ Access(r)
  /\ got' = [got EXCEPT ![r] = Append(got[r], readdata)]
  /\ UNCHANGED <<disturbed, raced>>

NoAccess ==
  /\ bus = {}
  /\ readdata' = 0 /\ UNCHANGED <<lock, bus, got, disturbed, raced>>

Read(r) == ReadFirst(r) \/ ReadSecond(r)

-----------------------------------------------------------------------------
Init ==
  /\ lock = FALSE /\ valid = FALSE /\ reading = FALSE
  /\ reg = [w \in Word |-> 0] /\ shadow = [w \in Word |-> 0]
  /\ sample = 0 /\ readdata = 0 /\ bus = {}
  /\ got = [r \in Reader |-> << >>]
  /\ disturbed = [r \in Reader |-> FALSE] /\ raced = [r \in Reader |-> FALSE]

Idle     == NoAccess /\ Acquire /\ Load
BusRead  == (\E r \in Reader : Read(r)) /\ Acquire /\ Load

Next == Idle \/ BusRead

Spec == Init /\ [][Next]_vars

-----------------------------------------------------------------------------
(* Properties.                                                             *)

\* What the registers show is always one whole acquisition: never a word whose
\* bytes belong to two, never data with another acquisition's timestamp.
WholeRegisters ==
  \E n \in 0 .. MaxSample : \A w \in Word : reg[w] = n

\* A set of words read through a driver belongs to one acquisition, unless
\* another reader ended its own set in between.  The first word can be older if it
\* was read in the very cycle that loads a new acquisition: lock comes one
\* cycle too late for it.
OneAcquisition ==
  \A r \in Reader : ~disturbed[r] =>
    /\ \A i \in 2 .. Len(got[r]) : got[r][i] = got[r][Len(got[r])]
    /\ Len(got[r]) > 1 => got[r][1] <= got[r][2]
    /\ ~raced[r] /\ Len(got[r]) > 1 => got[r][1] = got[r][2]

\* The registers are locked only while somebody is reading a set: no order of
\* readers leaves them locked and the values frozen.
LockedOnlyInSet ==
  lock => \E r \in Reader : InSet(r)

=============================================================================
