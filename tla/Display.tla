------------------------------ MODULE Display ------------------------------
(***************************************************************************)
(* The seven segment display: its two writers, the driver sevensegment and *)
(* the registers of its core.                                              *)
(*                                                                         *)
(* dev_write has no lock.  It copies the caller's bytes into the buffer    *)
(* all callers share and writes the registers from there, so the steps of  *)
(* two calls interleave.  Both programs write all bytes with one call, by  *)
(* the flush of fclose; Others are partial or invalid writes of a user.    *)
(* Digits are numbered as the core does, 5 is the leftmost; a byte of the  *)
(* buffer is numbered by its offset.                                       *)
(***************************************************************************)
EXTENDS Pwm, Integers, Sequences

CONSTANTS
  Address,  \* the numbers of the IP address, as digits: a sequence, of four in the code
  Others    \* other writes: [at |-> offset, bytes |-> sequence]

ASSUME AddressAssumption ==   \* the display has room for every number
  /\ Address \in Seq(Seq(0 .. 9)) /\ Address # <<>>
  /\ \A n \in 1 .. Len(Address) : Len(Address[n]) <= 6
ASSUME OthersAssumption ==    \* the compare value of the PWM has the width of a byte
  \A c \in Others :
    /\ c.at \in Nat /\ c.bytes \in Seq(Nat)
    /\ 6 \in c.at .. c.at + Len(c.bytes) - 1 => c.bytes[7 - c.at] < Size

Writer == {"event_sensors", "show_ip", "user"}
Junk == -1        \* a digit nobody wrote
NoNumber == <<>>

VARIABLES
  present,    \* the driver is bound to the core
  buffer,     \* data_t.buffer
  bcd,        \* register: the digits
  enableReg,  \* register: one bit per digit
  pc,         \* per writer: the step of dev_write and the pair it works on
  hex,        \* per writer: the pair as read by the check
  segment,    \* the part of the address show_ip shows next
  lanesKept,  \* whether the bus keeps the lanes a byte write does not drive
  clean,      \* the call that began last has met no other one
  settled,    \* the last call ended well and met no other one
  shown       \* the number the last call was made for

driver == <<present, segment, lanesKept>>
vars == <<driver, buffer, bcd, enableReg, pc, hex, clean, settled, shown, pwm>>

Offset == 0 .. 7
Idle == <<"idle", 0>>
AllIdle == \A w \in Writer : pc[w] = Idle
Empty == [i \in Offset |-> 0]

Init ==
  /\ present = TRUE /\ segment = 0 /\ lanesKept \in BOOLEAN
  /\ buffer = Empty /\ bcd = [i \in 0 .. 5 |-> 0] /\ enableReg = 0
  /\ pc = [w \in Writer |-> Idle] /\ hex = [w \in Writer |-> <<0, 0>>]
  /\ clean = FALSE /\ settled = FALSE /\ shown = NoNumber
  /\ PwmInit

-----------------------------------------------------------------------------
(* What the programs write.                                                *)

\* The characters of the number are padded with zeros that are not enabled.
ShowFrameMirrored(number) ==  \* mutant of ShowFrame: bit 0 for the leftmost digit
  [i \in 1 .. 6 |-> IF i <= Len(number) THEN number[i] ELSE 0]
    \o <<Size - 1, 2 ^ Len(number) - 1>>

ShowFrame(number) ==
  [i \in 1 .. 6 |-> IF i <= Len(number) THEN number[i] ELSE 0]
    \o <<Size - 1, 64 - 2 ^ (6 - Len(number))>>

DimFrame(brightness) == [i \in 1 .. 6 |-> 0] \o <<brightness, 255>>

-----------------------------------------------------------------------------
(* dev_write                                                               *)

\* The copy into the buffer; bytes past its end are dropped.
Call(w, at, bytes, number) ==
  /\ present /\ pc[w] = Idle
  /\ buffer' = [i \in Offset |->
       IF i \in at .. at + Len(bytes) - 1 THEN bytes[i - at + 1] ELSE buffer[i]]
  /\ pc' = [pc EXCEPT ![w] = <<"check", 0>>]
  /\ clean' = AllIdle /\ settled' = FALSE /\ shown' = number
  /\ UNCHANGED <<present, lanesKept, bcd, enableReg, hex, pwm>>

Pair(k) == <<buffer[2 * k], buffer[2 * k + 1]>>
Valid(p) == p[1] \in 0 .. 15 /\ p[2] \in 0 .. 15

At(w, step) == pc[w][1] = step
Goto(w, step, k) == pc' = [pc EXCEPT ![w] = <<step, k>>]

CheckPairHalf(w) ==           \* mutant of CheckPair: only the first digit is checked
  /\ At(w, "check")
  /\ LET k == pc[w][2] IN
       \/ /\ Pair(k)[1] \in 0 .. 15
          /\ Goto(w, "digits", k) /\ hex' = [hex EXCEPT ![w] = Pair(k)]
       \/ /\ Pair(k)[1] \notin 0 .. 15
          /\ Goto(w, "idle", 0) /\ UNCHANGED hex
  /\ UNCHANGED <<driver, buffer, bcd, enableReg, clean, settled, shown, pwm>>

\* A digit above F ends the call; what it has written so far stays.
CheckPair(w) ==
  /\ At(w, "check")
  /\ LET k == pc[w][2] IN
       \/ Valid(Pair(k)) /\ Goto(w, "digits", k) /\ hex' = [hex EXCEPT ![w] = Pair(k)]
       \/ ~Valid(Pair(k)) /\ Goto(w, "idle", 0) /\ UNCHANGED hex
  /\ UNCHANGED <<driver, buffer, bcd, enableReg, clean, settled, shown, pwm>>

\* The pair is the one the check has read or, if the compiler reads the buffer again,
\* the one that is there now.  The core stores all lanes of the word.
WritePair(w) ==
  /\ At(w, "digits")
  /\ LET k == pc[w][2]
         lane == (6 - 2 * k - 1) \div 2
     IN  /\ \E p \in {hex[w], IF Valid(Pair(k)) THEN Pair(k) ELSE <<Junk, Junk>>} :
              bcd' = [i \in 0 .. 5 |-> CASE i = 2 * lane + 1 -> p[1]
                                         [] i = 2 * lane -> p[2]
                                         [] OTHER -> IF lanesKept THEN bcd[i] ELSE Junk]
         /\ IF k < 2 THEN Goto(w, "check", k + 1) ELSE Goto(w, "brightness", 0)
  /\ hex' = [hex EXCEPT ![w] = <<0, 0>>]
  /\ UNCHANGED <<driver, buffer, enableReg, clean, settled, shown, pwm>>

WriteBrightness(w) ==
  /\ At(w, "brightness") /\ Goto(w, "enable", 0)
  /\ SetValue(buffer[6])
  /\ UNCHANGED <<driver, buffer, bcd, enableReg, hex, clean, settled, shown>>

WriteEnableSwap(w) ==         \* mutant of WriteEnable: takes the brightness for the bits
  /\ At(w, "enable") /\ Goto(w, "idle", 0)
  /\ enableReg' = buffer[6] % 64 /\ settled' = clean
  /\ UNCHANGED <<driver, buffer, bcd, hex, clean, shown, pwm>>

WriteEnable(w) ==
  /\ At(w, "enable") /\ Goto(w, "idle", 0)
  /\ enableReg' = buffer[7] % 64 /\ settled' = clean
  /\ UNCHANGED <<driver, buffer, bcd, hex, clean, shown, pwm>>

-----------------------------------------------------------------------------
(* The programs and the reconfiguration.                                   *)

\* show_ip takes no lock.  Without the device it goes on with the next number.
ShowIp ==
  /\ pc["show_ip"] = Idle /\ segment' = (segment + 1) % Len(Address)
  /\ \/ Call("show_ip", 0, ShowFrame(Address[segment + 1]), Address[segment + 1])
     \/ ~present /\ UNCHANGED <<present, lanesKept, buffer, bcd, enableReg, pc, hex,
                                clean, settled, shown, pwm>>

Dim == \E b \in 0 .. Size - 1 :
  Call("event_sensors", 0, DimFrame(b), NoNumber) /\ UNCHANGED segment

OtherWrite == \E c \in Others :
  Call("user", c.at, c.bytes, NoNumber) /\ UNCHANGED segment

\* The overlay is removed, with the driver, while nobody is inside it ...
Remove ==
  /\ present /\ AllIdle /\ present' = FALSE /\ settled' = FALSE /\ clean' = FALSE
  /\ UNCHANGED <<segment, lanesKept, buffer, bcd, enableReg, pc, hex, shown, pwm>>

\* ... and applied again: the core is reset and dev_probe takes a zeroed data_t.
Probe ==
  /\ ~present /\ present' = TRUE
  /\ buffer' = Empty /\ bcd' = [i \in 0 .. 5 |-> 0] /\ enableReg' = 0
  /\ counter' = 0 /\ output' = FALSE /\ value' = 0 /\ age' = 0
  /\ UNCHANGED <<segment, lanesKept, pc, hex, clean, settled, shown>>

Next ==
  \/ \E w \in Writer : CheckPair(w) \/ WritePair(w) \/ WriteBrightness(w) \/ WriteEnable(w)
  \/ ShowIp \/ Dim \/ OtherWrite \/ Remove \/ Probe
  \/ Clock /\ UNCHANGED <<driver, buffer, bcd, enableReg, pc, hex, clean, settled, shown>>

Spec == Init /\ [][Next]_vars

-----------------------------------------------------------------------------
(* Properties.                                                             *)

\* After a call that met no other one the registers hold what the buffer holds,
\* whatever earlier calls left half done: brightness, enable bits and the pair written
\* last; the other two pairs only if the bus keeps their lanes.
SettledRegisters ==
  settled =>
    /\ value = buffer[6] /\ enableReg = buffer[7] % 64
    /\ \A i \in IF lanesKept THEN 0 .. 5 ELSE {0, 1} : bcd[i] = buffer[5 - i]

\* What is lit after such a call of show_ip reads, from the left, as the number.
Lit(i) == (enableReg \div 2 ^ i) % 2 = 1
ShowsNumber ==
  settled /\ lanesKept /\ shown # NoNumber =>
    \A i \in 0 .. 5 : /\ Lit(i) <=> 5 - i < Len(shown)
                      /\ Lit(i) => bcd[i] = shown[6 - i]

\* While the buffer holds a digit above F, a call that meets no other one does not get to
\* the brightness and the enable bits, and the digit does not get to the display: it takes
\* a write over it first.  Of calls that overlap this is not said: one may write past the
\* check of the other.
InvalidBlocks ==
  [][(clean /\ present) =>
       \A i \in 0 .. 5 : buffer[i] > 15 /\ buffer' = buffer =>
         /\ UNCHANGED <<value, enableReg>>
         /\ lanesKept => bcd'[5 - i] = bcd[5 - i]]_vars

=============================================================================
