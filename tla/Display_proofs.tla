--------------------------- MODULE Display_proofs ---------------------------
(***************************************************************************)
(* The PWM controller for every width of its counter, and the display for  *)
(* every address and any other writes of a user.  A call that met no other *)
(* one is the only one inside the driver, so the buffer it writes from     *)
(* stays as it is: what it has passed is valid and, as far as the bus      *)
(* keeps it, in the registers.                                             *)
(***************************************************************************)
EXTENDS Display, SequenceTheorems, TLAPS

-----------------------------------------------------------------------------
(* The PWM controller: the output is known as soon as the edge that        *)
(* decides it, the last wrap or the last match, is younger than the last   *)
(* change of the input.                                                    *)

\* Since the wrap: on, if the input has not changed since.
OnSinceWrap == counter <= value /\ age > counter => output
\* Since the match: off, if the input has not changed since.
OffSinceMatch == counter > value /\ age >= counter - value => ~output

PwmInv == PwmTypeOK /\ OnSinceWrap /\ OffSinceMatch

LEMMA PwmInvInit == PwmInit => PwmInv
<1> SUFFICES ASSUME PwmInit PROVE PwmInv OBVIOUS
<1>1. 0 \in 0 .. Size - 1 /\ 0 \in 0 .. Size BY SizeAssumption
<1>2. PwmTypeOK BY <1>1 DEF PwmInit, PwmTypeOK
<1>3. counter = 0 /\ value = 0 /\ age = 0 BY DEF PwmInit
<1>4. OnSinceWrap /\ OffSinceMatch BY <1>3 DEF OnSinceWrap, OffSinceMatch
<1> QED BY <1>2, <1>4 DEF PwmInv

LEMMA PwmInvStep == PwmInv /\ [PwmNext]_pwm => PwmInv'
<1> SUFFICES ASSUME PwmInv, [PwmNext]_pwm PROVE PwmInv' OBVIOUS
<1> USE SizeAssumption DEF PwmInv, PwmTypeOK, OnSinceWrap, OffSinceMatch
<1>1. CASE UNCHANGED pwm BY <1>1 DEF pwm
<1>2. ASSUME NEW v \in 0 .. Size - 1, SetValue(v) PROVE PwmInv'
  <2>1. CASE v = value BY <1>2, <2>1 DEF SetValue
  <2>2. CASE v # value
    <3>1. age' = 0 /\ value' = v /\ counter' = counter /\ output' = output
      BY <1>2, <2>2 DEF SetValue
    <3> QED BY <3>1
  <2> QED BY <2>1, <2>2
<1>3. CASE Clock
  <2>1. CASE counter = Size - 1
    <3>1. counter' = 0 /\ output' = TRUE /\ value' = value BY <1>3, <2>1 DEF Clock
    <3>2. age' \in 0 .. Size BY <1>3 DEF Clock
    <3> QED BY <3>1, <3>2
  <2>2. CASE counter # Size - 1
    <3>1. counter' = counter + 1 /\ value' = value /\ counter' \in 0 .. Size - 1
      BY <1>3, <2>2 DEF Clock
    <3>2. age' \in 0 .. Size /\ (age' = age + 1 \/ (age' = Size /\ age = Size))
      BY <1>3 DEF Clock
    <3>3. output' = (output /\ counter # value) BY <1>3, <2>2 DEF Clock
    <3>4. OnSinceWrap'
      <4>1. SUFFICES ASSUME counter' <= value', age' > counter' PROVE output'
        OBVIOUS
      <4>2. counter <= value /\ age > counter /\ counter # value BY <3>1, <3>2, <4>1
      <4> QED BY <3>3, <4>2
    <3>5. OffSinceMatch'
      <4>1. SUFFICES ASSUME counter' > value', age' >= counter' - value' PROVE ~output'
        OBVIOUS
      <4>2. CASE counter = value BY <3>3, <4>2
      <4>3. CASE counter # value
        <5>1. counter > value /\ age >= counter - value BY <3>1, <3>2, <4>1, <4>3
        <5> QED BY <3>3, <5>1
      <4> QED BY <4>2, <4>3
    <3>6. output' \in BOOLEAN BY <3>3
    <3> QED BY <3>1, <3>2, <3>4, <3>5, <3>6
  <2> QED BY <2>1, <2>2
<1> QED BY <1>1, <1>2, <1>3 DEF PwmNext

LEMMA SettledFromInv == PwmInv => SettledDuty
<1> SUFFICES ASSUME PwmInv, age = Size PROVE output <=> counter <= value
  BY DEF SettledDuty
<1> USE SizeAssumption DEF PwmInv, PwmTypeOK, OnSinceWrap, OffSinceMatch
<1>1. CASE counter <= value
  <2>1. age > counter OBVIOUS
  <2> QED BY <1>1, <2>1
<1>2. CASE counter > value
  <2>1. age >= counter - value OBVIOUS
  <2>2. ~(counter <= value) BY <1>2
  <2> QED BY <1>2, <2>1, <2>2
<1>3. counter <= value \/ counter > value OBVIOUS
<1> QED BY <1>1, <1>2, <1>3

\* Whatever the width of the counter, the settled output is on for value + 1 of the
\* cycles of a period: never off altogether, and at the largest value always on.
THEOREM DutyCycle == PwmSpec => []SettledDuty
BY PwmInvInit, PwmInvStep, SettledFromInv, PTL DEF PwmSpec

-----------------------------------------------------------------------------
(* The driver.                                                             *)

Step == {Idle, <<"brightness", 0>>, <<"enable", 0>>} \cup ({"check", "digits"} \X (0 .. 2))
Number == {n \in Seq(0 .. 9) : Len(n) <= 6}

TypeInv ==
  /\ present \in BOOLEAN /\ lanesKept \in BOOLEAN
  /\ segment \in 0 .. Len(Address) - 1
  /\ buffer \in [Offset -> Nat] /\ buffer[6] \in 0 .. Size - 1
  /\ bcd \in [0 .. 5 -> Int] /\ enableReg \in Nat
  /\ pc \in [Writer -> Step] /\ hex \in [Writer -> Nat \X Nat]
  /\ clean \in BOOLEAN /\ settled \in BOOLEAN /\ shown \in Number

\* A call that met no other one is alone, and no call survives the removal.
AloneInv ==
  /\ clean => \A w, u \in Writer : pc[w] # Idle /\ pc[u] # Idle => w = u
  /\ settled => clean /\ AllIdle
  /\ ~present => ~clean /\ AllIdle

\* The pairs a call has written.
Passed(w) == IF At(w, "check") \/ At(w, "digits") THEN pc[w][2] ELSE 3

\* The bus keeps what earlier writes of this call put there, or only the last of it.
InRegisters(k) == bcd[5 - 2 * k] = buffer[2 * k] /\ bcd[4 - 2 * k] = buffer[2 * k + 1]

\* The pairs it has passed are valid and stand in the registers, and the pair it has
\* checked is still the one in the buffer.
WrittenBy(w) ==
  /\ \A k \in 0 .. 2 : k < Passed(w) =>
       Valid(Pair(k)) /\ (lanesKept \/ k = Passed(w) - 1 => InRegisters(k))
  /\ At(w, "digits") => Valid(Pair(pc[w][2])) /\ hex[w] = Pair(pc[w][2])
  /\ At(w, "enable") => value = buffer[6]

WrittenInv == clean => \A w \in Writer : pc[w] # Idle => WrittenBy(w)

\* The buffer holds the frame of the number it was written for.
FrameInv ==
  clean /\ shown # NoNumber => \A i \in Offset : buffer[i] = ShowFrame(shown)[i + 1]

Inv == TypeInv /\ PwmInv /\ AloneInv /\ WrittenInv /\ FrameInv /\ SettledRegisters

LEMMA SixAndTwo ==
  ASSUME NEW s \in Seq(Nat), NEW t \in Seq(Nat), Len(s) = 6, Len(t) = 2
  PROVE  /\ Len(s \o t) = 8
         /\ s \o t \in Seq(Nat)
         /\ \A i \in 1 .. 6 : (s \o t)[i] = s[i]
         /\ (s \o t)[7] = t[1] /\ (s \o t)[8] = t[2]
<1>1. s \o t \in Seq(Nat) BY ConcatProperties
<1>2. Len(s \o t) = Len(s) + Len(t) BY ConcatProperties
<1>3. \A i \in 1 .. Len(s) + Len(t) : (s \o t)[i] = IF i <= Len(s) THEN s[i] ELSE t[i - Len(s)]
  BY ConcatProperties
<1>4. \A i \in 1 .. 6 : (s \o t)[i] = s[i]
  <2> TAKE i \in 1 .. 6
  <2>1. i \in 1 .. Len(s) + Len(t) OBVIOUS
  <2>2. (s \o t)[i] = IF i <= Len(s) THEN s[i] ELSE t[i - Len(s)] BY <2>1, <1>3
  <2>3. i <= Len(s) OBVIOUS
  <2> QED BY <2>2, <2>3
<1>5. (s \o t)[7] = t[1]
  <2>1. 7 \in 1 .. Len(s) + Len(t) OBVIOUS
  <2>2. ~(7 <= Len(s)) /\ 7 - Len(s) = 1 OBVIOUS
  <2> QED BY <2>1, <2>2, <1>3
<1>6. (s \o t)[8] = t[2]
  <2>1. 8 \in 1 .. Len(s) + Len(t) OBVIOUS
  <2>2. ~(8 <= Len(s)) /\ 8 - Len(s) = 2 OBVIOUS
  <2> QED BY <2>1, <2>2, <1>3
<1>7. Len(s \o t) = 8 BY <1>2
<1> QED BY <1>1, <1>7, <1>4, <1>5, <1>6

LEMMA SevenPowers ==
  ASSUME NEW l \in 0 .. 6
  PROVE  2 ^ (6 - l) \in {1, 2, 4, 8, 16, 32, 64}
<1>1. l = 0 => 2 ^ (6 - l) = 64 OBVIOUS
<1>2. l = 1 => 2 ^ (6 - l) = 32 OBVIOUS
<1>3. l = 2 => 2 ^ (6 - l) = 16 OBVIOUS
<1>4. l = 3 => 2 ^ (6 - l) = 8 OBVIOUS
<1>5. l = 4 => 2 ^ (6 - l) = 4 OBVIOUS
<1>6. l = 5 => 2 ^ (6 - l) = 2 OBVIOUS
<1>7. l = 6 => 2 ^ (6 - l) = 1 OBVIOUS
<1> DEFINE p == 2 ^ (6 - l)
<1> HIDE DEF p
<1>8. p \in {1, 2, 4, 8, 16, 32, 64}
  BY <1>1, <1>2, <1>3, <1>4, <1>5, <1>6, <1>7 DEF p
<1> QED BY <1>8 DEF p

LEMMA FrameOfNumber ==
  ASSUME NEW n \in Number
  PROVE  /\ ShowFrame(n) \in Seq(Nat) /\ Len(ShowFrame(n)) = 8
         /\ \A i \in 1 .. 6 : i <= Len(n) => ShowFrame(n)[i] = n[i]
         /\ ShowFrame(n)[7] = Size - 1 /\ ShowFrame(n)[8] = 64 - 2 ^ (6 - Len(n))
         /\ Len(n) \in 0 .. 6
<1> DEFINE digits == [i \in 1 .. 6 |-> IF i <= Len(n) THEN n[i] ELSE 0]
           rest == <<Size - 1, 64 - 2 ^ (6 - Len(n))>>
<1>1. Len(n) \in 0 .. 6 /\ \A i \in 1 .. Len(n) : n[i] \in Nat
  <2>1. n \in Seq(0 .. 9) BY DEF Number
  <2>2. Len(n) \in Nat /\ Len(n) <= 6 BY <2>1 DEF Number
  <2>3. \A l \in Nat : l <= 6 => l \in 0 .. 6 OBVIOUS
  <2>4. Len(n) \in 0 .. 6 BY <2>2, <2>3
  <2>5. \A i \in 1 .. Len(n) : n[i] \in 0 .. 9 BY <2>1
  <2> QED BY <2>4, <2>5
<1>2. digits \in Seq(Nat) /\ Len(digits) = 6
  <2>1. \A i \in 1 .. 6 : digits[i] \in Nat BY <1>1
  <2>2. digits \in [1 .. 6 -> Nat] BY <2>1
  <2> QED BY <2>2
<1>3. 2 ^ (6 - Len(n)) \in {1, 2, 4, 8, 16, 32, 64} BY <1>1, SevenPowers
<1>4. rest \in Seq(Nat) /\ Len(rest) = 2 BY <1>3, SizeAssumption
<1>5. ShowFrame(n) = digits \o rest BY DEF ShowFrame
<1>6. \A i \in 1 .. 6 : i <= Len(n) => digits[i] = n[i] OBVIOUS
<1>7. rest[1] = Size - 1 /\ rest[2] = 64 - 2 ^ (6 - Len(n)) OBVIOUS
<1> HIDE DEF digits, rest
<1>8. /\ Len(digits \o rest) = 8 /\ digits \o rest \in Seq(Nat)
      /\ \A i \in 1 .. 6 : (digits \o rest)[i] = digits[i]
      /\ (digits \o rest)[7] = rest[1] /\ (digits \o rest)[8] = rest[2]
  BY <1>2, <1>4, SixAndTwo
<1> QED BY <1>1, <1>5, <1>6, <1>7, <1>8

LEMMA BitsOfByte ==
  ASSUME NEW e \in Nat, NEW l \in 0 .. 6, NEW i \in 0 .. 5,
         /\ (l = 0 => e = 0) /\ (l = 1 => e = 32) /\ (l = 2 => e = 48) /\ (l = 3 => e = 56)
         /\ (l = 4 => e = 60) /\ (l = 5 => e = 62) /\ (l = 6 => e = 63)
  PROVE  (e \div 2 ^ i) % 2 = 1 <=> 5 - i < l
<1>2. CASE i = 0 BY <1>2
<1>3. CASE i = 1 BY <1>3
<1>4. CASE i = 2 BY <1>4
<1>5. CASE i = 3 BY <1>5
<1>6. CASE i = 4 BY <1>6
<1>7. CASE i = 5 BY <1>7
<1> QED BY <1>2, <1>3, <1>4, <1>5, <1>6, <1>7

\* The enable bits of the frame: from the left, one for each digit of the number.
LEMMA EnableBits ==
  ASSUME NEW l \in 0 .. 6, NEW i \in 0 .. 5
  PROVE  ((((64 - 2 ^ (6 - l)) % 64) \div 2 ^ i) % 2 = 1) <=> 5 - i < l
<1> DEFINE e == (64 - 2 ^ (6 - l)) % 64
<1>1. /\ (l = 0 => e = 0) /\ (l = 1 => e = 32) /\ (l = 2 => e = 48) /\ (l = 3 => e = 56)
      /\ (l = 4 => e = 60) /\ (l = 5 => e = 62) /\ (l = 6 => e = 63)
  <2>1. l = 0 => e = 0 OBVIOUS
  <2>2. l = 1 => e = 32 OBVIOUS
  <2>3. l = 2 => e = 48 OBVIOUS
  <2>4. l = 3 => e = 56 OBVIOUS
  <2>5. l = 4 => e = 60 OBVIOUS
  <2>6. l = 5 => e = 62 OBVIOUS
  <2>7. l = 6 => e = 63 OBVIOUS
  <2> HIDE DEF e
  <2> QED BY <2>1, <2>2, <2>3, <2>4, <2>5, <2>6, <2>7
<1>2. e \in {0, 32, 48, 56, 60, 62, 63} BY <1>1
<1> HIDE DEF e
<1>3. e \in Nat BY <1>2
<1>4. (e \div 2 ^ i) % 2 = 1 <=> 5 - i < l BY <1>1, <1>3, BitsOfByte
<1> QED BY <1>4 DEF e

LEMMA NumberOfAddress ==
  ASSUME NEW n \in 0 .. Len(Address) - 1
  PROVE  /\ Address[n + 1] \in Number
         /\ (n + 1) % Len(Address) \in 0 .. Len(Address) - 1
<1>1. Len(Address) \in Nat \ {0} BY AddressAssumption
<1>2. n + 1 \in 1 .. Len(Address) BY <1>1
<1> QED BY <1>1, <1>2, AddressAssumption DEF Number

LEMMA InvInit == Init => Inv
<1> SUFFICES ASSUME Init PROVE Inv OBVIOUS
<1>1. TypeInv
  <2>1. Len(Address) \in Nat \ {0} BY AddressAssumption
  <2>2. buffer \in [Offset -> Nat] /\ buffer[6] \in 0 .. Size - 1
    BY SizeAssumption DEF Init, Empty, Offset
  <2>3. pc \in [Writer -> Step] /\ hex \in [Writer -> Nat \X Nat] BY DEF Init, Step
  <2>4. shown \in Number BY DEF Init, NoNumber, Number
  <2>5. bcd \in [0 .. 5 -> Int] BY DEF Init
  <2>6. present \in BOOLEAN /\ lanesKept \in BOOLEAN /\ clean \in BOOLEAN /\ settled \in BOOLEAN
    BY DEF Init
  <2>7. segment \in 0 .. Len(Address) - 1 /\ enableReg \in Nat BY <2>1 DEF Init
  <2> QED BY <2>2, <2>3, <2>4, <2>5, <2>6, <2>7 DEF TypeInv
<1>2. PwmInv BY PwmInvInit DEF Init
<1>3. AloneInv /\ WrittenInv /\ FrameInv /\ SettledRegisters
  BY DEF Init, AloneInv, AllIdle, WrittenInv, FrameInv, SettledRegisters
<1> QED BY <1>1, <1>2, <1>3 DEF Inv

\* A call of one of the programs or of a user, with what its bytes are.
AnyCall ==
  \E w \in Writer, at \in Nat, bytes \in Seq(Nat), number \in Number :
    /\ Call(w, at, bytes, number)
    /\ segment' \in 0 .. Len(Address) - 1
    /\ 6 \in at .. at + Len(bytes) - 1 => bytes[7 - at] < Size
    /\ number # NoNumber => at = 0 /\ bytes = ShowFrame(number)

\* A step that leaves the driver alone.
Quiet ==
  /\ UNCHANGED <<present, lanesKept, buffer, bcd, enableReg, pc, hex, clean, settled, shown>>
  /\ segment' \in 0 .. Len(Address) - 1
  /\ Clock \/ UNCHANGED pwm

LEMMA DimIsCall == TypeInv /\ Dim => AnyCall
<1> SUFFICES ASSUME TypeInv, NEW b \in 0 .. Size - 1,
                    Call("event_sensors", 0, DimFrame(b), NoNumber), UNCHANGED segment
             PROVE  AnyCall
  BY DEF Dim
<1> DEFINE zeros == [i \in 1 .. 6 |-> 0]
           rest == <<b, 255>>
<1>1. zeros \in Seq(Nat) /\ Len(zeros) = 6
  <2>1. zeros \in [1 .. 6 -> Nat] OBVIOUS
  <2> QED BY <2>1
<1>2. rest \in Seq(Nat) /\ Len(rest) = 2 /\ rest[1] = b BY SizeAssumption
<1>3. DimFrame(b) = zeros \o rest BY DEF DimFrame
<1> HIDE DEF zeros, rest
<1>4. DimFrame(b) \in Seq(Nat) /\ DimFrame(b)[7] = b
  <2>1. zeros \o rest \in Seq(Nat) /\ (zeros \o rest)[7] = rest[1] BY <1>1, <1>2, SixAndTwo
  <2> QED BY <1>2, <1>3, <2>1
<1>5. NoNumber \in Number BY DEF NoNumber, Number
<1>6. segment' \in 0 .. Len(Address) - 1 BY DEF TypeInv
<1>7. DimFrame(b)[7 - 0] < Size BY <1>4, SizeAssumption
<1>8. "event_sensors" \in Writer /\ 0 \in Nat BY DEF Writer
<1> QED BY <1>4, <1>5, <1>6, <1>7, <1>8 DEF AnyCall

LEMMA OtherIsCall == TypeInv /\ OtherWrite => AnyCall
<1> SUFFICES ASSUME TypeInv, NEW c \in Others,
                    Call("user", c.at, c.bytes, NoNumber), UNCHANGED segment
             PROVE  AnyCall
  BY DEF OtherWrite
<1>1. /\ c.at \in Nat /\ c.bytes \in Seq(Nat)
      /\ 6 \in c.at .. c.at + Len(c.bytes) - 1 => c.bytes[7 - c.at] < Size
  BY OthersAssumption
<1>2. NoNumber \in Number BY DEF NoNumber, Number
<1>3. segment' \in 0 .. Len(Address) - 1 BY DEF TypeInv
<1>4. "user" \in Writer BY DEF Writer
<1> QED BY <1>1, <1>2, <1>3, <1>4 DEF AnyCall

LEMMA ShowIpIsCall == TypeInv /\ ShowIp => AnyCall \/ Quiet
<1> SUFFICES ASSUME TypeInv, ShowIp PROVE AnyCall \/ Quiet OBVIOUS
<1>1. segment' \in 0 .. Len(Address) - 1 /\ Address[segment + 1] \in Number
  BY NumberOfAddress DEF TypeInv, ShowIp
<1>2. CASE Call("show_ip", 0, ShowFrame(Address[segment + 1]), Address[segment + 1])
  <2> DEFINE n == Address[segment + 1]
  <2> HIDE DEF n
  <2>1. n \in Number /\ Call("show_ip", 0, ShowFrame(n), n) BY <1>1, <1>2 DEF n
  <2>2. ShowFrame(n) \in Seq(Nat) /\ ShowFrame(n)[7 - 0] < Size
    BY <2>1, FrameOfNumber, SizeAssumption
  <2>3. "show_ip" \in Writer /\ 0 \in Nat BY DEF Writer
  <2> QED BY <1>1, <2>1, <2>2, <2>3 DEF AnyCall
<1>3. CASE UNCHANGED <<present, lanesKept, buffer, bcd, enableReg, pc, hex,
                       clean, settled, shown, pwm>>
  BY <1>1, <1>3 DEF Quiet
<1> QED BY <1>2, <1>3 DEF ShowIp

LEMMA StepCases ==
  TypeInv /\ [Next]_vars =>
    \/ AnyCall
    \/ \E w \in Writer : CheckPair(w) \/ WritePair(w) \/ WriteBrightness(w) \/ WriteEnable(w)
    \/ Remove
    \/ Probe
    \/ Quiet
<1> SUFFICES ASSUME TypeInv, [Next]_vars
             PROVE  \/ AnyCall
                    \/ \E w \in Writer : CheckPair(w) \/ WritePair(w) \/ WriteBrightness(w) \/ WriteEnable(w)
                    \/ Remove
                    \/ Probe
                    \/ Quiet
  OBVIOUS
<1>1. CASE Clock /\ UNCHANGED <<driver, buffer, bcd, enableReg, pc, hex, clean, settled, shown>>
  BY <1>1 DEF Quiet, driver, TypeInv
<1>2. CASE UNCHANGED vars BY <1>2 DEF Quiet, driver, vars, TypeInv
<1> QED BY <1>1, <1>2, DimIsCall, OtherIsCall, ShowIpIsCall DEF Next

\* Where a writer is, by the name of its step.
LEMMA Steps ==
  ASSUME TypeInv, NEW w \in Writer
  PROVE  /\ At(w, "check") \/ At(w, "digits") => pc[w][2] \in 0 .. 2
         /\ At(w, "check") => pc[w] = <<"check", pc[w][2]>>
         /\ At(w, "digits") => pc[w] = <<"digits", pc[w][2]>>
         /\ At(w, "brightness") => pc[w] = <<"brightness", 0>>
         /\ At(w, "enable") => pc[w] = <<"enable", 0>>
         /\ pc[w] # Idle =>
              At(w, "check") \/ At(w, "digits") \/ At(w, "brightness") \/ At(w, "enable")
<1>1. pc[w] \in Step BY DEF TypeInv
<1>2. PICK at \in Step : at = pc[w] BY <1>1
<1>3. \/ at \in {Idle, <<"brightness", 0>>, <<"enable", 0>>}
      \/ \E k \in 0 .. 2 : at = <<"check", k>> \/ at = <<"digits", k>>
  BY DEF Step
<1> QED BY <1>2, <1>3 DEF At, Idle

LEMMA NextStep ==
  ASSUME NEW step \in {"check", "digits"}, NEW k \in 0 .. 2
  PROVE  <<step, k>> \in Step /\ <<step, k>> # Idle
BY DEF Step, Idle

LEMMA CallTypes ==
  ASSUME TypeInv, NEW w \in Writer, NEW at \in Nat, NEW bytes \in Seq(Nat), NEW number,
         Call(w, at, bytes, number),
         6 \in at .. at + Len(bytes) - 1 => bytes[7 - at] < Size
  PROVE  buffer' \in [Offset -> Nat] /\ buffer'[6] \in 0 .. Size - 1
<1>1. Len(bytes) \in Nat /\ \A j \in 1 .. Len(bytes) : bytes[j] \in Nat OBVIOUS
<1>2. \A i \in Offset : i \in at .. at + Len(bytes) - 1 => bytes[i - at + 1] \in Nat
  <2> SUFFICES ASSUME NEW i \in Offset, i \in at .. at + Len(bytes) - 1
               PROVE  i - at + 1 \in 1 .. Len(bytes)
    BY <1>1
  <2> QED BY <1>1 DEF Offset
<1>3. buffer' \in [Offset -> Nat] BY <1>2 DEF Call, TypeInv
<1>4. 6 \in Offset BY DEF Offset
<1>5. buffer'[6] \in 0 .. Size - 1
  <2>1. CASE 6 \in at .. at + Len(bytes) - 1
    <3>1. buffer'[6] = bytes[6 - at + 1] BY <1>4, <2>1 DEF Call
    <3>2. 6 - at + 1 = 7 - at OBVIOUS
    <3>3. bytes[7 - at] \in Nat BY <1>2, <1>4, <2>1, <3>2
    <3> QED BY <2>1, <3>1, <3>2, <3>3, SizeAssumption
  <2>2. CASE 6 \notin at .. at + Len(bytes) - 1
    BY <1>4, <2>2 DEF Call, TypeInv
  <2> QED BY <2>1, <2>2
<1> QED BY <1>3, <1>5

LEMMA PairType ==
  ASSUME TypeInv, NEW k \in 0 .. 2
  PROVE  Pair(k) = <<buffer[2 * k], buffer[2 * k + 1]>> /\ Pair(k) \in Nat \X Nat
<1>1. 2 * k \in Offset /\ 2 * k + 1 \in Offset BY DEF Offset
<1>2. buffer[2 * k] \in Nat /\ buffer[2 * k + 1] \in Nat BY <1>1 DEF TypeInv
<1> QED BY <1>2 DEF Pair

LEMMA TypeStep == TypeInv /\ [Next]_vars => TypeInv'
<1> SUFFICES ASSUME TypeInv, [Next]_vars PROVE TypeInv' OBVIOUS
<1>1. CASE AnyCall
  <2>1. PICK w \in Writer, at \in Nat, bytes \in Seq(Nat), number \in Number :
          /\ Call(w, at, bytes, number)
          /\ segment' \in 0 .. Len(Address) - 1
          /\ 6 \in at .. at + Len(bytes) - 1 => bytes[7 - at] < Size
    BY <1>1 DEF AnyCall
  <2>2. buffer' \in [Offset -> Nat] /\ buffer'[6] \in 0 .. Size - 1 BY <2>1, CallTypes
  <2>3. pc' \in [Writer -> Step] BY <2>1, NextStep DEF Call, TypeInv
  <2>4. clean' \in BOOLEAN /\ settled' \in BOOLEAN BY <2>1 DEF Call, AllIdle
  <2> QED BY <2>1, <2>2, <2>3, <2>4 DEF Call, TypeInv
<1>2. ASSUME NEW w \in Writer, CheckPair(w) PROVE TypeInv'
  <2>1. pc[w][2] \in 0 .. 2 BY <1>2, Steps DEF CheckPair
  <2>2. pc' \in [Writer -> Step]
    <3>1. PICK step \in {<<"digits", pc[w][2]>>, <<"idle", 0>>} : pc' = [pc EXCEPT ![w] = step]
      BY <1>2 DEF CheckPair, Goto
    <3>2. <<"digits", pc[w][2]>> \in Step BY <2>1, NextStep
    <3>3. <<"idle", 0>> \in Step BY DEF Idle, Step
    <3> QED BY <3>1, <3>2, <3>3 DEF TypeInv
  <2>3. Pair(pc[w][2]) \in Nat \X Nat BY <2>1, PairType
  <2>4. hex' \in [Writer -> Nat \X Nat] BY <1>2, <2>3 DEF CheckPair, TypeInv
  <2> QED BY <1>2, <2>2, <2>4 DEF CheckPair, TypeInv, driver
<1>3. ASSUME NEW w \in Writer, WritePair(w) PROVE TypeInv'
  <2>1. pc[w][2] \in 0 .. 2 BY <1>3, Steps DEF WritePair
  <2> DEFINE k == pc[w][2]
             q == IF Valid(Pair(k)) THEN Pair(k) ELSE <<Junk, Junk>>
  <2>2. pc' \in [Writer -> Step]
    <3>1. CASE k < 2
      <4>1. k + 1 \in 0 .. 2 BY <2>1, <3>1
      <4>2. pc' = [pc EXCEPT ![w] = <<"check", k + 1>>] BY <1>3, <3>1 DEF WritePair, Goto
      <4> QED BY <4>1, <4>2, NextStep DEF TypeInv
    <3>2. CASE ~(k < 2)
      <4>1. pc' = [pc EXCEPT ![w] = <<"brightness", 0>>] BY <1>3, <3>2 DEF WritePair, Goto
      <4> QED BY <4>1 DEF TypeInv, Step
    <3> QED BY <3>1, <3>2
  <2>3. hex' \in [Writer -> Nat \X Nat] BY <1>3 DEF WritePair, TypeInv
  <2>4. bcd' \in [0 .. 5 -> Int]
    <3>1. Pair(k) \in Int \X Int BY <2>1, PairType
    <3>2. hex[w] \in Int \X Int BY DEF TypeInv
    <3>3. q \in Int \X Int BY <3>1 DEF Junk
    <3> HIDE DEF q
    <3>4. PICK p \in {hex[w], q}, l \in Int :
            bcd' = [i \in 0 .. 5 |-> CASE i = 2 * l + 1 -> p[1]
                                       [] i = 2 * l -> p[2]
                                       [] OTHER -> IF lanesKept THEN bcd[i] ELSE Junk]
      BY <1>3, <2>1 DEF WritePair, q
    <3>5. p[1] \in Int /\ p[2] \in Int BY <3>2, <3>3
    <3>6. ASSUME NEW i \in 0 .. 5 PROVE bcd'[i] \in Int
      <4>1. bcd'[i] = CASE i = 2 * l + 1 -> p[1]
                        [] i = 2 * l -> p[2]
                        [] OTHER -> IF lanesKept THEN bcd[i] ELSE Junk
        BY <3>4
      <4>2. bcd[i] \in Int BY DEF TypeInv
      <4>3. Junk \in Int BY DEF Junk
      <4> QED BY <3>5, <4>1, <4>2, <4>3
    <3> QED BY <3>4, <3>6
  <2> QED BY <1>3, <2>2, <2>3, <2>4 DEF WritePair, TypeInv, driver
<1>4. ASSUME NEW w \in Writer, WriteBrightness(w) PROVE TypeInv'
  <2>1. pc' \in [Writer -> Step] BY <1>4 DEF WriteBrightness, Goto, TypeInv, Step
  <2> QED BY <1>4, <2>1 DEF WriteBrightness, TypeInv, driver
<1>5. ASSUME NEW w \in Writer, WriteEnable(w) PROVE TypeInv'
  <2>1. pc' \in [Writer -> Step] BY <1>5 DEF WriteEnable, Goto, TypeInv, Step, Idle
  <2>2. buffer[7] \in Nat BY DEF TypeInv, Offset
  <2>3. enableReg' \in Nat BY <1>5, <2>2 DEF WriteEnable
  <2> QED BY <1>5, <2>1, <2>3 DEF WriteEnable, TypeInv, driver
<1>6. CASE Remove BY <1>6 DEF Remove, TypeInv
<1>7. CASE Probe
  <2>1. buffer' \in [Offset -> Nat] /\ buffer'[6] = 0 BY <1>7 DEF Probe, Empty, Offset
  <2>2. bcd' \in [0 .. 5 -> Int] BY <1>7 DEF Probe
  <2> QED BY <1>7, <2>1, <2>2, SizeAssumption DEF Probe, TypeInv
<1>8. CASE Quiet BY <1>8 DEF Quiet, TypeInv
<1> QED BY <1>1, <1>2, <1>3, <1>4, <1>5, <1>6, <1>7, <1>8, StepCases

LEMMA PwmOfDisplayStep == TypeInv /\ PwmInv /\ [Next]_vars => PwmInv'
<1> SUFFICES ASSUME TypeInv, PwmInv, [Next]_vars PROVE PwmInv' OBVIOUS
<1>1. CASE [PwmNext]_pwm BY <1>1, PwmInvStep
<1>2. CASE UNCHANGED pwm BY <1>1, <1>2
<1>3. ASSUME NEW w \in Writer, WriteBrightness(w) PROVE PwmInv'
  <2>1. buffer[6] \in 0 .. Size - 1 BY DEF TypeInv
  <2> QED BY <1>1, <1>3, <2>1 DEF WriteBrightness, PwmNext
<1>4. CASE Probe
  <2>1. PwmInit' BY <1>4 DEF Probe, PwmInit
  <2>2. (PwmInit => PwmInv)' BY PwmInvInit, PTL
  <2> QED BY <2>1, <2>2
<1>5. CASE Clock BY <1>1, <1>5 DEF PwmNext
<1>6. CASE AnyCall BY <1>2, <1>6 DEF AnyCall, Call
<1>7. ASSUME NEW w \in Writer, CheckPair(w) \/ WritePair(w) \/ WriteEnable(w) PROVE PwmInv'
  BY <1>2, <1>7 DEF CheckPair, WritePair, WriteEnable
<1>8. CASE Remove BY <1>2, <1>8 DEF Remove
<1>9. CASE Quiet BY <1>2, <1>5, <1>9 DEF Quiet
<1> QED BY <1>3, <1>4, <1>6, <1>7, <1>8, <1>9, StepCases

\* A writer inside the driver: the driver is bound, nothing has settled, and if it met
\* no other one it is alone.
LEMMA Busy ==
  ASSUME AloneInv, NEW w \in Writer, pc[w] # Idle
  PROVE  present /\ ~settled /\ (clean => \A u \in Writer \ {w} : pc[u] = Idle)
BY DEF AloneInv, AllIdle

\* What all steps of a writer have in common.
LEMMA WriterStep ==
  ASSUME TypeInv, NEW w \in Writer,
         CheckPair(w) \/ WritePair(w) \/ WriteBrightness(w) \/ WriteEnable(w)
  PROVE  /\ pc[w] # Idle /\ pc' = [pc EXCEPT ![w] = pc'[w]]
         /\ UNCHANGED <<present, lanesKept, segment, buffer, clean, shown>>
         /\ settled' = IF WriteEnable(w) THEN clean ELSE settled
         /\ WriteEnable(w) => pc'[w] = Idle
<1>1. pc[w] # Idle
  BY DEF CheckPair, WritePair, WriteBrightness, WriteEnable, At, Idle
<1>2. PICK step \in {"idle", "check", "digits", "brightness", "enable"}, k \in Int :
        Goto(w, step, k)
  <2>1. CASE CheckPair(w) BY <2>1, Steps DEF CheckPair
  <2>2. CASE WritePair(w)
    <3>1. pc[w][2] \in 0 .. 2 BY <2>2, Steps DEF WritePair
    <3>2. pc[w][2] + 1 \in Int BY <3>1
    <3>3. Goto(w, "check", pc[w][2] + 1) \/ Goto(w, "brightness", 0)
      BY <2>2 DEF WritePair
    <3> QED BY <3>2, <3>3
  <2>3. CASE WriteBrightness(w) \/ WriteEnable(w) BY <2>3 DEF WriteBrightness, WriteEnable
  <2> QED BY <2>1, <2>2, <2>3
<1>3. pc' = [pc EXCEPT ![w] = pc'[w]] BY <1>2 DEF Goto, TypeInv
<1>4. UNCHANGED <<present, lanesKept, segment, buffer, clean, shown>>
  BY DEF CheckPair, WritePair, WriteBrightness, WriteEnable, driver
<1>5. WriteEnable(w) => settled' = clean /\ pc'[w] = Idle
  BY DEF WriteEnable, Goto, Idle, TypeInv
<1>6. ~WriteEnable(w) => settled' = settled
  BY DEF CheckPair, WritePair, WriteBrightness
<1> QED BY <1>1, <1>3, <1>4, <1>5, <1>6

LEMMA AloneStep == TypeInv /\ AloneInv /\ [Next]_vars => AloneInv'
<1> SUFFICES ASSUME TypeInv, AloneInv, [Next]_vars PROVE AloneInv' OBVIOUS
<1>1. CASE AnyCall
  <2>1. PICK w \in Writer, at \in Nat, bytes \in Seq(Nat), number \in Number :
          Call(w, at, bytes, number)
    BY <1>1 DEF AnyCall
  <2>2. \A u \in Writer \ {w} : pc'[u] = pc[u] BY <2>1 DEF Call, TypeInv
  <2>3. clean' => \A u \in Writer \ {w} : pc'[u] = Idle BY <2>1, <2>2 DEF Call, AllIdle
  <2>4. ~settled' /\ present' BY <2>1 DEF Call
  <2> QED BY <2>3, <2>4 DEF AloneInv
<1>2. ASSUME NEW w \in Writer,
             CheckPair(w) \/ WritePair(w) \/ WriteBrightness(w) \/ WriteEnable(w)
      PROVE AloneInv'
  <2>1. /\ pc[w] # Idle /\ pc' = [pc EXCEPT ![w] = pc'[w]]
        /\ UNCHANGED <<present, clean>>
        /\ settled' = IF WriteEnable(w) THEN clean ELSE settled
        /\ WriteEnable(w) => pc'[w] = Idle
    BY <1>2, WriterStep
  <2>2. present /\ ~settled /\ (clean => \A u \in Writer \ {w} : pc[u] = Idle)
    BY <2>1, Busy
  <2>3. \A u \in Writer \ {w} : pc'[u] = pc[u] BY <2>1 DEF TypeInv
  <2>4. clean' => \A u \in Writer \ {w} : pc'[u] = Idle BY <2>1, <2>2, <2>3
  <2>5. settled' => clean' /\ pc'[w] = Idle BY <2>1, <2>2
  <2> QED BY <2>1, <2>2, <2>4, <2>5 DEF AloneInv, AllIdle
<1>3. CASE Remove BY <1>3 DEF Remove, AloneInv, AllIdle
<1>4. CASE Probe BY <1>4 DEF Probe, AloneInv, AllIdle
<1>5. CASE Quiet BY <1>5 DEF Quiet, AloneInv, AllIdle
<1> QED BY <1>1, <1>2, <1>3, <1>4, <1>5, StepCases

LEMMA FrameStep == TypeInv /\ AloneInv /\ FrameInv /\ [Next]_vars => FrameInv'
<1> SUFFICES ASSUME TypeInv, AloneInv, FrameInv, [Next]_vars PROVE FrameInv' OBVIOUS
<1>1. CASE AnyCall
  <2>1. PICK w \in Writer, at \in Nat, bytes \in Seq(Nat), number \in Number :
          /\ Call(w, at, bytes, number)
          /\ number # NoNumber => at = 0 /\ bytes = ShowFrame(number)
    BY <1>1 DEF AnyCall
  <2>2. shown' = number BY <2>1 DEF Call
  <2>3. ASSUME number # NoNumber, NEW i \in Offset PROVE buffer'[i] = ShowFrame(number)[i + 1]
    <3>1. Len(bytes) = 8 /\ at = 0 /\ bytes = ShowFrame(number) BY <2>1, <2>3, FrameOfNumber
    <3>2. i \in at .. at + Len(bytes) - 1 /\ i - at + 1 = i + 1 BY <3>1 DEF Offset
    <3> QED BY <2>1, <3>1, <3>2 DEF Call
  <2> QED BY <2>2, <2>3 DEF FrameInv
<1>2. ASSUME NEW w \in Writer,
             CheckPair(w) \/ WritePair(w) \/ WriteBrightness(w) \/ WriteEnable(w)
      PROVE FrameInv'
  <2>1. UNCHANGED <<buffer, clean, shown>> BY <1>2, WriterStep
  <2> QED BY <2>1 DEF FrameInv
<1>3. CASE Remove BY <1>3 DEF Remove, FrameInv
<1>4. CASE Probe BY <1>4 DEF Probe, FrameInv, AloneInv
<1>5. CASE Quiet BY <1>5 DEF Quiet, FrameInv
<1> QED BY <1>1, <1>2, <1>3, <1>4, <1>5, StepCases

\* The pair goes to its two digits, the other lanes stay or are lost.
LEMMA PairWritten ==
  ASSUME TypeInv, NEW w \in Writer, WritePair(w), WrittenBy(w)
  PROVE  LET k == pc[w][2]
         IN  /\ bcd'[5 - 2 * k] = buffer[2 * k] /\ bcd'[4 - 2 * k] = buffer[2 * k + 1]
             /\ lanesKept => \A i \in (0 .. 5) \ {5 - 2 * k, 4 - 2 * k} : bcd'[i] = bcd[i]
<1> DEFINE k == pc[w][2]
<1>1. At(w, "digits") /\ k \in 0 .. 2 BY Steps DEF WritePair
<1>2. Valid(Pair(k)) /\ hex[w] = Pair(k) BY <1>1 DEF WrittenBy
<1>3. Pair(k)[1] = buffer[2 * k] /\ Pair(k)[2] = buffer[2 * k + 1] BY DEF Pair
<1> HIDE DEF k
<1>4. (6 - 2 * k - 1) \div 2 = 2 - k
  <2>1. k = 0 \/ k = 1 \/ k = 2 BY <1>1
  <2> QED BY <2>1
<1>5. bcd' = [i \in 0 .. 5 |-> CASE i = 2 * (2 - k) + 1 -> Pair(k)[1]
                                [] i = 2 * (2 - k) -> Pair(k)[2]
                                [] OTHER -> IF lanesKept THEN bcd[i] ELSE Junk]
  BY <1>2, <1>4 DEF WritePair, k
<1>6. 2 * (2 - k) + 1 = 5 - 2 * k /\ 2 * (2 - k) = 4 - 2 * k
      /\ 5 - 2 * k \in 0 .. 5 /\ 4 - 2 * k \in 0 .. 5 /\ 5 - 2 * k # 4 - 2 * k
  BY <1>1
<1>7. bcd'[5 - 2 * k] = buffer[2 * k] BY <1>3, <1>5, <1>6
<1>8. bcd'[4 - 2 * k] = buffer[2 * k + 1] BY <1>3, <1>5, <1>6
<1>9. ASSUME lanesKept, NEW i \in (0 .. 5) \ {5 - 2 * k, 4 - 2 * k} PROVE bcd'[i] = bcd[i]
  BY <1>5, <1>6, <1>9
<1> QED BY <1>7, <1>8, <1>9 DEF k

LEMMA WrittenByStep ==
  ASSUME TypeInv, NEW w \in Writer, WrittenBy(w),
         CheckPair(w) \/ WritePair(w) \/ WriteBrightness(w) \/ WriteEnable(w),
         pc'[w] # Idle
  PROVE  WrittenBy(w)'
<1>1. UNCHANGED <<lanesKept, buffer>> BY WriterStep
<1>2. \A k \in 0 .. 2 : Pair(k)' = Pair(k) /\ Valid(Pair(k))' = Valid(Pair(k))
  BY <1>1 DEF Pair, Valid
<1>3. CASE CheckPair(w)
  <2> DEFINE k == pc[w][2]
  <2>1. At(w, "check") /\ k \in 0 .. 2 BY <1>3, Steps DEF CheckPair
  <2>2. Valid(Pair(k)) /\ pc' = [pc EXCEPT ![w] = <<"digits", k>>]
        /\ hex' = [hex EXCEPT ![w] = Pair(k)]
    BY <1>3 DEF CheckPair, Goto, Idle, TypeInv
  <2>3. pc'[w] = <<"digits", k>> /\ hex'[w] = Pair(k) BY <2>2 DEF TypeInv
  <2>4. UNCHANGED bcd BY <1>3 DEF CheckPair
  <2> HIDE DEF k
  <2>5. Passed(w) = k BY <2>1 DEF Passed, k
  <2>6. Passed(w)' = k /\ ~At(w, "enable")' /\ pc'[w][2] = k BY <2>3 DEF Passed, At
  <2>7. \A j \in 0 .. 2 : InRegisters(j)' = InRegisters(j) BY <1>1, <2>4 DEF InRegisters
  <2> QED BY <1>1, <1>2, <2>1, <2>2, <2>3, <2>5, <2>6, <2>7 DEF WrittenBy
<1>4. CASE WritePair(w)
  <2>1. PICK k \in 0 .. 2 : At(w, "digits") /\ k = pc[w][2] BY <1>4, Steps DEF WritePair
  <2>2. /\ bcd'[5 - 2 * k] = buffer[2 * k] /\ bcd'[4 - 2 * k] = buffer[2 * k + 1]
        /\ lanesKept => \A i \in (0 .. 5) \ {5 - 2 * k, 4 - 2 * k} : bcd'[i] = bcd[i]
    BY <1>4, <2>1, PairWritten
  <2>3. Valid(Pair(k)) BY <2>1 DEF WrittenBy
  <2>4. Passed(w) = k BY <2>1 DEF Passed
  <2>5. pc'[w] = IF k < 2 THEN <<"check", k + 1>> ELSE <<"brightness", 0>>
    BY <1>4, <2>1 DEF WritePair, Goto, TypeInv
  <2>6. Passed(w)' = k + 1 /\ ~At(w, "digits")' /\ ~At(w, "enable")'
    BY <2>1, <2>5 DEF Passed, At
  <2>7. InRegisters(k)' BY <1>1, <2>2 DEF InRegisters
  <2>8. ASSUME lanesKept, NEW j \in 0 .. 2, j < k PROVE InRegisters(j)'
    <3>1. InRegisters(j) BY <2>4, <2>8 DEF WrittenBy
    <3>2. 5 - 2 * j \in (0 .. 5) \ {5 - 2 * k, 4 - 2 * k} BY <2>1, <2>8
    <3>3. 4 - 2 * j \in (0 .. 5) \ {5 - 2 * k, 4 - 2 * k} BY <2>1, <2>8
    <3> QED BY <1>1, <2>2, <2>8, <3>1, <3>2, <3>3 DEF InRegisters
  <2>9. ASSUME NEW j \in 0 .. 2, j < Passed(w)'
        PROVE  Valid(Pair(j))' /\ (lanesKept' \/ j = Passed(w)' - 1 => InRegisters(j)')
    <3>1. j = k \/ j < k BY <2>1, <2>6, <2>9
    <3>2. Valid(Pair(j)) BY <2>3, <2>4, <3>1 DEF WrittenBy
    <3>3. Valid(Pair(j))' BY <1>2, <3>2
    <3>4. j = Passed(w)' - 1 => j = k BY <2>1, <2>6
    <3> QED BY <1>1, <2>7, <2>8, <3>1, <3>3, <3>4
  <2> QED BY <2>6, <2>9 DEF WrittenBy
<1>5. CASE WriteBrightness(w)
  <2>1. pc'[w] = <<"enable", 0>> /\ UNCHANGED bcd /\ value' = buffer[6]
    BY <1>5 DEF WriteBrightness, Goto, SetValue, TypeInv
  <2>2. Passed(w) = 3 BY <1>5 DEF WriteBrightness, Passed, At
  <2>3. Passed(w)' = 3 /\ ~At(w, "digits")' BY <2>1 DEF Passed, At
  <2>4. \A j \in 0 .. 2 : InRegisters(j)' = InRegisters(j) BY <1>1, <2>1 DEF InRegisters
  <2> QED BY <1>1, <1>2, <2>1, <2>2, <2>3, <2>4 DEF WrittenBy
<1>6. CASE WriteEnable(w) BY <1>6, WriterStep
<1> QED BY <1>3, <1>4, <1>5, <1>6

LEMMA WrittenStep == TypeInv /\ AloneInv /\ WrittenInv /\ [Next]_vars => WrittenInv'
<1> SUFFICES ASSUME TypeInv, AloneInv, WrittenInv, [Next]_vars, clean', NEW w \in Writer, pc'[w] # Idle
             PROVE  WrittenBy(w)'
  BY DEF WrittenInv
<1>0. ASSUME clean, NEW u \in Writer, pc[u] # Idle PROVE WrittenBy(u)
  BY <1>0 DEF WrittenInv
<1>1. CASE AnyCall
  <2>1. PICK u \in Writer, at \in Nat, bytes \in Seq(Nat), number \in Number :
          Call(u, at, bytes, number)
    BY <1>1 DEF AnyCall
  <2>2. w = u BY <2>1 DEF Call, AllIdle, TypeInv
  <2>3. pc'[w] = <<"check", 0>> BY <2>1, <2>2 DEF Call, TypeInv
  <2> QED BY <2>3 DEF WrittenBy, Passed, At
<1>2. ASSUME NEW u \in Writer,
             CheckPair(u) \/ WritePair(u) \/ WriteBrightness(u) \/ WriteEnable(u)
      PROVE WrittenBy(w)'
  <2>1. pc[u] # Idle /\ pc' = [pc EXCEPT ![u] = pc'[u]] /\ clean' = clean BY <1>2, WriterStep
  <2>2. w = u BY <2>1, Busy DEF TypeInv
  <2> QED BY <1>0, <1>2, <2>1, <2>2, WrittenByStep
<1>3. CASE Remove BY <1>3 DEF Remove
<1>4. CASE Probe BY <1>4 DEF Probe, AloneInv
<1>5. CASE Quiet
  <2>1. UNCHANGED <<lanesKept, buffer, bcd, pc, hex, clean>> BY <1>5 DEF Quiet
  <2>2. value' = value BY <1>5 DEF Quiet, Clock, pwm
  <2> QED BY <1>0, <2>1, <2>2 DEF WrittenBy, Passed, At, InRegisters, Pair, Valid
<1> QED BY <1>1, <1>2, <1>3, <1>4, <1>5, StepCases

LEMMA SettledStep == Inv /\ [Next]_vars => SettledRegisters'
<1> SUFFICES ASSUME Inv, [Next]_vars, settled' PROVE SettledRegisters'
  BY DEF SettledRegisters
<1>1. TypeInv /\ AloneInv /\ WrittenInv /\ SettledRegisters BY DEF Inv
<1>2. CASE settled /\ UNCHANGED <<lanesKept, buffer, bcd, enableReg, value>>
  BY <1>1, <1>2 DEF SettledRegisters
<1>3. CASE AnyCall BY <1>3 DEF AnyCall, Call
<1>4. ASSUME NEW w \in Writer,
             CheckPair(w) \/ WritePair(w) \/ WriteBrightness(w) \/ WriteEnable(w)
      PROVE SettledRegisters'
  <2>1. pc[w] # Idle /\ settled' = (IF WriteEnable(w) THEN clean ELSE settled)
    BY <1>1, <1>4, WriterStep
  <2>2. ~settled BY <1>1, <2>1, Busy
  <2>3. WriteEnable(w) /\ clean BY <2>1, <2>2
  <2>4. At(w, "enable") /\ enableReg' = buffer[7] % 64
        /\ UNCHANGED <<lanesKept, buffer, bcd, value>>
    BY <2>3 DEF WriteEnable, driver, pwm
  <2>5. WrittenBy(w) BY <1>1, <2>1, <2>3 DEF WrittenInv
  <2>6. Passed(w) = 3 BY <2>4 DEF Passed, At
  <2>7. value = buffer[6] BY <2>4, <2>5 DEF WrittenBy
  <2>8. \A k \in 0 .. 2 : lanesKept \/ k = 2 => InRegisters(k) BY <2>5, <2>6 DEF WrittenBy
  <2>9. bcd[0] = buffer[5] /\ bcd[1] = buffer[4] BY <2>8 DEF InRegisters
  <2>10. ASSUME lanesKept PROVE \A i \in 0 .. 5 : bcd[i] = buffer[5 - i]
    <3>1. bcd[5] = buffer[0] /\ bcd[4] = buffer[1] BY <2>8, <2>10 DEF InRegisters
    <3>2. bcd[3] = buffer[2] /\ bcd[2] = buffer[3] BY <2>8, <2>10 DEF InRegisters
    <3> QED BY <2>9, <3>1, <3>2
  <2> QED BY <2>4, <2>7, <2>9, <2>10 DEF SettledRegisters
<1>5. CASE Remove BY <1>5 DEF Remove
<1>6. CASE Probe BY <1>1, <1>6 DEF Probe, AloneInv
<1>7. CASE Quiet BY <1>2, <1>7 DEF Quiet, Clock, pwm
<1> QED BY <1>1, <1>3, <1>4, <1>5, <1>6, <1>7, StepCases

LEMMA InvStep == Inv /\ [Next]_vars => Inv'
BY TypeStep, PwmOfDisplayStep, AloneStep, WrittenStep, FrameStep, SettledStep DEF Inv

LEMMA ShowsFromInv == Inv => ShowsNumber
<1> SUFFICES ASSUME Inv, settled, lanesKept, shown # NoNumber, NEW i \in 0 .. 5
             PROVE  (Lit(i) <=> 5 - i < Len(shown)) /\ (Lit(i) => bcd[i] = shown[6 - i])
  BY DEF ShowsNumber
<1>1. clean BY DEF Inv, AloneInv
<1>2. shown \in Number BY DEF Inv, TypeInv
<1>3. \A j \in Offset : buffer[j] = ShowFrame(shown)[j + 1] BY <1>1 DEF Inv, FrameInv
<1>4. enableReg = buffer[7] % 64 /\ bcd[i] = buffer[5 - i] BY DEF Inv, SettledRegisters
<1>5. 5 - i \in Offset /\ 7 \in Offset /\ (5 - i) + 1 = 6 - i /\ 6 - i \in 1 .. 6 BY DEF Offset
<1>6. enableReg = (64 - 2 ^ (6 - Len(shown))) % 64 BY <1>2, <1>3, <1>4, <1>5, FrameOfNumber
<1>7. Len(shown) \in 0 .. 6 BY <1>2, FrameOfNumber
<1>8. Lit(i) <=> 5 - i < Len(shown) BY <1>6, <1>7, EnableBits DEF Lit
<1>9. ASSUME 5 - i < Len(shown) PROVE bcd[i] = shown[6 - i]
  <2>1. 6 - i <= Len(shown) BY <1>7, <1>9
  <2>2. ShowFrame(shown)[6 - i] = shown[6 - i] BY <1>2, <1>5, <2>1, FrameOfNumber
  <2> QED BY <1>3, <1>4, <1>5, <2>2
<1> QED BY <1>8, <1>9

\* After a call that met no other one the registers hold what the buffer holds: what
\* the calls before it left half done, and every partial write, is overwritten.
THEOREM RegistersSettle == Spec => []SettledRegisters
<1>1. Inv => SettledRegisters BY DEF Inv
<1> QED BY InvInit, InvStep, <1>1, PTL DEF Spec

\* After such a call of show_ip the display reads as the number, for every number of
\* up to six digits: the enable bits of writeToCDev start at the leftmost digit.
THEOREM NumberShown == Spec => []ShowsNumber
BY InvInit, InvStep, ShowsFromInv, PTL DEF Spec

\* The duty cycle settles on the display as it does on the controller alone, with
\* writes at any time and a reset by every reconfiguration.
THEOREM DisplayDutyCycle == Spec => []SettledDuty
<1>1. Inv => SettledDuty BY SettledFromInv DEF Inv
<1> QED BY InvInit, InvStep, <1>1, PTL DEF Spec

\* A digit above F in the buffer keeps every call that is alone from the brightness
\* and the enable bits, and itself from the display (return -EINVAL of dev_write).
THEOREM InvalidDigitBlocks == Spec => InvalidBlocks
<1> DEFINE Kept ==
      (clean /\ present) =>
        \A i \in 0 .. 5 : buffer[i] > 15 /\ buffer' = buffer =>
          /\ UNCHANGED <<value, enableReg>>
          /\ lanesKept => bcd'[5 - i] = bcd[5 - i]
<1>1. Inv /\ [Next]_vars => [Kept]_vars
  <2> SUFFICES ASSUME Inv, [Next]_vars, clean, present, NEW i \in 0 .. 5, buffer[i] > 15,
                      buffer' = buffer
               PROVE  /\ UNCHANGED <<value, enableReg>>
                      /\ lanesKept => bcd'[5 - i] = bcd[5 - i]
    OBVIOUS
  <2>1. TypeInv /\ AloneInv /\ WrittenInv BY DEF Inv
  <2>2. PICK k \in 0 .. 2 : i = 2 * k \/ i = 2 * k + 1
    <3>1. i = 0 \/ i = 1 \/ i = 2 \/ i = 3 \/ i = 4 \/ i = 5 OBVIOUS
    <3>2. CASE i \in {0, 1} BY <3>2
    <3>3. CASE i \in {2, 3} BY <3>3
    <3>4. CASE i \in {4, 5} BY <3>4
    <3> QED BY <3>1, <3>2, <3>3, <3>4
  <2>3. ~Valid(Pair(k))
    <3>1. Pair(k)[1] = buffer[2 * k] /\ Pair(k)[2] = buffer[2 * k + 1] BY DEF Pair
    <3>2. \A b \in 0 .. 15 : ~(b > 15) OBVIOUS
    <3> QED BY <2>2, <3>1, <3>2 DEF Valid
  <2>4. CASE UNCHANGED <<value, enableReg, bcd>> BY <2>4
  <2>5. ASSUME NEW w \in Writer, pc[w] # Idle PROVE WrittenBy(w)
    BY <2>1, <2>5 DEF WrittenInv
  <2>6. ASSUME NEW w \in Writer, WritePair(w)
        PROVE UNCHANGED <<value, enableReg>> /\ (lanesKept => bcd'[5 - i] = bcd[5 - i])
    <3>1. PICK j \in 0 .. 2 : j = pc[w][2] /\ At(w, "digits")
      BY <2>1, <2>6, Steps DEF WritePair
    <3>2. WrittenBy(w) BY <2>5, <3>1 DEF At, Idle
    <3>3. lanesKept => \A m \in (0 .. 5) \ {5 - 2 * j, 4 - 2 * j} : bcd'[m] = bcd[m]
      BY <2>1, <2>6, <3>1, <3>2, PairWritten
    <3>4. j # k BY <2>3, <3>1, <3>2 DEF WrittenBy
    <3>5. 5 - i \in (0 .. 5) \ {5 - 2 * j, 4 - 2 * j} BY <2>2, <3>4
    <3>6. UNCHANGED <<value, enableReg>> BY <2>6 DEF WritePair, pwm
    <3> QED BY <3>3, <3>5, <3>6
  <2>7. ASSUME NEW w \in Writer, WriteBrightness(w) \/ WriteEnable(w) PROVE FALSE
    <3>1. At(w, "brightness") \/ At(w, "enable") BY <2>7 DEF WriteBrightness, WriteEnable
    <3>2. Passed(w) = 3 /\ pc[w] # Idle BY <3>1 DEF Passed, At, Idle
    <3>3. WrittenBy(w) BY <2>5, <3>2
    <3> QED BY <2>3, <3>2, <3>3 DEF WrittenBy
  <2>8. ASSUME NEW w \in Writer, CheckPair(w) PROVE UNCHANGED <<value, enableReg, bcd>>
    BY <2>8 DEF CheckPair, pwm
  <2>9. CASE AnyCall BY <2>4, <2>9 DEF AnyCall, Call, pwm
  <2>10. CASE Remove BY <2>4, <2>10 DEF Remove, pwm
  <2>11. CASE Probe BY <2>11 DEF Probe
  <2>12. CASE Quiet BY <2>4, <2>12 DEF Quiet, Clock, pwm
  <2> QED BY <2>1, <2>4, <2>6, <2>7, <2>8, <2>9, <2>10, <2>11, <2>12, StepCases
<1> QED BY InvInit, InvStep, <1>1, PTL DEF Spec, InvalidBlocks

=============================================================================
