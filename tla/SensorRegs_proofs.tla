-------------------------- MODULE SensorRegs_proofs --------------------------
(***************************************************************************)
(* Proofs about SensorRegs: for every number of words and of readers, a    *)
(* set read without disturbance belongs to one acquisition.                *)
(***************************************************************************)
EXTENDS SensorRegs, TLAPS

\* A read is in its second cycle only while a word of the set is missing, and its
\* first cycle has set the lock.
BusOK == \A r \in Reader : r \in bus =>
  Len(got[r]) < Words /\ (lock <=> Len(got[r]) # Words - 1)

\* The registers hold one acquisition, and not one of the future.
RegOK == reg[Words] \in 0 .. sample /\ \A w \in Word : reg[w] = reg[Words]

\* The shadow registers are complete whenever the acquisition does not read, and
\* only then can they be valid.
ShadowOK ==
  /\ valid => ~reading
  /\ ~reading => \A w \in Word : shadow[w] = sample
  /\ reading /\ Kind = "spi" => \A w \in Time : shadow[w] = sample

\* What the reader r received of its current set agrees with itself ...
Agrees(r) ==
  /\ \A i \in 2 .. Len(got[r]) : got[r][i] = got[r][Len(got[r])]
  /\ Len(got[r]) > 1 => got[r][1] <= got[r][2]
  /\ ~raced[r] /\ Len(got[r]) > 1 => got[r][1] = got[r][2]

\* ... and, until the set is complete, with the registers, which stay locked.
Holds(r) ==
  Len(got[r]) \in 1 .. Words - 1 =>
    /\ lock \/ (r \in bus /\ Len(got[r]) = Words - 1)
    /\ Len(got[r]) > 1 => got[r][Len(got[r])] = reg[Words]
    /\ Len(got[r]) = 1 => got[r][1] <= reg[Words] /\ (~raced[r] => got[r][1] = reg[Words])

\* The word on its way to the reader.
OnBus(r) ==
  r \in bus =>
    /\ Len(got[r]) >= 1 => readdata = reg[Words]
    /\ Len(got[r]) = 0 => readdata <= reg[Words] /\ (~raced[r] => readdata = reg[Words])

SetOK == \A r \in Reader : ~disturbed[r] => Agrees(r) /\ Holds(r) /\ OnBus(r)

Inv == TypeOK /\ BusOK /\ RegOK /\ ShadowOK /\ SetOK

-----------------------------------------------------------------------------
LEMMA WordFacts ==
  /\ 1 \in Word /\ Words \in Word /\ Words - 1 \in Word
  /\ Words \in Nat /\ MaxSample \in Nat
  /\ Time \subseteq Word /\ Data \subseteq Word
  /\ Mixed \in Value /\ 0 \in Value /\ 0 .. MaxSample \subseteq Value
  /\ Value \subseteq Int
  /\ \A w \in Word : w \in Time \/ w \in Data
BY WordsAssumption, MaxSampleAssumption
   DEF Word, Time, Data, Value, Mixed, WordsAssumption, MaxSampleAssumption

LEMMA PositionType ==
  ASSUME TypeOK, NEW r \in Reader
  PROVE  /\ Position(r) \in Word
         /\ Position(r) = 1 <=> Len(got[r]) \in {0, Words}
         /\ Len(got[r]) < Words => Position(r) = Len(got[r]) + 1
         /\ Len(got[r]) \in 0 .. Words
<1>1. got[r] \in Seq(Value) /\ Len(got[r]) \in Nat /\ Len(got[r]) <= Words
  BY DEF TypeOK
<1>. QED  BY <1>1, WordsAssumption DEF Position, Word, WordsAssumption

\* The acquisition keeps the shadow registers complete between acquisitions.
LEMMA AcquireShadow ==
  ASSUME TypeOK, ShadowOK, Acquire
  PROVE  /\ ShadowOK'
         /\ valid' \in BOOLEAN /\ reading' \in BOOLEAN
         /\ shadow' \in [Word -> Value]
         /\ sample' \in 0 .. MaxSample /\ sample <= sample'
<1>. USE WordFacts
<1>1. shadow \in [Word -> Value] /\ sample \in 0 .. MaxSample /\ sample \in Value
      /\ valid \in BOOLEAN /\ reading \in BOOLEAN
  BY DEF TypeOK
<1>2. CASE Begin
  <2>1. sample' = sample + 1 /\ sample' \in 0 .. MaxSample /\ reading' = TRUE /\ valid' = FALSE
    BY <1>1, <1>2 DEF Begin
  <2>2. CASE Kind = "spi"
    <3>1. shadow' = [w \in Word |-> IF w \in Time THEN sample' ELSE shadow[w]]
      BY <1>2, <2>2 DEF Begin
    <3>2. \A w \in Time : shadow'[w] = sample'
      BY <3>1
    <3>3. shadow' \in [Word -> Value]
      BY <1>1, <2>1, <3>1
    <3>4. ShadowOK'
      BY <2>1, <3>2 DEF ShadowOK
    <3>5. valid' \in BOOLEAN /\ reading' \in BOOLEAN
      BY <1>1, <2>1
    <3>9. sample' \in 0 .. MaxSample /\ sample <= sample'
      BY <1>1, <2>1
    <3>. QED  BY <3>3, <3>4, <3>5, <3>9
  <2>3. CASE Kind = "i2c"
    <3>1. shadow' = [w \in Word |-> IF w \in Data THEN Mixed ELSE shadow[w]]
      BY <1>2, <2>3 DEF Begin
    <3>3. shadow' \in [Word -> Value]
      BY <1>1, <3>1
    <3>4. ShadowOK'
      BY <2>1, <2>3 DEF ShadowOK
    <3>5. valid' \in BOOLEAN /\ reading' \in BOOLEAN
      BY <1>1, <2>1
    <3>9. sample' \in 0 .. MaxSample /\ sample <= sample'
      BY <1>1, <2>1
    <3>. QED  BY <3>3, <3>4, <3>5, <3>9
  <2>. QED  BY <2>2, <2>3, KindAssumption DEF KindAssumption
<1>3. CASE Byte
  <2>1. PICK w \in Pending :
          shadow' = [shadow EXCEPT ![w] = IF @ = Mixed THEN sample ELSE Mixed]
    BY <1>3 DEF Byte
  <2>2. reading' = TRUE /\ sample' = sample /\ valid' = FALSE /\ reading /\ Kind = "spi"
    BY <1>1, <1>3 DEF Byte
  <2>3. w \in Word /\ w \notin Time
    BY DEF Pending, Data
  <2>4. shadow' \in [Word -> Value]
    BY <1>1, <2>1
  <2>5. \A v \in Time : shadow[v] = sample
    BY <2>2 DEF ShadowOK
  <2>6. \A v \in Time : shadow'[v] = sample
    BY <1>1, <2>1, <2>3, <2>5
  <2>7. ShadowOK'
    BY <2>2, <2>6 DEF ShadowOK
  <2>8. valid' \in BOOLEAN /\ reading' \in BOOLEAN
    BY <1>1, <2>2
  <2>9. sample' \in 0 .. MaxSample /\ sample <= sample'
    BY <1>1, <2>2
  <2>. QED  BY <2>4, <2>7, <2>8, <2>9
<1>4. CASE End
  <2>1. PICK w \in Pending :
          /\ Pending = {w}
          /\ shadow' = [v \in Word |-> IF Kind = "i2c" \/ v = w THEN sample ELSE shadow[v]]
    BY <1>4 DEF End
  <2>2. reading' = FALSE /\ sample' = sample /\ valid' \in BOOLEAN /\ reading
    BY <1>4 DEF End
  <2>3. ASSUME NEW v \in Word PROVE shadow'[v] = sample
    <3>1. CASE Kind = "i2c" \/ v = w
      BY <2>1, <3>1
    <3>2. CASE Kind = "spi" /\ v # w
      <4>1. shadow[v] = sample
        BY <2>1, <2>2, <3>2 DEF Pending, ShadowOK
      <4>. QED  BY <2>1, <4>1
    <3>. QED  BY <3>1, <3>2, KindAssumption DEF KindAssumption
  <2>4. shadow' \in [Word -> Value]
    BY <1>1, <2>1
  <2>5. \A v \in Word : shadow'[v] = sample'
    BY <2>2, <2>3
  <2>6. ShadowOK'
    BY <2>2, <2>5 DEF ShadowOK
  <2>8. valid' \in BOOLEAN /\ reading' \in BOOLEAN
    BY <1>1, <2>2
  <2>9. sample' \in 0 .. MaxSample /\ sample <= sample'
    BY <1>1, <2>2
  <2>. QED  BY <2>4, <2>6, <2>8, <2>9
<1>5. CASE Wait
  <2>1. valid' = ~reading /\ reading' = reading /\ sample' = sample /\ shadow' = shadow
    BY <1>5 DEF Wait
  <2>2. ShadowOK'
    BY <2>1 DEF ShadowOK
  <2>3. valid' \in BOOLEAN /\ reading' \in BOOLEAN
    BY <1>1, <2>1
  <2>9. sample' \in 0 .. MaxSample /\ sample <= sample'
    BY <1>1, <2>1
  <2>4. shadow' \in [Word -> Value]
    BY <1>1, <2>1
  <2>. QED  BY <2>2, <2>3, <2>4, <2>9
<1>. QED  BY <1>2, <1>3, <1>4, <1>5 DEF Acquire

\* The registers go from one whole acquisition to a whole one that is not older.
LEMMA LoadReg ==
  ASSUME TypeOK, RegOK, ShadowOK, Acquire, Load
  PROVE  /\ RegOK'
         /\ reg' \in [Word -> Value]
         /\ reg[Words] \in Int /\ reg'[Words] \in Int /\ reg[Words] <= reg'[Words]
         /\ ~Loads => reg' = reg
<1>. USE WordFacts
<1>1. /\ shadow \in [Word -> Value] /\ reg \in [Word -> Value]
      /\ sample \in 0 .. MaxSample /\ sample' \in 0 .. MaxSample /\ sample <= sample'
  BY AcquireShadow DEF TypeOK
<1>2. reg[Words] \in 0 .. sample /\ \A w \in Word : reg[w] = reg[Words]
  BY DEF RegOK
<1>3. CASE Loads
  <2>1. reg' = shadow
    BY <1>3 DEF Load
  <2>2. \A w \in Word : shadow[w] = sample
    BY <1>3 DEF Loads, ShadowOK
  <2>3. reg'[Words] = sample /\ \A w \in Word : reg'[w] = reg'[Words]
    BY <2>1, <2>2
  <2>4. reg'[Words] \in 0 .. sample'
    BY <1>1, <2>3
  <2>5. RegOK'
    BY <2>3, <2>4 DEF RegOK
  <2>. QED  BY <1>1, <1>2, <1>3, <2>1, <2>3, <2>5
<1>4. CASE ~Loads
  <2>1. reg' = reg
    BY <1>4 DEF Load
  <2>2. RegOK'
    BY <1>1, <1>2, <2>1 DEF RegOK
  <2>. QED  BY <1>1, <1>2, <2>1, <2>2
<1>. QED  BY <1>3, <1>4

-----------------------------------------------------------------------------
\* Every step keeps the types.
LEMMA TypeStep ==
  ASSUME Inv, Next
  PROVE  TypeOK'
<1>. USE WordFacts
<1>1. Acquire /\ Load /\ TypeOK /\ RegOK /\ ShadowOK /\ BusOK
  BY DEF Next, Idle, BusRead, Inv
<1>2. /\ valid' \in BOOLEAN /\ reading' \in BOOLEAN
      /\ shadow' \in [Word -> Value] /\ sample' \in 0 .. MaxSample
  BY <1>1, AcquireShadow
<1>3. reg' \in [Word -> Value]
  BY <1>1, LoadReg
<1>4. /\ reg \in [Word -> Value] /\ readdata \in Value /\ lock \in BOOLEAN
      /\ got \in [Reader -> Seq(Value)] /\ \A r \in Reader : Len(got[r]) <= Words
      /\ disturbed \in [Reader -> BOOLEAN] /\ raced \in [Reader -> BOOLEAN]
  BY <1>1 DEF TypeOK
<1>5. CASE NoAccess
  <2>1. /\ lock' \in BOOLEAN /\ readdata' \in Value /\ bus' = {}
        /\ got' = got /\ disturbed' = disturbed /\ raced' = raced
    BY <1>4, <1>5 DEF NoAccess
  <2>. QED  BY <1>2, <1>3, <1>4, <2>1 DEF TypeOK
<1>6. ASSUME NEW r \in Reader, ReadFirst(r) PROVE TypeOK'
  <2>1. Position(r) \in Word
    BY <1>1, PositionType
  <2>2. lock' \in BOOLEAN /\ readdata' \in Value /\ bus' = {r}
    BY <1>4, <1>6, <2>1 DEF ReadFirst, Access
  <2>3. got' = [got EXCEPT ![r] = IF Position(r) = 1 THEN << >> ELSE got[r]]
    BY <1>6 DEF ReadFirst
  <2>4. got' \in [Reader -> Seq(Value)] /\ \A q \in Reader : Len(got'[q]) <= Words
    BY <1>4, <2>3
  <2>5. disturbed' \in [Reader -> BOOLEAN]
    BY <1>4, <1>6 DEF ReadFirst
  <2>6. raced' \in [Reader -> BOOLEAN]
    BY <1>4, <1>6 DEF ReadFirst, Loads
  <2>. QED  BY <1>2, <1>3, <2>2, <2>4, <2>5, <2>6 DEF TypeOK
<1>7. ASSUME NEW r \in Reader, ReadSecond(r) PROVE TypeOK'
  <2>1. Position(r) \in Word /\ Len(got[r]) < Words
    BY <1>1, <1>7, PositionType DEF ReadSecond, BusOK
  <2>2. /\ lock' \in BOOLEAN /\ readdata' \in Value /\ bus' = {}
        /\ disturbed' = disturbed /\ raced' = raced
    BY <1>4, <1>7, <2>1 DEF ReadSecond, Access
  <2>3. got' = [got EXCEPT ![r] = Append(got[r], readdata)]
    BY <1>7 DEF ReadSecond
  <2>4. got[r] \in Seq(Value) /\ Len(got[r]) \in Nat
    BY <1>4
  <2>5. /\ Append(got[r], readdata) \in Seq(Value)
        /\ Len(Append(got[r], readdata)) = Len(got[r]) + 1
    BY <1>4, <2>4
  <2>6. got' \in [Reader -> Seq(Value)]
    BY <1>4, <2>3, <2>5
  <2>7. \A q \in Reader : Len(got'[q]) <= Words
    BY <1>4, <2>1, <2>3, <2>4, <2>5
  <2>. QED  BY <1>2, <1>3, <1>4, <2>2, <2>6, <2>7 DEF TypeOK
<1>. QED  BY <1>5, <1>6, <1>7 DEF Next, Idle, BusRead, Read

-----------------------------------------------------------------------------
\* A cycle without an access changes the registers only when no set is open.
LEMMA NoAccessKeeps ==
  ASSUME Inv, Acquire, Load, NoAccess
  PROVE  BusOK' /\ SetOK'
<1>1. /\ bus = {} /\ bus' = {} /\ lock' = lock
      /\ got' = got /\ disturbed' = disturbed /\ raced' = raced
  BY DEF NoAccess
<1>2. BusOK'
  BY <1>1 DEF BusOK
<1>3. ASSUME NEW q \in Reader, ~disturbed'[q]
      PROVE  Agrees(q)' /\ Holds(q)' /\ OnBus(q)'
  <2>1. Agrees(q) /\ Holds(q)
    BY <1>1, <1>3 DEF Inv, SetOK
  <2>2. Agrees(q)'
    BY <1>1, <2>1 DEF Agrees
  <2>3. OnBus(q)'
    BY <1>1 DEF OnBus
  <2>4. Holds(q)'
    <3>1. SUFFICES ASSUME Len(got[q]) \in 1 .. Words - 1 PROVE Holds(q)'
      BY <1>1 DEF Holds
    <3>2. lock
      BY <1>1, <2>1, <3>1 DEF Holds
    <3>3. reg' = reg
      BY <3>2, LoadReg DEF Loads, Inv
    <3>. QED  BY <1>1, <2>1, <3>2, <3>3 DEF Holds
  <2>. QED  BY <2>2, <2>3, <2>4
<1>. QED  BY <1>2, <1>3 DEF SetOK

\* The first cycle of a read sets the lock before the registers can change under
\* an open set; the first word of a set is the exception raced stands for.
LEMMA ReadFirstKeeps ==
  ASSUME Inv, Acquire, Load, NEW r \in Reader, ReadFirst(r)
  PROVE  BusOK' /\ SetOK'
<1>. USE WordFacts
<1>1. /\ bus = {} /\ bus' = {r} /\ readdata' = reg[Position(r)]
      /\ got' = [got EXCEPT ![r] = IF Position(r) = 1 THEN << >> ELSE got[r]]
  BY DEF ReadFirst, Access
<1>2. lock' <=> Position(r) # Words
  BY DEF ReadFirst, Access
<1>3. TypeOK /\ RegOK /\ ShadowOK /\ SetOK /\ BusOK
  BY DEF Inv
<1>4. /\ got \in [Reader -> Seq(Value)] /\ disturbed \in [Reader -> BOOLEAN]
      /\ raced \in [Reader -> BOOLEAN] /\ reg \in [Word -> Value]
      /\ \A q \in Reader : Len(got[q]) \in 0 .. Words
  BY <1>3, PositionType DEF TypeOK
<1>5. /\ Position(r) \in Word
      /\ Position(r) = 1 <=> Len(got[r]) \in {0, Words}
      /\ Len(got[r]) < Words => Position(r) = Len(got[r]) + 1
  BY <1>3, PositionType
<1>6. \A q \in Reader \ {r} : got'[q] = got[q]
  BY <1>1, <1>4
<1>7. got'[r] = IF Position(r) = 1 THEN << >> ELSE got[r]
  BY <1>1, <1>4
<1>8. readdata' = reg[Words] /\ reg[Words] \in Int /\ reg'[Words] \in Int
      /\ reg[Words] <= reg'[Words] /\ (lock => reg' = reg) /\ (~Loads => reg' = reg)
  BY <1>1, <1>3, <1>5, LoadReg DEF RegOK, Loads
<1>9. Words >= 3
  BY WordsAssumption DEF WordsAssumption
<1>10. Len(got'[r]) < Words /\ (Position(r) # Words <=> Len(got'[r]) # Words - 1)
  <2>1. CASE Position(r) = 1
    BY <1>7, <1>9, <2>1
  <2>2. CASE Position(r) # 1
    BY <1>4, <1>5, <1>7, <2>2
  <2>. QED  BY <2>1, <2>2
<1>11. BusOK'
  <2>1. SUFFICES ASSUME NEW q \in Reader, q \in bus'
                 PROVE  Len(got'[q]) < Words /\ (lock' <=> Len(got'[q]) # Words - 1)
    BY DEF BusOK
  <2>2. q = r
    BY <1>1, <2>1
  <2>. QED  BY <1>2, <1>10, <2>2
<1>12. ASSUME ~disturbed'[r] PROVE Agrees(r)' /\ Holds(r)' /\ OnBus(r)'
  <2>1. CASE Position(r) = 1
    <3>1. got'[r] = << >> /\ Len(got'[r]) = 0
      BY <1>7, <2>1
    <3>2. raced'[r] <=> (Loads /\ shadow # reg)
      BY <1>4, <2>1 DEF ReadFirst, Loads
    <3>3. ~raced'[r] => reg' = reg
      BY <1>8, <3>2 DEF Load
    <3>4. Agrees(r)'
      BY <1>9, <3>1 DEF Agrees
    <3>5. Holds(r)'
      BY <1>9, <3>1 DEF Holds
    <3>6. OnBus(r)'
      BY <1>8, <3>1, <3>3 DEF OnBus
    <3>. QED  BY <3>4, <3>5, <3>6
  <2>2. CASE Position(r) # 1
    <3>1. got'[r] = got[r] /\ Len(got[r]) \in 1 .. Words - 1
      BY <1>4, <1>5, <1>7, <2>2
    <3>2. raced'[r] = raced[r] /\ ~disturbed[r]
      BY <1>4, <1>12, <2>2 DEF ReadFirst
    <3>3. Agrees(r) /\ Holds(r)
      BY <1>3, <3>2 DEF SetOK
    <3>4. lock
      BY <1>1, <3>1, <3>3 DEF Holds
    <3>5. reg' = reg
      BY <1>8, <3>4
    <3>6. Agrees(r)'
      BY <3>1, <3>2, <3>3 DEF Agrees
    <3>7. lock' \/ (r \in bus' /\ Len(got'[r]) = Words - 1)
      BY <1>1, <1>2, <1>10
    <3>8. Holds(r)'
      BY <3>1, <3>2, <3>3, <3>5, <3>7 DEF Holds
    <3>9. OnBus(r)'
      BY <1>8, <3>1, <3>5 DEF OnBus
    <3>. QED  BY <3>6, <3>8, <3>9
  <2>. QED  BY <2>1, <2>2
<1>13. ASSUME NEW q \in Reader, q # r, ~disturbed'[q]
       PROVE  Agrees(q)' /\ Holds(q)' /\ OnBus(q)'
  <2>1. got'[q] = got[q] /\ raced'[q] = raced[q]
    BY <1>4, <1>6, <1>13 DEF ReadFirst
  <2>2. ~disturbed[q] /\ ~(Position(r) = Words /\ InSet(q))
    BY <1>13 DEF ReadFirst
  <2>3. Agrees(q) /\ Holds(q)
    BY <1>3, <2>2 DEF SetOK
  <2>4. Agrees(q)'
    BY <2>1, <2>3 DEF Agrees
  <2>5. OnBus(q)'
    BY <1>1, <1>13 DEF OnBus
  <2>6. Holds(q)'
    <3>1. SUFFICES ASSUME Len(got[q]) \in 1 .. Words - 1 PROVE Holds(q)'
      BY <2>1 DEF Holds
    <3>2. lock /\ lock'
      BY <1>1, <1>2, <2>2, <2>3, <3>1 DEF Holds, InSet
    <3>3. reg' = reg
      BY <1>8, <3>2
    <3>. QED  BY <2>1, <2>3, <3>2, <3>3 DEF Holds
  <2>. QED  BY <2>4, <2>5, <2>6
<1>. QED  BY <1>11, <1>12, <1>13 DEF SetOK

\* The second cycle delivers what the first one read; the registers stay as they
\* are until the last word of the set is on its way.
LEMMA ReadSecondKeeps ==
  ASSUME Inv, Acquire, Load, NEW r \in Reader, ReadSecond(r)
  PROVE  BusOK' /\ SetOK'
<1>. USE WordFacts
<1>1. /\ bus = {r} /\ bus' = {} /\ disturbed' = disturbed /\ raced' = raced
      /\ got' = [got EXCEPT ![r] = Append(got[r], readdata)]
  BY DEF ReadSecond
<1>2. lock' <=> Position(r) # Words
  BY DEF ReadSecond, Access
<1>3. TypeOK /\ RegOK /\ ShadowOK /\ SetOK /\ BusOK
  BY DEF Inv
<1>4. /\ got \in [Reader -> Seq(Value)] /\ readdata \in Value
      /\ \A q \in Reader : Len(got[q]) \in 0 .. Words
  BY <1>3, PositionType DEF TypeOK
<1>5. /\ Len(got[r]) < Words /\ Position(r) = Len(got[r]) + 1
      /\ (lock <=> Len(got[r]) # Words - 1)
  BY <1>1, <1>3, PositionType DEF BusOK
<1>6. reg[Words] \in Int /\ reg'[Words] \in Int
      /\ reg[Words] <= reg'[Words] /\ (lock => reg' = reg)
  BY <1>3, LoadReg DEF Loads
<1>7. Words >= 3
  BY WordsAssumption DEF WordsAssumption
<1>8. \A q \in Reader \ {r} : got'[q] = got[q]
  BY <1>1, <1>4
<1>9. /\ got'[r] = Append(got[r], readdata)
      /\ Len(got'[r]) = Len(got[r]) + 1
      /\ got'[r][Len(got[r]) + 1] = readdata
      /\ \A i \in 1 .. Len(got[r]) : got'[r][i] = got[r][i]
  <2>1. got[r] \in Seq(Value)
    BY <1>4
  <2>. QED  BY <1>1, <1>4, <2>1
<1>10. BusOK'
  BY <1>1 DEF BusOK
<1>11. ASSUME ~disturbed'[r] PROVE Agrees(r)' /\ Holds(r)' /\ OnBus(r)'
  <2>1. Agrees(r) /\ Holds(r) /\ OnBus(r)
    BY <1>1, <1>3, <1>11 DEF SetOK
  <2>2. OnBus(r)'
    BY <1>1 DEF OnBus
  <2>3. CASE Len(got[r]) = 0
    <3>1. readdata <= reg[Words] /\ (~raced[r] => readdata = reg[Words])
      BY <1>1, <2>1, <2>3 DEF OnBus
    <3>2. Len(got'[r]) = 1 /\ got'[r][1] = readdata
      BY <1>9, <2>3
    <3>3. lock /\ lock'
      BY <1>2, <1>5, <1>7, <2>3
    <3>4. reg' = reg
      BY <1>6, <3>3
    <3>5. Agrees(r)'
      BY <3>2 DEF Agrees
    <3>6. Holds(r)'
      BY <1>1, <3>1, <3>2, <3>3, <3>4 DEF Holds
    <3>. QED  BY <2>2, <3>5, <3>6
  <2>4. CASE Len(got[r]) # 0
    <3>1. readdata = reg[Words] /\ Len(got[r]) \in 1 .. Words - 1
      BY <1>1, <1>4, <1>5, <2>1, <2>4 DEF OnBus
    <3>2. Agrees(r)'
      <4>1. \A i \in 2 .. Len(got'[r]) : got'[r][i] = reg[Words]
        <5>. SUFFICES ASSUME NEW i \in 2 .. Len(got'[r]) PROVE got'[r][i] = reg[Words]
          OBVIOUS
        <5>1. CASE i = Len(got[r]) + 1
          BY <1>9, <3>1, <5>1
        <5>2. CASE i # Len(got[r]) + 1
          <6>1. i \in 2 .. Len(got[r]) /\ Len(got[r]) > 1
            BY <1>9, <3>1, <5>2
          <6>2. got[r][i] = got[r][Len(got[r])]
            BY <2>1, <6>1 DEF Agrees
          <6>3. got[r][Len(got[r])] = reg[Words]
            BY <2>1, <3>1, <6>1 DEF Holds
          <6>. QED  BY <1>9, <3>1, <6>1, <6>2, <6>3
        <5>. QED  BY <5>1, <5>2
      <4>2. got'[r][1] = got[r][1]
        BY <1>9, <3>1
      <4>3. got[r][1] \in Int
        <5>1. got[r] \in Seq(Value) /\ Len(got[r]) >= 1
          BY <1>4, <3>1
        <5>2. got[r][1] \in Value
          BY <5>1
        <5>. QED  BY <5>2
      <4>4. got[r][1] <= reg[Words] /\ (~raced[r] => got[r][1] = reg[Words])
        <5>1. CASE Len(got[r]) = 1
          BY <2>1, <3>1, <5>1 DEF Holds
        <5>2. CASE Len(got[r]) > 1
          <6>1. got[r][2] = got[r][Len(got[r])] /\ got[r][Len(got[r])] = reg[Words]
            BY <2>1, <3>1, <5>2 DEF Agrees, Holds
          <6>2. got[r][1] <= got[r][2] /\ (~raced[r] => got[r][1] = got[r][2])
            BY <2>1, <5>2 DEF Agrees
          <6>3. got[r][1] <= reg[Words]
            BY <6>1, <6>2
          <6>. QED  BY <6>1, <6>2, <6>3
        <5>3. Len(got[r]) = 1 \/ Len(got[r]) > 1
          <6>1. Len(got[r]) \in 1 .. Words - 1 /\ Words - 1 \in Int
            BY <3>1
          <6>2. \A n \in 1 .. Words - 1 : n = 1 \/ n > 1
            OBVIOUS
          <6>. QED  BY <6>1, <6>2
        <5>. QED  BY <5>1, <5>2, <5>3
      <4>5. got'[r][2] = reg[Words] /\ got'[r][Len(got'[r])] = reg[Words]
        BY <1>9, <3>1, <4>1
      <4>. QED  BY <1>1, <4>1, <4>2, <4>4, <4>5 DEF Agrees
    <3>3. Holds(r)'
      <4>1. SUFFICES ASSUME Len(got'[r]) \in 1 .. Words - 1 PROVE Holds(r)'
        BY DEF Holds
      <4>2. lock /\ lock'
        BY <1>2, <1>5, <1>9, <3>1, <4>1
      <4>3. reg' = reg /\ got'[r][Len(got'[r])] = reg[Words] /\ Len(got'[r]) > 1
        BY <1>6, <1>9, <3>1, <4>2
      <4>. QED  BY <4>2, <4>3 DEF Holds
    <3>. QED  BY <2>2, <3>2, <3>3
  <2>. QED  BY <2>3, <2>4
<1>12. ASSUME NEW q \in Reader, q # r, ~disturbed'[q]
       PROVE  Agrees(q)' /\ Holds(q)' /\ OnBus(q)'
  <2>1. got'[q] = got[q]
    BY <1>8, <1>12
  <2>2. Agrees(q) /\ Holds(q)
    BY <1>1, <1>3, <1>12 DEF SetOK
  <2>3. Agrees(q)'
    BY <1>1, <2>1, <2>2 DEF Agrees
  <2>4. OnBus(q)'
    BY <1>1 DEF OnBus
  <2>5. Holds(q)'
    <3>1. SUFFICES ASSUME Len(got[q]) \in 1 .. Words - 1 PROVE Holds(q)'
      BY <2>1 DEF Holds
    <3>2. lock
      BY <1>1, <1>12, <2>2, <3>1 DEF Holds
    <3>3. lock'
      BY <1>2, <1>4, <1>5, <3>2
    <3>4. reg' = reg
      BY <1>6, <3>2
    <3>. QED  BY <1>1, <2>1, <2>2, <3>2, <3>3, <3>4 DEF Holds
  <2>. QED  BY <2>3, <2>4, <2>5
<1>. QED  BY <1>10, <1>11, <1>12 DEF SetOK

-----------------------------------------------------------------------------
LEMMA InitInv == Init => Inv
<1>. USE WordFacts, WordsAssumption, MaxSampleAssumption
     DEF WordsAssumption, MaxSampleAssumption
<1>. SUFFICES ASSUME Init PROVE Inv
  OBVIOUS
<1>1. \A r \in Reader : got[r] = << >> /\ Len(got[r]) = 0
  BY DEF Init
<1>2. TypeOK
  <2>1. got \in [Reader -> Seq(Value)]
    BY DEF Init
  <2>2. shadow \in [Word -> Value] /\ reg \in [Word -> Value] /\ readdata \in Value
    BY DEF Init
  <2>3. sample \in 0 .. MaxSample /\ \A r \in Reader : Len(got[r]) <= Words
    BY <1>1 DEF Init
  <2>4. lock \in BOOLEAN /\ valid \in BOOLEAN /\ reading \in BOOLEAN
    BY DEF Init
  <2>5. /\ bus \in {{}} \cup {{r} : r \in Reader}
        /\ disturbed \in [Reader -> BOOLEAN] /\ raced \in [Reader -> BOOLEAN]
    BY DEF Init
  <2>. QED  BY <2>1, <2>2, <2>3, <2>4, <2>5 DEF TypeOK
<1>3. BusOK
  BY DEF Init, BusOK
<1>4. RegOK
  BY DEF Init, RegOK
<1>5. ShadowOK
  BY DEF Init, ShadowOK
<1>6. SetOK
  BY <1>1 DEF Init, SetOK, Agrees, Holds, OnBus
<1>. QED  BY <1>2, <1>3, <1>4, <1>5, <1>6 DEF Inv

LEMMA StepInv == Inv /\ [Next]_vars => Inv'
<1>. SUFFICES ASSUME Inv, [Next]_vars PROVE Inv'
  OBVIOUS
<1>1. CASE Next
  <2>1. Acquire /\ Load /\ TypeOK /\ RegOK /\ ShadowOK
    BY <1>1 DEF Next, Idle, BusRead, Inv
  <2>2. TypeOK' /\ RegOK' /\ ShadowOK'
    BY <1>1, <2>1, TypeStep, LoadReg, AcquireShadow
  <2>3. CASE NoAccess
    BY <2>1, <2>2, <2>3, NoAccessKeeps DEF Inv
  <2>4. CASE \E r \in Reader : ReadFirst(r)
    BY <2>1, <2>2, <2>4, ReadFirstKeeps DEF Inv
  <2>5. CASE \E r \in Reader : ReadSecond(r)
    BY <2>1, <2>2, <2>5, ReadSecondKeeps DEF Inv
  <2>. QED  BY <1>1, <2>3, <2>4, <2>5 DEF Next, Idle, BusRead, Read
<1>2. CASE UNCHANGED vars
  <2>1. UNCHANGED <<lock, valid, reg, shadow, reading, sample, readdata,
                    bus, got, disturbed, raced>>
    BY <1>2 DEF vars, core
  <2>2. TypeOK' /\ BusOK'
    BY <2>1 DEF Inv, TypeOK, BusOK
  <2>3. RegOK' /\ ShadowOK'
    BY <2>1 DEF Inv, RegOK, ShadowOK
  <2>4. SetOK'
    BY <2>1 DEF Inv, SetOK, Agrees, Holds, OnBus
  <2>. QED  BY <2>2, <2>3, <2>4 DEF Inv
<1>. QED  BY <1>1, <1>2

\* The inductive invariant: the shadow registers are whole whenever they may be
\* loaded, and the lock keeps the registers from the first word of a set to the
\* last one.
THEOREM SetInvariant == Spec => []Inv
BY InitInv, StepInv, PTL DEF Spec

\* The registers, the history of the readers and the rest keep their types for
\* every number of words, readers and acquisitions (fsm of the three cores).
THEOREM TypeCorrect == Spec => []TypeOK
BY SetInvariant, PTL DEF Inv

\* What the bus reads is always one whole acquisition with its own timestamp.
THEOREM RegistersAreWhole == Spec => []WholeRegisters
<1>1. Inv => WholeRegisters
  <2>. SUFFICES ASSUME Inv PROVE WholeRegisters
    OBVIOUS
  <2>1. reg[Words] \in 0 .. sample /\ \A w \in Word : reg[w] = reg[Words]
    BY DEF Inv, RegOK
  <2>2. sample \in 0 .. MaxSample
    BY DEF Inv, TypeOK
  <2>3. reg[Words] \in 0 .. MaxSample
    BY <2>1, <2>2, MaxSampleAssumption DEF MaxSampleAssumption
  <2>. QED  BY <2>1, <2>3 DEF WholeRegisters
<1>. QED  BY <1>1, SetInvariant, PTL

\* A set that nobody disturbed belongs to one acquisition, its first word apart
\* when it raced with the loading of the registers, and then it is older.
THEOREM SetIsOneAcquisition == Spec => []OneAcquisition
<1>1. Inv => OneAcquisition
  BY DEF Inv, SetOK, Agrees, OneAcquisition
<1>. QED  BY <1>1, SetInvariant, PTL

\* The registers are locked only while a set is being read.
THEOREM LockIsReleased == Spec => []LockedOnlyInSet
<1>1. Init => LockedOnlyInSet
  BY DEF Init, LockedOnlyInSet
<1>2. Inv /\ LockedOnlyInSet /\ [Next]_vars => LockedOnlyInSet'
  <2>. SUFFICES ASSUME Inv, LockedOnlyInSet, [Next]_vars PROVE LockedOnlyInSet'
    OBVIOUS
  <2>1. CASE NoAccess \/ UNCHANGED vars
    <3>1. lock' = lock /\ got' = got /\ bus' = bus
      BY <2>1 DEF NoAccess, vars, core
    <3>. QED  BY <3>1 DEF LockedOnlyInSet, InSet
  <2>2. ASSUME NEW r \in Reader, ReadFirst(r) PROVE LockedOnlyInSet'
    BY <2>2 DEF ReadFirst, LockedOnlyInSet, InSet
  <2>3. ASSUME NEW r \in Reader, ReadSecond(r) PROVE LockedOnlyInSet'
    <3>1. /\ bus = {r} /\ got' = [got EXCEPT ![r] = Append(got[r], readdata)]
          /\ (lock' <=> Position(r) # Words)
      BY <2>3 DEF ReadSecond, Access
    <3>2. got \in [Reader -> Seq(Value)] /\ readdata \in Value /\ TypeOK /\ BusOK
      BY DEF Inv, TypeOK
    <3>3. /\ Len(got[r]) \in Nat /\ Len(got[r]) < Words /\ Words \in Nat
          /\ Position(r) = Len(got[r]) + 1
      BY <3>1, <3>2, PositionType, WordFacts DEF BusOK
    <3>4. Len(got'[r]) = Len(got[r]) + 1
      <4>1. got[r] \in Seq(Value)
        BY <3>2
      <4>. QED  BY <3>1, <3>2, <4>1
    <3>5. lock' => Len(got'[r]) \in 1 .. Words - 1
      BY <3>1, <3>3, <3>4
    <3>. QED  BY <3>5 DEF LockedOnlyInSet, InSet
  <2>. QED  BY <2>1, <2>2, <2>3 DEF Next, Idle, BusRead, Read
<1>. QED  BY <1>1, <1>2, SetInvariant, PTL DEF Spec

=============================================================================
