----------------------- MODULE TimeStampingUnit_proofs -----------------------
(***************************************************************************)
(* For any threads and any width: only a thread without fpgaMutex, or one  *)
(* that meets such a thread, can find the calibration half set.  The       *)
(* argument: a thread past the check has seen or set the first half, the   *)
(* second half is missing only while some thread is about to set it, and   *)
(* two threads that take fpgaMutex are never both inside.  Then how often  *)
(* the calibration is set, by counting the threads that are about to set   *)
(* it, and that one calibration puts all results on one clock: differences *)
(* and sums wrap around at the width, and the wraps cancel.                *)
(***************************************************************************)
EXTENDS TimeStampingUnit, FiniteSetTheorems, TLAPS

\* A locked thread is inside the function exactly while it holds fpgaMutex.
MutexInv == \A t \in Locked : pc[t] # "idle" <=> mutex = t

\* A thread past the check finds the first half set, ...
FirstHalf == \A t \in Thread : pc[t] \in {"setMs", "subtract", "add"} => calHw # Unset

\* ... and the second one, unless a thread is on its way to set it.
SecondHalf == calHw # Unset /\ calMs = Unset => \E t \in Thread : pc[t] = "setMs"

Inv == TypeOK /\ MutexInv /\ FirstHalf /\ SecondHalf /\ OnlyUnlockedThrow

LEMMA StampIsTime ==
  ASSUME TypeOK, NEW t \in Thread
  PROVE  HwTimeStamp(t) \in Time
<1>1. stamp[t] \in Time BY DEF TypeOK
<1>2. stamp[t] % Narrow \in 0 .. Narrow - 1 BY <1>1, WidthAssumption DEF Time
<1> QED BY <1>1, <1>2, WidthAssumption DEF HwTimeStamp, Time

LEMMA InitInv == Init => Inv
<1> SUFFICES ASSUME Init PROVE Inv OBVIOUS
<1>1. TypeOK
  <2>1. 0 \in 0 .. MaxNow /\ 0 \in Time BY WidthAssumption DEF Time
  <2>2. now \in 0 .. MaxNow /\ boot \in 0 .. now BY <2>1 DEF Init
  <2>3. stamp \in [Thread -> Time] /\ diff \in [Thread -> Time] BY <2>1 DEF Init
  <2>4. skew = {} /\ spoiled \in BOOLEAN /\ calibrations \in Nat BY DEF Init
  <2> QED BY <2>2, <2>3, <2>4 DEF Init, TypeOK
<1>2. MutexInv BY ThreadsAssumption DEF Init, MutexInv, Thread, Nobody
<1>3. FirstHalf /\ SecondHalf /\ OnlyUnlockedThrow
  BY DEF Init, FirstHalf, SecondHalf, OnlyUnlockedThrow
<1> QED BY <1>1, <1>2, <1>3 DEF Inv

LEMMA TypeStep == TypeOK /\ [Next]_vars => TypeOK'
<1> SUFFICES ASSUME TypeOK, [Next]_vars PROVE TypeOK' OBVIOUS
<1> USE DEF TypeOK
<1>1. CASE UNCHANGED vars BY <1>1 DEF vars
<1>2. CASE Tick BY <1>2, WidthAssumption DEF Tick, history
<1>3. CASE Reconfigure BY <1>3, WidthAssumption DEF Reconfigure, history
<1>4. ASSUME NEW t \in Thread, Call(t) PROVE TypeOK'
  <2>1. 0 .. now - boot \subseteq Time BY WidthAssumption DEF Time
  <2>2. stamp' \in [Thread -> Time] BY <1>4, <2>1 DEF Call
  <2>3. mutex' \in Locked \cup {Nobody} BY <1>4 DEF Call
  <2>4. pc' \in [Thread -> {"idle", "check", "setHw", "setMs", "subtract", "add"}]
    BY <1>4 DEF Call, At
  <2>5. spoiled' \in BOOLEAN BY <1>4 DEF Call
  <2> QED BY <1>4, <2>2, <2>3, <2>4, <2>5 DEF Call, history
<1>5. ASSUME NEW t \in Thread, Check(t) PROVE TypeOK'
  BY <1>5 DEF Check, At, history
<1>6. ASSUME NEW t \in Thread, SetHw(t) PROVE TypeOK'
  BY <1>6, StampIsTime DEF SetHw, At
<1>7. ASSUME NEW t \in Thread, SetMs(t) PROVE TypeOK'
  <2>1. now \in Time BY WidthAssumption DEF Time
  <2> QED BY <1>7, <2>1 DEF SetMs, At, history
<1>8. ASSUME NEW t \in Thread, Subtract(t) PROVE TypeOK'
  <2>1. HwTimeStamp(t) \in Int /\ calHw \in Int
    BY StampIsTime DEF Time, Unset
  <2>2. (HwTimeStamp(t) - calHw) % Modulus \in Time
    BY <2>1, WidthAssumption DEF Time
  <2> QED BY <1>8, <2>2 DEF Subtract, At, history
<1>9. ASSUME NEW t \in Thread, Add(t) PROVE TypeOK'
  <2>1. diff[t] \in Int /\ calMs \in Int /\ stamp[t] \in Int BY DEF Time, Unset
  <2>2. (diff[t] + calMs) % Modulus \in Int BY <2>1, WidthAssumption
  <2>3. (((diff[t] + calMs) % Modulus) - stamp[t]) % Modulus \in Time
    BY <2>1, <2>2, WidthAssumption DEF Time
  <2>4. skew' \subseteq Time BY <1>9, <2>3 DEF Add
  <2>5. 0 \in Time BY WidthAssumption DEF Time
  <2>6. stamp' \in [Thread -> Time] /\ diff' \in [Thread -> Time] BY <1>9, <2>5 DEF Add
  <2>7. mutex' \in Locked \cup {Nobody} /\ diedBy' \in Thread \cup {Nobody} BY <1>9 DEF Add
  <2> QED BY <1>9, <2>4, <2>6, <2>7 DEF Add, At
<1> QED BY <1>1, <1>2, <1>3, <1>4, <1>5, <1>6, <1>7, <1>8, <1>9 DEF Next

LEMMA MutexStep == TypeOK /\ MutexInv /\ [Next]_vars => MutexInv'
<1> SUFFICES ASSUME TypeOK, MutexInv, [Next]_vars PROVE MutexInv' OBVIOUS
<1> USE ThreadsAssumption DEF TypeOK, MutexInv, Thread, Nobody
<1>1. CASE UNCHANGED <<pc, mutex>> BY <1>1
<1>2. ASSUME NEW t \in Thread, Call(t) PROVE MutexInv' BY <1>2 DEF Call, At
<1>3. ASSUME NEW t \in Thread, Add(t) PROVE MutexInv' BY <1>3 DEF Add, At
<1>4. ASSUME NEW t \in Thread, Check(t) \/ SetHw(t) \/ SetMs(t) \/ Subtract(t)
      PROVE MutexInv'
  <2>1. PICK from, to \in {"check", "setHw", "setMs", "subtract", "add"} : At(t, from, to)
    BY <1>4 DEF Check, SetHw, SetMs, Subtract
  <2>2. mutex' = mutex BY <1>4 DEF Check, SetHw, SetMs, Subtract
  <2> QED BY <2>1, <2>2 DEF At
<1> QED BY <1>1, <1>2, <1>3, <1>4 DEF Next, vars, Tick, Reconfigure

LEMMA HalvesStep ==
  TypeOK /\ FirstHalf /\ SecondHalf /\ [Next]_vars => FirstHalf' /\ SecondHalf'
<1> SUFFICES ASSUME TypeOK, FirstHalf, SecondHalf, [Next]_vars
             PROVE  FirstHalf' /\ SecondHalf'
  OBVIOUS
<1> USE DEF TypeOK, FirstHalf, SecondHalf
<1>1. CASE UNCHANGED <<pc, calHw, calMs>> BY <1>1
<1>2. ASSUME NEW t \in Thread, Call(t) PROVE FirstHalf' /\ SecondHalf'
  BY <1>2 DEF Call, At
<1>3. ASSUME NEW t \in Thread, Check(t) PROVE FirstHalf' /\ SecondHalf'
  BY <1>3 DEF Check, At
<1>4. ASSUME NEW t \in Thread, SetHw(t) PROVE FirstHalf' /\ SecondHalf'
  <2>1. calHw' # Unset BY <1>4, StampIsTime DEF SetHw, Time, Unset
  <2> QED BY <1>4, <2>1 DEF SetHw, At
<1>5. ASSUME NEW t \in Thread, SetMs(t) PROVE FirstHalf' /\ SecondHalf'
  <2>1. calMs' # Unset BY <1>5 DEF SetMs, Unset
  <2> QED BY <1>5, <2>1 DEF SetMs, At
<1>6. ASSUME NEW t \in Thread, Subtract(t) PROVE FirstHalf' /\ SecondHalf'
  BY <1>6 DEF Subtract, At
<1>7. ASSUME NEW t \in Thread, Add(t) PROVE FirstHalf' /\ SecondHalf'
  BY <1>7 DEF Add, At
<1> QED BY <1>1, <1>2, <1>3, <1>4, <1>5, <1>6, <1>7 DEF Next, vars, Tick, Reconfigure

LEMMA ThrowStep == Inv /\ [Next]_vars => OnlyUnlockedThrow'
<1> SUFFICES ASSUME Inv, [Next]_vars PROVE OnlyUnlockedThrow' OBVIOUS
<1> USE DEF Inv, OnlyUnlockedThrow
<1>1. CASE UNCHANGED vars BY <1>1 DEF vars
<1>2. CASE UNCHANGED diedBy /\ diedBy = Nobody BY <1>2
<1>3. ASSUME NEW t \in Thread, Add(t), calMs = Unset, diedBy' = t PROVE OnlyUnlockedThrow'
  <2>1. pc[t] = "add" BY <1>3 DEF Add, At
  <2>2. PICK u \in Thread : pc[u] = "setMs" BY <1>3, <2>1 DEF FirstHalf, SecondHalf
  <2>3. u # t BY <2>1, <2>2
  <2>4. pc'[u] = "setMs" BY <1>3, <2>2, <2>3 DEF Add, At, TypeOK
  <2>5. {u, t} \cap Free # {}
    <3>1. CASE u \in Locked /\ t \in Locked BY <2>1, <2>2, <2>3, <3>1 DEF MutexInv
    <3> QED BY <3>1 DEF Thread
  <2> QED BY <1>3, <2>3, <2>4, <2>5
<1>4. CASE Tick \/ Reconfigure BY <1>2, <1>4 DEF Tick, Reconfigure
<1>5. ASSUME NEW t \in Thread,
             Call(t) \/ Check(t) \/ SetHw(t) \/ SetMs(t) \/ Subtract(t) \/ Add(t)
      PROVE OnlyUnlockedThrow'
  BY <1>2, <1>3, <1>5 DEF Call, Check, SetHw, SetMs, Subtract, Add, At
<1> QED BY <1>1, <1>4, <1>5 DEF Next

LEMMA InvStep == Inv /\ [Next]_vars => Inv'
BY TypeStep, MutexStep, HalvesStep, ThrowStep DEF Inv

\* Every value stays in its type, whatever the widths: the difference of an older
\* sample wraps around and the sum wraps back (return of getResolvedTimeStamp).
THEOREM TypeCorrect == Spec => []TypeOK
<1>1. Inv => TypeOK BY DEF Inv
<1> QED BY InitInv, InvStep, <1>1, PTL DEF Spec

\* value() throws only in a thread that is outside fpgaMutex or met one that is: the
\* two callers in doPoll alone can never end the process.
THEOREM ThrowsOnlyUnlocked == Spec => []OnlyUnlockedThrow
<1>1. Inv => OnlyUnlockedThrow BY DEF Inv
<1> QED BY InitInv, InvStep, <1>1, PTL DEF Spec

-----------------------------------------------------------------------------
(* How often the calibration is set.                                       *)

\* The threads that found no calibration and are going to set one.
Pending == {t \in Thread : pc[t] = "setHw"}

\* Nobody joins them once the first half is set, and before that at most one of them
\* holds fpgaMutex.
PendingInv ==
  /\ calHw = Unset => calibrations = 0
  /\ IsFiniteSet(Pending)
  /\ calibrations + Cardinality(Pending) <= 1 + Cardinality(Free)

\* Of the threads with the lock one at a time is inside.
LEMMA PendingBound ==
  MutexInv => IsFiniteSet(Pending) /\ Cardinality(Pending) <= 1 + Cardinality(Free)
<1> SUFFICES ASSUME MutexInv
             PROVE  IsFiniteSet(Pending) /\ Cardinality(Pending) <= 1 + Cardinality(Free)
  OBVIOUS
<1>1. Pending \subseteq Free \cup {mutex}
  BY DEF MutexInv, Pending, Thread
<1>2. IsFiniteSet(Free \cup {mutex})
      /\ Cardinality(Free \cup {mutex}) <= Cardinality(Free) + 1
  BY FreeAssumption, FS_AddElement, FS_CardinalityType DEF FreeAssumption
<1>3. IsFiniteSet(Pending) /\ Cardinality(Pending) <= Cardinality(Free \cup {mutex})
  BY <1>1, <1>2, FS_Subset
<1> QED BY <1>2, <1>3, FreeAssumption, FS_CardinalityType DEF FreeAssumption

LEMMA PendingInit == Init => PendingInv
<1> SUFFICES ASSUME Init PROVE PendingInv OBVIOUS
<1>1. Pending = {} BY DEF Init, Pending
<1>2. IsFiniteSet(Pending) /\ Cardinality(Pending) = 0 BY <1>1, FS_EmptySet
<1>3. Cardinality(Free) \in Nat BY FreeAssumption, FS_CardinalityType DEF FreeAssumption
<1> QED BY <1>2, <1>3 DEF Init, PendingInv

LEMMA PendingStep == Inv /\ PendingInv /\ [Next]_vars => PendingInv'
<1> SUFFICES ASSUME Inv, PendingInv, [Next]_vars PROVE PendingInv' OBVIOUS
<1>1. /\ pc \in [Thread -> {"idle", "check", "setHw", "setMs", "subtract", "add"}]
      /\ calibrations \in Nat /\ Cardinality(Pending) \in Nat /\ Cardinality(Free) \in Nat
      /\ MutexInv'
  <2>1. Cardinality(Pending) \in Nat BY FS_CardinalityType DEF PendingInv
  <2>2. Cardinality(Free) \in Nat BY FreeAssumption, FS_CardinalityType DEF FreeAssumption
  <2> QED BY <2>1, <2>2, InvStep DEF Inv, TypeOK
<1>2. CASE UNCHANGED <<calHw, calibrations>> /\ Pending' = Pending
  BY <1>2 DEF PendingInv
<1>3. CASE UNCHANGED <<calHw, calibrations>> /\ calHw = Unset
  <2>1. (MutexInv => IsFiniteSet(Pending) /\ Cardinality(Pending) <= 1 + Cardinality(Free))'
    BY PendingBound, PTL
  <2>2. IsFiniteSet(Pending') /\ Cardinality(Pending') <= 1 + Cardinality(Free)
    BY <1>1, <2>1
  <2>3. Cardinality(Pending') \in Nat BY <2>2, FS_CardinalityType
  <2>4. calHw' = Unset /\ calibrations' = 0 BY <1>3 DEF PendingInv
  <2> QED BY <1>1, <2>2, <2>3, <2>4 DEF PendingInv
<1>4. ASSUME NEW t \in Thread, SetHw(t) PROVE PendingInv'
  <2>1. Pending' = Pending \ {t} /\ t \in Pending
    BY <1>1, <1>4 DEF SetHw, At, Pending
  <2>2. IsFiniteSet(Pending') /\ Cardinality(Pending') = Cardinality(Pending) - 1
    BY <2>1, FS_RemoveElement DEF PendingInv
  <2>3. calibrations' = calibrations + 1 BY <1>4 DEF SetHw
  <2>4. calHw' # Unset BY <1>4, StampIsTime DEF Inv, SetHw, Time, Unset
  <2> QED BY <1>1, <2>2, <2>3, <2>4 DEF PendingInv
<1>5. ASSUME NEW t \in Thread, Check(t), calHw # Unset PROVE PendingInv'
  <2>1. Pending' = Pending BY <1>1, <1>5 DEF Check, At, Pending
  <2> QED BY <1>2, <1>5, <2>1 DEF Check, history
<1>6. ASSUME NEW t \in Thread, Call(t) \/ SetMs(t) \/ Subtract(t) \/ Add(t) PROVE PendingInv'
  <2>1. PICK from, to \in {"idle", "check", "setMs", "subtract", "add"} : At(t, from, to)
    BY <1>6 DEF Call, SetMs, Subtract, Add
  <2>2. Pending' = Pending BY <1>1, <2>1 DEF At, Pending
  <2>3. UNCHANGED <<calHw, calibrations>> BY <1>6 DEF Call, SetMs, Subtract, Add, history
  <2> QED BY <1>2, <2>2, <2>3
<1>7. CASE Tick \/ Reconfigure \/ UNCHANGED vars
  BY <1>2, <1>7 DEF Tick, Reconfigure, vars, history, Pending
<1>8. ASSUME NEW t \in Thread, Check(t), calHw = Unset PROVE PendingInv'
  BY <1>3, <1>8 DEF Check, history
<1> QED BY <1>4, <1>5, <1>6, <1>7, <1>8 DEF Next

\* The calibration is set once by all threads that take fpgaMutex together, and once
\* more at most by each thread that does not.
THEOREM CalibratedAtMost == Spec => []CalibratedOnce
<1>1. PendingInv /\ TypeOK => CalibratedOnce
  <2> SUFFICES ASSUME PendingInv, TypeOK PROVE CalibratedOnce OBVIOUS
  <2>1. Cardinality(Pending) \in Nat /\ Cardinality(Free) \in Nat
    BY FreeAssumption, FS_CardinalityType DEF PendingInv, FreeAssumption
  <2> QED BY <2>1 DEF PendingInv, CalibratedOnce, TypeOK
<1> QED BY InitInv, InvStep, PendingInit, PendingStep, TypeCorrect, <1>1, PTL DEF Spec

-----------------------------------------------------------------------------
(* One clock.                                                              *)

\* One wrap around is all a difference or a sum of two timestamps makes.
LEMMA WrapsOnce ==
  ASSUME NEW x \in Int, -Modulus < x, x < 2 * Modulus
  PROVE  x % Modulus = IF x < 0 THEN x + Modulus ELSE IF x < Modulus THEN x ELSE x - Modulus
BY WidthAssumption

\* A sample older than the calibration wraps the difference, and the sum wraps back.
LEMMA WrapsBack ==
  ASSUME NEW s \in Time, NEW h \in Time, NEW m \in Time
  PROVE  ((((((s - h) % Modulus) + m) % Modulus) - s) % Modulus) = ((m - h) % Modulus)
<1> DEFINE d == (s - h) % Modulus
           sum == (d + m) % Modulus
<1>1. Modulus \in Nat \ {0} BY WidthAssumption
<1>2. d = (IF s < h THEN s - h + Modulus ELSE s - h) /\ d \in Time
  BY <1>1, WrapsOnce DEF Time
<1>3. (m - h) % Modulus = IF m < h THEN m - h + Modulus ELSE m - h
  BY <1>1, WrapsOnce DEF Time
<1> HIDE DEF d
<1>4. sum = (IF d + m < Modulus THEN d + m ELSE d + m - Modulus) /\ sum \in Time
  BY <1>1, <1>2, WrapsOnce DEF Time
<1> HIDE DEF sum
<1>5. (sum - s) % Modulus = IF sum < s THEN sum - s + Modulus ELSE sum - s
  BY <1>1, <1>4, WrapsOnce DEF Time
<1> QED BY <1>1, <1>2, <1>3, <1>4, <1>5 DEF Time, d, sum

\* The one calibration, still valid: no stamp lost bits, ...
Calibrated == calibrations <= 1 /\ ~spoiled

StampsWhole == \A t \in NarrowOnes : stamp[t] < Narrow

\* ... both halves are set in turn, the second one by the only thread that set the first, ...
HalvesInTurn ==
  /\ calibrations = 0 => calHw = Unset /\ calMs = Unset
  /\ \A t \in Thread : pc[t] = "setMs" => calMs = Unset
  /\ \A t, u \in Thread : pc[t] = "setMs" /\ pc[u] = "setMs" => t = u

\* ... the differences are taken from the first half that still stands, ...
DiffsFromFirstHalf ==
  \A t \in Thread : pc[t] = "add" => diff[t] = (stamp[t] - calHw) % Modulus

\* ... and every result was ahead of its stamp by the difference of the two halves.
SkewOfCalibration ==
  skew \subseteq IF calMs = Unset THEN {} ELSE {(calMs - calHw) % Modulus}

ClockInv ==
  Calibrated => StampsWhole /\ HalvesInTurn /\ DiffsFromFirstHalf /\ SkewOfCalibration

LEMMA ClockInit == Init => ClockInv
BY ThreadsAssumption, WidthAssumption
   DEF Init, ClockInv, StampsWhole, HalvesInTurn, DiffsFromFirstHalf, SkewOfCalibration, Thread, Unset

LEMMA WholeStamp ==
  ASSUME TypeOK, StampsWhole, NEW t \in Thread
  PROVE  HwTimeStamp(t) = stamp[t]
<1>1. stamp[t] \in Nat BY DEF TypeOK, Time
<1>2. ASSUME t \in NarrowOnes PROVE stamp[t] % Narrow = stamp[t]
  <2>1. stamp[t] < Narrow BY <1>2 DEF StampsWhole
  <2>2. Narrow \in Nat \ {0} BY WidthAssumption
  <2> QED BY <1>1, <2>1, <2>2
<1> QED BY <1>2 DEF HwTimeStamp

\* A validity that is lost stays lost.
LEMMA StaysCalibrated ==
  ASSUME TypeOK, [Next]_vars, Calibrated'
  PROVE  Calibrated
<1> USE DEF TypeOK, Calibrated, history
<1>1. ASSUME NEW t \in Thread,
             Call(t) \/ Check(t) \/ SetHw(t) \/ SetMs(t) \/ Subtract(t) \/ Add(t)
      PROVE Calibrated
  BY <1>1 DEF Call, Check, SetHw, SetMs, Subtract, Add
<1> QED BY <1>1 DEF Next, Tick, Reconfigure, vars

LEMMA ClockStep == Inv /\ PendingInv /\ ClockInv /\ [Next]_vars => ClockInv'
<1> SUFFICES ASSUME Inv, PendingInv, ClockInv, [Next]_vars, Calibrated'
             PROVE  (StampsWhole /\ HalvesInTurn /\ DiffsFromFirstHalf /\ SkewOfCalibration)'
  BY DEF ClockInv
<1>1. TypeOK /\ FirstHalf BY DEF Inv
<1>2. Calibrated /\ StampsWhole /\ HalvesInTurn /\ DiffsFromFirstHalf /\ SkewOfCalibration
  BY <1>1, StaysCalibrated DEF ClockInv
<1>3. /\ pc \in [Thread -> {"idle", "check", "setHw", "setMs", "subtract", "add"}]
      /\ stamp \in [Thread -> Time] /\ diff \in [Thread -> Time]
      /\ NarrowOnes \subseteq Thread
  BY <1>1, ThreadsAssumption DEF TypeOK, Thread
<1> USE DEF StampsWhole, HalvesInTurn, DiffsFromFirstHalf, SkewOfCalibration, history
<1>4. CASE UNCHANGED <<calHw, calMs, pc, stamp, diff, calibrations, skew>>
  BY <1>2, <1>4
<1>5. ASSUME NEW t \in Thread, Call(t)
      PROVE  (StampsWhole /\ HalvesInTurn /\ DiffsFromFirstHalf /\ SkewOfCalibration)'
  <2>1. StampsWhole'
    <3>1. PICK s \in 0 .. now - boot :
            /\ stamp' = [stamp EXCEPT ![t] = s]
            /\ spoiled' = (spoiled \/ (t \in NarrowOnes /\ s >= Narrow))
      BY <1>5 DEF Call
    <3>2. t \in NarrowOnes => ~(s >= Narrow) BY <3>1 DEF Calibrated
    <3>3. s \in Int /\ Narrow \in Nat BY <3>1, WidthAssumption, <1>1 DEF TypeOK
    <3> QED BY <1>2, <1>3, <3>1, <3>2, <3>3
  <2>2. HalvesInTurn' BY <1>2, <1>3, <1>5 DEF Call, At
  <2>3. DiffsFromFirstHalf'
    <3>1. \A u \in Thread : pc'[u] = "add" => pc[u] = "add" /\ stamp'[u] = stamp[u]
      BY <1>3, <1>5 DEF Call, At
    <3> QED BY <1>2, <1>5, <3>1 DEF Call
  <2>4. SkewOfCalibration' BY <1>2, <1>5 DEF Call
  <2> QED BY <2>1, <2>2, <2>3, <2>4
<1>6. ASSUME NEW t \in Thread, Check(t)
      PROVE  (StampsWhole /\ HalvesInTurn /\ DiffsFromFirstHalf /\ SkewOfCalibration)'
  BY <1>2, <1>3, <1>6 DEF Check, At
<1>7. ASSUME NEW t \in Thread, SetHw(t)
      PROVE  (StampsWhole /\ HalvesInTurn /\ DiffsFromFirstHalf /\ SkewOfCalibration)'
  <2>1. calibrations = 0 BY <1>1, <1>7 DEF SetHw, Calibrated, TypeOK
  <2>2. calHw = Unset /\ calMs = Unset BY <1>2, <2>1
  <2>3. \A u \in Thread : pc'[u] \in {"setMs", "add"} => u = t /\ pc'[u] = "setMs"
    BY <1>1, <1>3, <1>7, <2>2 DEF SetHw, At, FirstHalf
  <2>4. calibrations' # 0 BY <1>7, <2>1 DEF SetHw
  <2> QED BY <1>2, <1>7, <2>2, <2>3, <2>4 DEF SetHw
<1>8. ASSUME NEW t \in Thread, SetMs(t)
      PROVE  (StampsWhole /\ HalvesInTurn /\ DiffsFromFirstHalf /\ SkewOfCalibration)'
  <2>1. pc[t] = "setMs" /\ calMs = Unset /\ skew = {} /\ calHw # Unset
    BY <1>1, <1>2, <1>8 DEF SetMs, At, FirstHalf
  <2>2. calibrations # 0 BY <1>2, <2>1
  <2>3. \A u \in Thread : pc'[u] # "setMs" BY <1>2, <1>3, <1>8, <2>1 DEF SetMs, At
  <2>4. \A u \in Thread : pc'[u] = "add" => pc[u] = "add" BY <1>3, <1>8 DEF SetMs, At
  <2> QED BY <1>2, <1>8, <2>1, <2>2, <2>3, <2>4 DEF SetMs
<1>9. ASSUME NEW t \in Thread, Subtract(t)
      PROVE  (StampsWhole /\ HalvesInTurn /\ DiffsFromFirstHalf /\ SkewOfCalibration)'
  <2>1. HwTimeStamp(t) = stamp[t] BY <1>1, <1>2, WholeStamp
  <2>2. diff'[t] = (stamp[t] - calHw) % Modulus BY <1>3, <1>9, <2>1 DEF Subtract
  <2>3. \A u \in Thread \ {t} : pc'[u] = pc[u] /\ diff'[u] = diff[u]
    BY <1>3, <1>9 DEF Subtract, At
  <2>4. pc'[t] = "add" BY <1>3, <1>9 DEF Subtract, At
  <2>5. UNCHANGED <<stamp, calHw, calMs, calibrations, skew>> BY <1>9 DEF Subtract
  <2>6. DiffsFromFirstHalf' BY <1>2, <2>2, <2>3, <2>5
  <2>7. HalvesInTurn' BY <1>2, <2>3, <2>4, <2>5
  <2> QED BY <1>2, <2>5, <2>6, <2>7
<1>10. ASSUME NEW t \in Thread, Add(t)
       PROVE  (StampsWhole /\ HalvesInTurn /\ DiffsFromFirstHalf /\ SkewOfCalibration)'
  <2>1. UNCHANGED <<calHw, calMs, calibrations>> BY <1>10 DEF Add
  <2>2. \A u \in Thread \ {t} : pc'[u] = pc[u] /\ diff'[u] = diff[u] /\ stamp'[u] = stamp[u]
    BY <1>3, <1>10 DEF Add, At
  <2>3. pc'[t] = "idle" /\ stamp'[t] = 0 BY <1>3, <1>10 DEF Add, At
  <2>4. StampsWhole' BY <1>2, <1>3, <2>2, <2>3, WidthAssumption
  <2>5. HalvesInTurn' BY <1>2, <2>1, <2>2, <2>3
  <2>6. DiffsFromFirstHalf' BY <1>2, <2>1, <2>2, <2>3
  <2>7. CASE calMs = Unset BY <1>2, <1>10, <2>1, <2>4, <2>5, <2>6, <2>7 DEF Add
  <2>8. CASE calMs # Unset
    <3>1. pc[t] = "add" BY <1>10 DEF Add, At
    <3>2. diff[t] = (stamp[t] - calHw) % Modulus /\ calHw # Unset
      BY <1>1, <1>2, <3>1 DEF FirstHalf
    <3>3. stamp[t] \in Time /\ calHw \in Time /\ calMs \in Time
      BY <1>1, <2>8, <3>2 DEF TypeOK
    <3>4. ((((diff[t] + calMs) % Modulus) - stamp[t]) % Modulus) = ((calMs - calHw) % Modulus)
      BY <3>2, <3>3, WrapsBack
    <3>5. skew' = skew \cup {(((diff[t] + calMs) % Modulus) - stamp[t]) % Modulus}
      BY <1>10, <2>8 DEF Add
    <3>6. SkewOfCalibration' BY <1>2, <2>1, <2>8, <3>4, <3>5
    <3> QED BY <2>4, <2>5, <2>6, <3>6
  <2> QED BY <2>7, <2>8
<1>11. CASE Tick BY <1>4, <1>11 DEF Tick
<1>12. CASE Reconfigure BY <1>12 DEF Reconfigure, Calibrated
<1>13. CASE UNCHANGED vars BY <1>4, <1>13 DEF vars
<1> QED BY <1>5, <1>6, <1>7, <1>8, <1>9, <1>10, <1>11, <1>12, <1>13 DEF Next

\* Whatever the order of the threads, and however the differences wrap around: all
\* results of one valid calibration are on the same clock, for timestamps of any width.
THEOREM OneClockKept == Spec => []OneClock
<1>1. ClockInv => OneClock
  <2> SUFFICES ASSUME ClockInv, Calibrated PROVE Cardinality(skew) <= 1
    BY DEF OneClock, Calibrated
  <2>1. PICK d : skew \subseteq {d} BY DEF ClockInv, SkewOfCalibration
  <2>2. IsFiniteSet({d}) /\ Cardinality({d}) = 1 BY FS_Singleton
  <2> QED BY <2>1, <2>2, FS_Subset
<1> QED BY InitInv, InvStep, PendingInit, PendingStep, ClockInit, ClockStep, <1>1, PTL DEF Spec

=============================================================================
