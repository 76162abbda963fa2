----------------------- MODULE ShockRecorder_proofs ------------------------
(***************************************************************************)
(* Proofs about the shock recorder, for every size of the RAM, every       *)
(* number of pre-shock samples that leaves room for two more, and every    *)
(* behaviour of the bus master and the sensor; and that it implements      *)
(* EventBuffer if the bus leaves an idle cycle after a read.               *)
(***************************************************************************)
EXTENDS MCShockRecorder, Integers, TLAPS

USE SizeAssumption, PreShockAssumption, MaxSampleAssumption
DEF SizeAssumption, PreShockAssumption, MaxSampleAssumption

-----------------------------------------------------------------------------
(* Arithmetic of the ring.                                                 *)

\* Moving an address by at most a whole turn of the ring gives an address.
LEMMA RingType ==
  /\ \A a \in Address : Inc(a) \in Address
  /\ \A a \in Address, n \in 0 .. Size : Back(a, n) \in Address
  /\ \A a \in Address, n \in 0 .. Size : Ahead(a, n) \in Address
BY DEF Address, Inc, Back, Ahead

\* Going back one step more after an increment ends at the same address.
LEMMA BackOfInc ==
  ASSUME NEW a \in Address, NEW n \in 0 .. Size - 1
  PROVE  Back(Inc(a), n + 1) = Back(a, n)
BY DEF Address, Inc, Back

\* Only a whole turn leads back to the start.
LEMMA BackToSelf ==
  ASSUME NEW a \in Address, NEW n \in 1 .. Size
  PROVE  Back(a, n) = a <=> n = Size
BY DEF Address, Back

\* Distinct distances within a turn are distinct addresses.
LEMMA BackInjective ==
  ASSUME NEW a \in Address, NEW m \in 1 .. Size, NEW n \in 1 .. Size, m # n
  PROVE  Back(a, m) # Back(a, n)
BY DEF Address, Back

\* Ahead by k is back by the rest of the turn.
LEMMA AheadIsBack ==
  ASSUME NEW a \in Address, NEW k \in 0 .. Size - 1
  PROVE  Ahead(a, k) = Back(a, Size - k)
BY DEF Address, Ahead, Back

-----------------------------------------------------------------------------
\* A clock cycle keeps every variable in its type.
LEMMA CycleType ==
  ASSUME TypeOK, NEW op \in BusOp, NEW loud \in BOOLEAN, Cycle(op, loud)
  PROVE  TypeOK'
<1> USE DEF Cycle, Fsm, TypeOK
<1>1. wAddr' \in Address /\ rAddr' \in Address
  BY RingType DEF NextWAddr, NextRAddr
<1>2. state' \in {"Idle", "WaitShock", "RecShock"} /\ wState' \in {"Idle", "IncAddr"}
  BY DEF NextState
<1>3. {write, rInc, avail, int, intEn, newData}' \subseteq BOOLEAN
  <2>1. {write, rInc, avail}' \subseteq BOOLEAN
    BY DEF StartsWrite, NextAvail, Completes, Delivers, BufRead
  <2>2. {int, intEn}' \subseteq BOOLEAN
    BY DEF NextInt, NextIntEn, Completes
  <2>3. newData' \in BOOLEAN
    BY DEF Acquire
  <2> QED BY <2>1, <2>2, <2>3
<1>4. rState' \in 0 .. Fields - 1
  BY FieldsAssumption DEF FieldsAssumption, NextRState
<1>5. shadow' \in Sample
  BY DEF Acquire, Sample
<1>6. ram' \in [Address -> Sample] /\ {ramOut, ramRData}' \subseteq Sample \cup {Garbage}
  BY DEF Ram
<1>7. readdata' \in Sample \cup {Garbage, Invalid}
  BY DEF Sample
<1>8. busWait' \in 0 .. BusGap + 1
  BY BusGapAssumption DEF BusGapAssumption, BusNext, BusMay
<1>9. armSeq' \in Sample /\ shockSeq' \in Sample
  BY DEF Remember
<1>10. capture' \in {"none", "open", "sealed"}
  BY DEF Remember
<1>11. got' \in Seq(Sample \cup {Garbage})
  BY DEF Remember
<1> QED BY <1>1, <1>2, <1>3, <1>4, <1>5, <1>6, <1>7, <1>8, <1>9, <1>10, <1>11

\* Every step is a clock cycle with some operation on the bus.
LEMMA StepIsCycle ==
  ASSUME Next
  PROVE  \E op \in BusOp, loud \in BOOLEAN : Cycle(op, loud)
<1>1. CASE Quiet       BY <1>1 DEF Quiet, BusOp
<1>2. CASE ReadWord    BY <1>2 DEF ReadWord, BusOp
<1>3. CASE Enable      BY <1>3 DEF Enable, BusOp, Write
<1>4. CASE ClearInt    BY <1>4 DEF ClearInt, BusOp, Write
<1>5. CASE SwitchIntEn BY <1>5 DEF SwitchIntEn, BusOp, Write
<1> QED BY <1>1, <1>2, <1>3, <1>4, <1>5 DEF Next

LEMMA InitType == Init => TypeOK
<1> SUFFICES ASSUME Init PROVE TypeOK
  OBVIOUS
<1>1. 0 \in Address /\ 0 \in Sample /\ 0 \in 0 .. Fields - 1 /\ 0 \in 0 .. BusGap + 1
  BY FieldsAssumption, BusGapAssumption
  DEF FieldsAssumption, BusGapAssumption, Address, Sample
<1>2. {write, rInc, avail, int, intEn, newData} \subseteq BOOLEAN
  BY DEF Init
<1>3. ram \in [Address -> Sample]
  BY <1>1 DEF Init
<1>4. got \in Seq(Sample \cup {Garbage})
  BY DEF Init
<1> QED BY <1>1, <1>2, <1>3, <1>4 DEF Init, TypeOK

\* Every variable keeps its type: in particular the address registers stay
\* within the RAM whatever the master does.
THEOREM TypeCorrect == Spec => []TypeOK
<1>1. TypeOK /\ [Next]_vars => TypeOK'
  <2> SUFFICES ASSUME TypeOK, [Next]_vars PROVE TypeOK'
    OBVIOUS
  <2>1. CASE Next
    BY <2>1, StepIsCycle, CycleType
  <2>2. CASE UNCHANGED vars
    BY <2>2 DEF vars, regs, env, history, TypeOK
  <2> QED BY <2>1, <2>2
<1> QED BY InitType, <1>1, PTL DEF Spec

-----------------------------------------------------------------------------
(* The inductive invariant behind RecordedWindow.                          *)

\* The last sample whose write is complete: shadow, unless its write is still
\* ahead (newData) or takes place in this cycle (write).
Written == IF newData \/ write THEN shadow - 1 ELSE shadow

\* Behind the write address lie the samples recorded since armSeq, without a
\* gap and the newest first, for one turn of the ring.
Trail ==
  state # "Idle" =>
    \A d \in 1 .. Size : Written + 1 > armSeq + d => ram[Back(wAddr, d)] + d = Written + 1

\* While a shock is being recorded, the read address marks the start of the
\* window: PreShock samples before the shock, and not yet reached again.
OpenWindow ==
  capture = "open" =>
    /\ state = "RecShock"
    /\ shockSeq <= Written
    /\ LET n == PreShock + 1 + Written - shockSeq
       IN /\ n <= Size
          /\ write => n < Size
          /\ rAddr = Back(wAddr, n)

WindowInv ==
  /\ TypeOK
  /\ WriteDiscipline
  /\ ~(newData /\ write)
  /\ newData \/ write => shadow > 0
  /\ armSeq <= shadow
  /\ state # "Idle" => armSeq <= Written
  /\ Trail
  /\ OpenWindow
  /\ capture = "sealed" => state = "Idle"
  /\ RecordedWindow

LEMMA InitWindow == Init => WindowInv
<1> SUFFICES ASSUME Init PROVE WindowInv
  OBVIOUS
<1>1. TypeOK
  BY InitType
<1>2. WriteDiscipline
  BY DEF Init, WriteDiscipline
<1> QED
  BY <1>1, <1>2 DEF Init, WindowInv, Written, Trail, OpenWindow, RecordedWindow

\* A clock cycle preserves the invariant.
LEMMA CycleWindow ==
  ASSUME WindowInv, NEW op \in BusOp, NEW loud \in BOOLEAN, Cycle(op, loud)
  PROVE  WindowInv'
<1>1. TypeOK /\ TypeOK'
  BY CycleType DEF WindowInv
<1>. wAddr \in Address /\ rAddr \in Address /\ ram \in [Address -> Nat]
  BY <1>1 DEF TypeOK, Sample
<1>. /\ shadow \in Nat /\ armSeq \in Nat /\ shockSeq \in Nat
     /\ shadow' \in Nat /\ armSeq' \in Nat /\ shockSeq' \in Nat
  BY <1>1 DEF TypeOK, Sample
<1>int. Written \in Int
  BY DEF Written
<1>head. /\ newData \/ write => Written = shadow - 1
         /\ ~newData /\ ~write => Written = shadow
         /\ newData' \/ write' => Written' = shadow' - 1
         /\ ~newData' /\ ~write' => Written' = shadow'
  BY DEF Written
<1>2. WriteDiscipline'
  <2>1. write' <=> wState' = "IncAddr"
    BY DEF Cycle, Fsm
  <2>2. state' = "Idle" => ~StartsWrite
    BY DEF Cycle, Fsm, NextState, StartsWrite, Completes, Detects
  <2> QED BY <2>1, <2>2 DEF Cycle, Fsm, WriteDiscipline
<1>3. ~(newData' /\ write') /\ (newData' \/ write' => shadow' > 0) /\ armSeq' <= shadow'
  <2>1. write' => newData
    BY DEF Cycle, Fsm, StartsWrite
  <2>2. shadow <= shadow' /\ (newData' => ~newData /\ shadow' = shadow + 1)
    BY DEF Cycle, Acquire
  <2>3. armSeq' = armSeq \/ armSeq' = shadow
    BY DEF Cycle, Remember
  <2> QED BY <2>1, <2>2, <2>3 DEF WindowInv
\* What a cycle does to the ring: one sample is written, or none.
<1>4. ASSUME write
      PROVE  /\ Written' = Written + 1 /\ Written' = shadow /\ state # "Idle" /\ ~Completes
             /\ wAddr' = Inc(wAddr) /\ ram' = [ram EXCEPT ![wAddr] = shadow]
             /\ armSeq' = armSeq
  BY <1>1, <1>4 DEF WindowInv, WriteDiscipline, Cycle, Fsm, Ram, Acquire, StartsWrite,
     NextWAddr, Written, Remember, Completes
<1>5. ASSUME ~write
      PROVE  wAddr' = wAddr /\ ram' = ram
  BY <1>5 DEF WindowInv, WriteDiscipline, Cycle, Fsm, Ram, NextWAddr
<1>6. ASSUME ~write, state # "Idle", ~Completes
      PROVE  Written' = Written /\ armSeq' = armSeq
  <2>1. armSeq' = armSeq
    BY <1>6 DEF Cycle, Remember
  <2>2. write' <=> newData
    BY <1>6, <1>1 DEF WindowInv, WriteDiscipline, Cycle, Fsm, StartsWrite, Completes, TypeOK
  <2>3. /\ newData => ~newData' /\ shadow' = shadow
        /\ newData' => shadow' = shadow + 1
        /\ ~newData' => shadow' = shadow
    BY <1>1 DEF Cycle, Acquire, TypeOK
  <2> QED BY <1>6, <1>head, <2>1, <2>2, <2>3
<1>7. ASSUME state = "Idle" \/ Completes, state' # "Idle"
      PROVE  armSeq' = shadow /\ Written' = shadow
  <2>1. op = "Enable"
    BY <1>7 DEF Cycle, Fsm, NextState, Detects, Completes
  <2>2. ~StartsWrite
    BY <1>7 DEF Completes, StartsWrite
  <2>3. ~write' /\ (newData' => shadow' = shadow + 1) /\ (~newData' => shadow' = shadow)
    BY <2>2, <1>1 DEF Cycle, Fsm, Acquire, TypeOK
  <2>4. armSeq' = shadow
    BY <1>7, <2>1 DEF Cycle, Remember
  <2> QED BY <2>3, <2>4, <1>head
<1>8. (state # "Idle" => armSeq <= Written)'
  BY <1>4, <1>6, <1>7, <1>int DEF WindowInv
<1>9. Trail'
  <2> SUFFICES ASSUME state' # "Idle", NEW d \in 1 .. Size, Written' + 1 > armSeq' + d
               PROVE  ram'[Back(wAddr', d)] + d = Written' + 1
    BY DEF Trail
  <2>1. CASE state = "Idle" \/ Completes
    BY <2>1, <1>7
  <2>2. CASE write
    <3> USE <1>1, <1>4, <2>2
    <3>1. CASE d = 1
      <4>1. Back(wAddr', d) = wAddr
        BY <3>1 DEF Inc, Back, Address
      <4> QED BY <3>1, <4>1
    <3>2. CASE d # 1
      <4>1. PICK e \in 1 .. Size - 1 : d = e + 1
        BY <3>2
      <4>2. Back(wAddr', d) = Back(wAddr, e)
        BY <4>1, BackOfInc
      <4>3. Back(wAddr, e) # wAddr /\ Back(wAddr, e) \in Address
        <5>1. e \in 1 .. Size /\ e \in 0 .. Size /\ e # Size
          OBVIOUS
        <5>2. Back(wAddr, e) # wAddr
          BY <5>1, BackToSelf
        <5>3. Back(wAddr, e) \in Address
          BY <5>1, RingType
        <5> QED BY <5>2, <5>3
      <4>4. ram[Back(wAddr, e)] + e = Written + 1
        BY <4>1, <1>int DEF WindowInv, Trail
      <4>5. ram'[Back(wAddr', d)] = ram[Back(wAddr, e)] /\ ram[Back(wAddr, e)] \in Nat
        BY <4>2, <4>3
      <4> QED BY <4>1, <4>4, <4>5, <1>int
    <3> QED BY <3>1, <3>2
  <2>3. CASE ~write /\ state # "Idle" /\ ~Completes
    BY <2>3, <1>5, <1>6 DEF WindowInv, Trail
  <2> QED BY <2>1, <2>2, <2>3
<1>10. OpenWindow'
  <2> SUFFICES ASSUME capture' = "open" PROVE OpenWindow'
    BY DEF OpenWindow
  <2> DEFINE n == PreShock + 1 + Written - shockSeq
  <2>1. op # "Enable" /\ (BufRead(op) => capture = "open" /\ state # "RecShock")
    BY DEF Cycle, Remember
  <2>2. op # "Enable" /\ ~BufRead(op)
    BY <2>1 DEF WindowInv, OpenWindow
  <2>3. rAddr' = IF Detects(loud) THEN Back(wAddr, PreShock) ELSE rAddr
    BY <2>2 DEF Cycle, Fsm, NextRAddr, EndsSample, EndsWindow, Delivers
  <2>4. CASE Detects(loud)
    <3>1. write /\ ~write' /\ state' = "RecShock" /\ shockSeq' = shadow
      <4>1. wState = "IncAddr"
        BY <2>4 DEF Detects
      <4>2. write /\ ~write'
        BY <4>1 DEF WindowInv, WriteDiscipline, Cycle, Fsm, StartsWrite
      <4>3. state' = "RecShock"
        BY <2>2, <2>4, <4>1 DEF Cycle, Fsm, NextState, Completes
      <4>4. shockSeq' = shadow
        BY <2>4 DEF Cycle, Remember
      <4> QED BY <4>2, <4>3, <4>4
    <3>2. Written' = shadow /\ wAddr' = Inc(wAddr)
      BY <3>1, <1>4
    <3>3. rAddr' = Back(wAddr', PreShock + 1)
      BY <2>3, <2>4, <3>2, <1>1, BackOfInc
    <3> QED BY <3>1, <3>2, <3>3 DEF OpenWindow
  <2>5. CASE ~Detects(loud)
    <3>1. capture = "open" /\ ~Completes /\ shockSeq' = shockSeq /\ rAddr' = rAddr
      BY <2>2, <2>3, <2>5 DEF Cycle, Remember
    <3>2. state = "RecShock" /\ state' = "RecShock"
      BY <2>2, <2>5, <3>1 DEF WindowInv, OpenWindow, Cycle, Fsm, NextState
    <3>3. /\ shockSeq <= Written /\ n <= Size /\ (write => n < Size)
          /\ rAddr = Back(wAddr, n) /\ n \in 1 .. Size
      BY <3>1, <1>int DEF WindowInv, OpenWindow
    <3>4. CASE write
      <4>1. ~write' /\ Written' = Written + 1 /\ wAddr' = Inc(wAddr)
        BY <3>4, <1>4 DEF WindowInv, Cycle, Fsm, StartsWrite
      <4>2. rAddr' = Back(wAddr', n + 1)
        BY <3>1, <3>3, <3>4, <4>1, <1>1, BackOfInc
      <4> QED BY <3>1, <3>2, <3>3, <3>4, <4>1, <4>2, <1>int DEF OpenWindow
    <3>5. CASE ~write
      <4>1. Written' = Written /\ wAddr' = wAddr
        BY <3>1, <3>2, <3>5, <1>5, <1>6
      <4>2. write' => n < Size
        <5> SUFFICES ASSUME write' PROVE n < Size
          OBVIOUS
        <5>1. wAddr # rAddr
          BY <3>2 DEF Cycle, Fsm, StartsWrite
        <5> QED BY <5>1, <3>3, <1>1, BackToSelf
      <4> QED BY <3>1, <3>2, <3>3, <4>1, <4>2, <1>int DEF OpenWindow
    <3> QED BY <3>4, <3>5
  <2> QED BY <2>4, <2>5
<1>11. (capture = "sealed" => state = "Idle")'
  BY DEF WindowInv, Cycle, Fsm, NextState, Remember, Detects, Completes
<1>12. RecordedWindow'
  <2> SUFFICES ASSUME capture' = "sealed", NEW k \in 0 .. Size - 1,
                      shockSeq' + k > armSeq' + PreShock
               PROVE  ram'[Ahead(wAddr', k)] + PreShock = shockSeq' + k
    BY DEF RecordedWindow, WindowSlot
  <2>1. op # "Enable" /\ armSeq' = armSeq
    BY DEF Cycle, Remember
  <2>2. ~Detects(loud) /\ shockSeq' = shockSeq
    <3>1. ~Detects(loud)
      <4>1. capture = "sealed" \/ Completes
        BY <2>1 DEF Cycle, Remember
      <4> QED BY <4>1 DEF WindowInv, Detects, Completes
    <3> QED BY <3>1 DEF Cycle, Remember
  <2>3. ~write /\ wAddr' = wAddr /\ ram' = ram
    <3>1. ~write
      BY <1>11, <1>1, <2>1, <2>2 DEF WindowInv, WriteDiscipline, Cycle, Remember, Completes
    <3> QED BY <3>1, <1>5
  <2>4. CASE capture = "sealed"
    BY <2>1, <2>2, <2>3, <2>4 DEF WindowInv, RecordedWindow, WindowSlot
  <2>5. CASE capture # "sealed"
    <3>1. capture = "open" /\ Completes
      BY <2>1, <2>2, <2>5 DEF Cycle, Remember
    <3> DEFINE n == PreShock + 1 + Written - shockSeq
    <3>2. n = Size
      <4>1. n \in 1 .. Size /\ Back(wAddr, n) = wAddr
        BY <3>1, <1>int DEF WindowInv, OpenWindow, Completes
      <4> QED BY <4>1, BackToSelf
    <3>3. Ahead(wAddr, k) = Back(wAddr, Size - k) /\ Size - k \in 1 .. Size
      BY <1>1, AheadIsBack
    <3>4. Written + 1 > armSeq + (Size - k)
      BY <2>1, <2>2, <3>2, <1>int
    <3>5. ram[Back(wAddr, Size - k)] + (Size - k) = Written + 1
      BY <3>1, <3>3, <3>4 DEF WindowInv, Trail, Completes
    <3>6. ram[Back(wAddr, Size - k)] \in Nat
      BY <3>3, <1>1, RingType
    <3> QED BY <2>2, <2>3, <3>2, <3>3, <3>4, <3>5, <3>6, <1>int
  <2> QED BY <2>4, <2>5
<1> QED
  BY <1>1, <1>2, <1>3, <1>8, <1>9, <1>10, <1>11, <1>12 DEF WindowInv

\* The invariant holds in every reachable state.
THEOREM WindowInvariant == Spec => []WindowInv
<1>1. WindowInv /\ [Next]_vars => WindowInv'
  <2> SUFFICES ASSUME WindowInv, [Next]_vars PROVE WindowInv'
    OBVIOUS
  <2>1. CASE Next
    BY <2>1, StepIsCycle, CycleWindow
  <2>2. CASE UNCHANGED vars
    BY <2>2 DEF vars, regs, env, history, WindowInv, TypeOK, WriteDiscipline, Written, Trail,
       OpenWindow, RecordedWindow, WindowSlot
  <2> QED BY <2>1, <2>2
<1> QED BY InitWindow, <1>1, PTL DEF Spec

\* Whatever the master does and whenever the shock comes, a window that is
\* announced and was not disturbed holds PreShock samples from before the
\* shock and all that follow, without a gap.
THEOREM WindowIsComplete == Spec => []RecordedWindow
<1>1. WindowInv => RecordedWindow
  BY DEF WindowInv
<1> QED BY WindowInvariant, <1>1, PTL

\* The recorder leaves an announced window alone until it is enabled again.
THEOREM WindowIsKept == Spec => KeptUntilEnabled
<1>1. WindowInv /\ [Next]_vars
      => [capture = "sealed" /\ capture' = "sealed" => UNCHANGED <<ram, wAddr>>]_vars
  <2> SUFFICES ASSUME WindowInv, Next, capture = "sealed" PROVE UNCHANGED <<ram, wAddr>>
    BY DEF vars, env, regs
  <2>1. state = "Idle" /\ wState = "Idle" /\ write = FALSE
    BY DEF WindowInv, WriteDiscipline, TypeOK
  <2>2. PICK op \in BusOp, loud \in BOOLEAN : Cycle(op, loud)
    BY StepIsCycle
  <2> QED BY <2>1, <2>2 DEF Cycle, Fsm, Ram, NextWAddr
<1> QED BY WindowInvariant, <1>1, PTL DEF Spec, KeptUntilEnabled

-----------------------------------------------------------------------------
(* Reading a sealed window.                                                *)

\* The samples recorded since the start of the window, while it is open.
Distance == PreShock + 1 + Written - shockSeq

\* While a shock is being recorded nobody reads.  From the first sample after the
\* shock on the next word is the first of a sample, and the output of the RAM has
\* followed the read address.
Quieted ==
  capture = "open" =>
    /\ rInc /\ ~InSecondCycle
    /\ Distance > PreShock + 1 \/ write => rState = 0 /\ ramOut = ram[rAddr]

\* The word a read in its second cycle is about to take.
Pending == InSecondCycle /\ readdata # Invalid

\* The next word is word rState of sample q of the window, and those before it have
\* left the recorder.
NextWord ==
  IF avail THEN \E q \in 0 .. Size - 1 : Taken = q * Fields + rState /\ rAddr = Ahead(wAddr, q)
           ELSE Taken = Size * Fields

\* The pipeline of the RAM catches up with the read address between two reads.
Pipeline ==
  /\ busWait <= BusGap => rInc /\ ramOut = ram[rAddr]
  /\ busWait < BusGap => ramRData = ram[rAddr]
  /\ InSecondCycle /\ avail => ~rInc

PendingInOrder == Pending => readdata = WindowSlot(Len(got) \div Fields)

ReadInv ==
  /\ WindowInv
  /\ Quieted
  /\ capture = "sealed" => NextWord /\ Pipeline /\ PendingInOrder /\ ReadInOrder

\* The words of a sample are numbered without gaps.
LEMMA WordNumber ==
  ASSUME NEW q \in Nat, NEW r \in 0 .. Fields - 1
  PROVE  /\ q * Fields \in Nat
         /\ (q + 1) * Fields = q * Fields + Fields
         /\ (q * Fields + r) \div Fields = q
         /\ q < Size => q * Fields + r < Size * Fields
<1> USE FieldsAssumption DEF FieldsAssumption
<1>1. q * Fields \in Nat /\ (q + 1) * Fields = q * Fields + Fields
  OBVIOUS
<1>2. (q * Fields + r) \div Fields = q
  <2> DEFINE n == q * Fields + r
             d == n \div Fields
  <2>1. n \in Nat /\ d \in Int /\ Fields * d <= n /\ n < Fields * d + Fields
    BY <1>1
  <2>2. q * Fields = Fields * q
    OBVIOUS
  <2>3. ~(d < q)
    <3> SUFFICES ASSUME d + 1 <= q PROVE FALSE
      BY <2>1
    <3>1. Fields * (d + 1) <= Fields * q
      BY <2>1
    <3>2. Fields * (d + 1) = Fields * d + Fields
      BY <2>1
    <3> QED BY <1>1, <2>1, <2>2, <3>1, <3>2
  <2>4. ~(q < d)
    <3> SUFFICES ASSUME q + 1 <= d PROVE FALSE
      BY <2>1
    <3>1. Fields * (q + 1) <= Fields * d
      BY <2>1
    <3>2. Fields * (q + 1) = q * Fields + Fields
      BY <1>1
    <3> QED BY <1>1, <2>1, <3>1, <3>2
  <2> QED BY <2>1, <2>3, <2>4
<1>3. ASSUME q < Size PROVE q * Fields + r < Size * Fields
  <2>1. (q + 1) * Fields <= Size * Fields
    BY <1>3
  <2>2. Size * Fields \in Nat
    OBVIOUS
  <2> QED BY <1>1, <2>1, <2>2
<1> QED BY <1>1, <1>2, <1>3

\* Advancing in the ring from the start of the window.
LEMMA AheadStep ==
  ASSUME NEW a \in Address, NEW q \in 0 .. Size - 1
  PROVE  /\ Ahead(a, 0) = a
         /\ q + 1 < Size => Inc(Ahead(a, q)) = Ahead(a, q + 1) /\ Inc(Ahead(a, q)) # a
         /\ q + 1 = Size => Inc(Ahead(a, q)) = a
BY DEF Address, Ahead, Inc

LEMMA InitRead == Init => ReadInv
BY InitWindow DEF Init, ReadInv, Quieted

\* What a cycle does to a window that stays open.
LEMMA CycleQuiet ==
  ASSUME ReadInv, NEW op \in BusOp, NEW loud \in BOOLEAN, Cycle(op, loud)
  PROVE  Quieted'
<1> SUFFICES ASSUME capture' = "open" PROVE Quieted'
  BY DEF Quieted
<1>0. WindowInv /\ WindowInv' /\ TypeOK /\ TypeOK'
  BY CycleWindow DEF ReadInv, WindowInv
<1>1. op # "Enable" /\ ~BufRead(op)
  BY <1>0 DEF Cycle, Remember, WindowInv, OpenWindow
<1>2. rInc' /\ ~InSecondCycle'
  <2>1. rInc'
    BY <1>1 DEF Cycle, Fsm, Delivers
  <2>2. busWait' # BusGap + 1
    BY <1>0, <1>1, BusGapAssumption
    DEF BusGapAssumption, Cycle, BusMay, BusNext, BufRead, InSecondCycle, TypeOK, BusOp, Write
  <2> QED BY <2>1, <2>2 DEF InSecondCycle
<1>3. rAddr' = IF Detects(loud) THEN Back(wAddr, PreShock) ELSE rAddr
  BY <1>1 DEF Cycle, Fsm, NextRAddr, EndsSample, EndsWindow, Delivers
<1>4. CASE Detects(loud)
  <2>1. write /\ ~newData
    BY <1>0, <1>4 DEF Detects, WindowInv, WriteDiscipline
  <2>2. ~write' /\ ~newData' /\ shadow' = shadow /\ shockSeq' = shadow
    BY <1>0, <1>4, <2>1 DEF Cycle, Fsm, StartsWrite, Acquire, Remember, TypeOK
  <2>3. Distance' = PreShock + 1
    BY <1>0, <2>2 DEF Distance, Written, TypeOK, Sample
  <2> QED BY <1>2, <2>2, <2>3 DEF Quieted
<1>5. CASE ~Detects(loud)
  <2>1. capture = "open" /\ ~Completes /\ state = "RecShock" /\ rAddr' = rAddr
    BY <1>0, <1>1, <1>3, <1>5 DEF Cycle, Remember, WindowInv, OpenWindow
  <2>2. shockSeq' = shockSeq
    BY <1>5 DEF Cycle, Remember
  <2>3. CASE write
    <3>1. ~newData /\ ~write' /\ ~newData' /\ rState = 0 /\ ramOut = ram[rAddr]
      BY <1>0, <2>1, <2>3 DEF ReadInv, Quieted, WindowInv, Cycle, Fsm, StartsWrite, Acquire, TypeOK
    <3>2. wAddr # rAddr
      <4>1. Distance \in 1 .. Size /\ Distance < Size /\ rAddr = Back(wAddr, Distance)
        BY <1>0, <2>1, <2>3 DEF WindowInv, OpenWindow, Distance, Written, TypeOK, Sample
      <4> QED BY <4>1, <1>0, BackToSelf DEF TypeOK
    <3>3. ramOut' = ram[rAddr] /\ ram'[rAddr'] = ram[rAddr]
      BY <1>0, <2>1, <2>3, <3>2 DEF Cycle, Ram, TypeOK
    <3>4. rState' = 0
      BY <1>1, <3>1 DEF Cycle, Fsm, NextRState, Delivers, StartsWrite
    <3> QED BY <1>2, <3>3, <3>4 DEF Quieted
  <2>4. CASE ~write
    <3>1. ramOut' = ram'[rAddr']
      BY <2>1, <2>4 DEF Cycle, Ram
    <3>2. CASE newData
      <4>1. wState = "Idle" /\ wAddr # rAddr
        BY <1>0, <2>1, <2>4 DEF WindowInv, WriteDiscipline, Completes, TypeOK
      <4>2. StartsWrite
        BY <2>1, <3>2, <4>1 DEF StartsWrite
      <4>3. rState' = 0
        BY <1>1, <2>1, <4>2 DEF Cycle, Fsm, NextRState, Delivers
      <4> QED BY <1>2, <3>1, <4>3 DEF Quieted
    <3>3. CASE ~newData
      <4>1. ~write' /\ rState' = rState
        BY <1>1, <3>3 DEF Cycle, Fsm, NextRState, Delivers, StartsWrite
      <4>2. Distance' = Distance
        <5>1. Written = shadow /\ shadow \in Nat
          BY <1>0, <2>4, <3>3 DEF Written, TypeOK, Sample
        <5>2. \/ ~newData' /\ shadow' = shadow
              \/ newData' /\ shadow' = shadow + 1
          BY DEF Cycle, Acquire
        <5>3. Written' = shadow
          BY <4>1, <5>1, <5>2 DEF Written
        <5> QED BY <2>2, <5>1, <5>3 DEF Distance
      <4>3. Distance > PreShock + 1 => rState = 0
        BY <2>1 DEF ReadInv, Quieted
      <4> QED BY <1>2, <3>1, <4>1, <4>2, <4>3 DEF Quieted
    <3> QED BY <3>2, <3>3
  <2> QED BY <2>3, <2>4
<1> QED BY <1>4, <1>5

\* When the recording is complete nothing has been read, and the first word of the
\* window is at the output of the RAM.
LEMMA CycleSeals ==
  ASSUME ReadInv, NEW op \in BusOp, NEW loud \in BOOLEAN, Cycle(op, loud),
         capture # "sealed", capture' = "sealed"
  PROVE  (NextWord /\ Pipeline /\ PendingInOrder /\ ReadInOrder)'
<1>0. WindowInv /\ TypeOK /\ TypeOK'
  BY CycleType DEF ReadInv, WindowInv
<1>1. capture = "open" /\ Completes /\ op # "Enable" /\ ~BufRead(op) /\ ~Detects(loud)
  BY <1>0 DEF Cycle, Remember, WindowInv, Completes, Detects
<1>2. rAddr' = rAddr /\ wAddr' = wAddr /\ ~write /\ ram' = ram /\ rAddr = wAddr
  BY <1>0, <1>1 DEF WindowInv, WriteDiscipline, Completes, Cycle, Fsm, Ram, NextRAddr,
     EndsSample, EndsWindow, Delivers, NextWAddr
<1>3. Distance > PreShock + 1
  <2>1. Distance \in 1 .. Size /\ rAddr = Back(wAddr, Distance)
    <3>1. /\ shockSeq <= Written /\ Distance <= Size
          /\ rAddr = Back(wAddr, Distance)
      BY <1>0, <1>1 DEF WindowInv, OpenWindow, Distance
    <3>2. shockSeq \in Nat /\ Written \in Nat
      BY <1>0 DEF WindowInv, Written, TypeOK, Sample
    <3> QED BY <3>1, <3>2 DEF Distance
  <2>2. Distance = Size
    BY <2>1, <1>0, <1>2, BackToSelf DEF TypeOK
  <2> QED BY <2>2
<1>4. rState = 0 /\ ramOut = ram[rAddr] /\ ~InSecondCycle
  BY <1>1, <1>3 DEF ReadInv, Quieted
<1>5. rState' = 0 /\ avail' = TRUE /\ rInc'
  BY <1>1, <1>4 DEF Cycle, Fsm, NextRState, NextAvail, EndsWindow, EndsSample, Delivers,
     StartsWrite, Completes
<1>6. ramOut' = ram'[rAddr'] /\ ramRData' = ram'[rAddr']
  BY <1>2, <1>4 DEF Cycle, Ram
<1>7. got' = << >> /\ ~InSecondCycle'
  <2>1. got' = << >>
    BY <1>1 DEF Cycle, Remember
  <2>2. busWait' # BusGap + 1
    BY <1>0, <1>1, <1>4, BusGapAssumption
    DEF BusGapAssumption, Cycle, BusMay, BusNext, BufRead, InSecondCycle, TypeOK, BusOp, Write
  <2> QED BY <2>1, <2>2 DEF InSecondCycle
<1>8. NextWord'
  <2>1. Taken' = 0
    BY <1>7 DEF Taken
  <2>2. 0 * Fields + rState' = 0 /\ rAddr' = Ahead(wAddr', 0) /\ 0 \in 0 .. Size - 1
    BY <1>0, <1>2, <1>5, AheadStep, FieldsAssumption DEF FieldsAssumption, TypeOK
  <2> QED BY <1>5, <2>1, <2>2 DEF NextWord
<1> QED
  BY <1>5, <1>6, <1>7, <1>8 DEF Pipeline, PendingInOrder, Pending, ReadInOrder

\* A cycle of a sealed window: a word may leave it.
LEMMA CycleReads ==
  ASSUME BusGap > 0, ReadInv, NEW op \in BusOp, NEW loud \in BOOLEAN, Cycle(op, loud),
         capture = "sealed", capture' = "sealed"
  PROVE  (NextWord /\ Pipeline /\ PendingInOrder /\ ReadInOrder)'
<1> USE FieldsAssumption, BusGapAssumption DEF FieldsAssumption, BusGapAssumption
<1>0. TypeOK /\ TypeOK' /\ NextWord /\ Pipeline /\ PendingInOrder /\ ReadInOrder
  BY CycleType DEF ReadInv, WindowInv
<1>1. state = "Idle" /\ ~write /\ op # "Enable" /\ ~Completes /\ ~Detects(loud)
  BY DEF ReadInv, WindowInv, WriteDiscipline, Cycle, Remember, Completes, Detects
<1>2. ram' = ram /\ wAddr' = wAddr /\ ramOut' = ram[rAddr] /\ ramRData' = ramOut
  BY <1>1 DEF Cycle, Ram, Fsm, NextWAddr
<1>3. /\ rAddr' = IF EndsSample(op) /\ ~EndsWindow(op) THEN Inc(rAddr) ELSE rAddr
      /\ avail' = (avail /\ ~EndsWindow(op))
      /\ rInc' = ~Delivers(op)
      /\ readdata' = IF Delivers(op) THEN ramRData ELSE Invalid
      /\ rState' = IF Delivers(op) THEN IF rState = Fields - 1 THEN 0 ELSE rState + 1 ELSE rState
  BY <1>0, <1>1 DEF Cycle, Fsm, NextRAddr, NextAvail, NextRState, EndsWindow, EndsSample, TypeOK
<1>4. got \in Seq(Sample \cup {Garbage}) /\ Len(got) \in Nat
  BY <1>0 DEF TypeOK
<1>5. ASSUME ~Delivers(op)
      PROVE  /\ rAddr' = rAddr /\ avail' = avail /\ rInc' /\ rState' = rState
             /\ ramOut' = ram'[rAddr'] /\ readdata' = Invalid
             /\ PendingInOrder'
  <2>1. ~EndsSample(op) /\ ~EndsWindow(op)
    BY <1>5 DEF EndsSample, EndsWindow
  <2>2. rAddr' = rAddr /\ avail' = avail /\ rState' = rState /\ readdata' = Invalid
    BY <1>0, <1>3, <1>5, <2>1 DEF TypeOK
  <2>3. rInc'
    BY <1>3, <1>5, Zenon
  <2>4. ramOut' = ram'[rAddr']
    BY <1>2, <2>2
  <2>5. PendingInOrder'
    BY <2>2 DEF PendingInOrder, Pending
  <2> QED BY <2>2, <2>3, <2>4, <2>5
<1>6. CASE op = "ReadFirst"
  <2>1. busWait = 0 /\ busWait' = BusGap + 1 /\ got' = got /\ ~InSecondCycle /\ InSecondCycle'
    BY <1>6 DEF Cycle, BusMay, BusNext, Remember, InSecondCycle
  <2>2. rInc /\ ramRData = ram[rAddr] /\ Taken = Len(got)
    BY <1>0, <1>4, <2>1 DEF Pipeline, Taken
  <2>3. ReadInOrder'
    BY <1>0, <1>2, <2>1 DEF ReadInOrder, WindowSlot
  <2>4. CASE ~avail
    <3>1. ~Delivers(op)
      BY <2>4 DEF Delivers
    <3>2. Taken' = Taken /\ ~avail'
      BY <1>4, <1>5, <2>1, <2>2, <2>4, <3>1 DEF Taken
    <3> QED
      BY <1>0, <1>5, <2>1, <2>3, <2>4, <3>1, <3>2 DEF NextWord, Pipeline, InSecondCycle
  <2>5. CASE avail
    <3>1. Delivers(op)
      BY <1>6, <2>2, <2>5 DEF Delivers, BufRead
    <3>2. PICK q \in 0 .. Size - 1 : Taken = q * Fields + rState /\ rAddr = Ahead(wAddr, q)
      BY <1>0, <2>5 DEF NextWord
    <3>3. rState \in 0 .. Fields - 1 /\ wAddr \in Address /\ q \in Nat /\ rAddr \in Address
      BY <1>0 DEF TypeOK
    <3>4. readdata' = ram[rAddr] /\ readdata' # Invalid
      BY <1>0, <1>3, <2>2, <3>1, <3>3, GarbageAssumption DEF GarbageAssumption, TypeOK, Sample
    <3>5. PendingInOrder'
      <4>1. Len(got) \div Fields = q
        BY <2>2, <3>2, <3>3, WordNumber
      <4> QED BY <1>2, <2>1, <3>2, <3>4, <4>1 DEF PendingInOrder, WindowSlot
    <3>6. Taken' = q * Fields + rState + 1 /\ q * Fields \in Nat
      <4>1. Taken' = Len(got) + 1
        BY <1>4, <2>1, <3>4 DEF Taken
      <4>2. q * Fields \in Nat
        BY <3>3, WordNumber
      <4> QED BY <2>2, <3>2, <3>3, <4>1, <4>2
    <3>7. NextWord'
      <4>1. CASE rState # Fields - 1
        <5>1. avail' /\ rAddr' = rAddr /\ rState' = rState + 1
          BY <1>3, <2>5, <3>1, <4>1 DEF EndsSample, EndsWindow
        <5>2. Taken' = q * Fields + rState'
          BY <3>3, <3>6, <5>1
        <5> QED BY <1>2, <3>2, <5>1, <5>2 DEF NextWord
      <4>2. CASE rState = Fields - 1 /\ Inc(rAddr) # wAddr
        <5>1. avail' /\ rAddr' = Inc(rAddr) /\ rState' = 0
          BY <1>3, <2>5, <3>1, <4>2 DEF EndsSample, EndsWindow
        <5>2. q + 1 \in 0 .. Size - 1 /\ rAddr' = Ahead(wAddr', q + 1)
          BY <1>2, <3>2, <3>3, <4>2, <5>1, AheadStep
        <5>3. Taken' = (q + 1) * Fields + rState'
          BY <3>3, <3>6, <4>2, <5>1, WordNumber
        <5> QED BY <5>1, <5>2, <5>3 DEF NextWord
      <4>3. CASE rState = Fields - 1 /\ Inc(rAddr) = wAddr
        <5>1. ~avail'
          BY <1>3, <3>1, <4>3 DEF EndsSample, EndsWindow
        <5>2. q + 1 = Size
          BY <3>2, <3>3, <4>3, AheadStep
        <5>3. Taken' = (q + 1) * Fields
          BY <3>3, <3>6, <4>3, WordNumber
        <5> QED BY <5>1, <5>2, <5>3 DEF NextWord
      <4> QED BY <4>1, <4>2, <4>3
    <3>8. Pipeline'
      <4>1. ~rInc'
        BY <1>3, <3>1, Zenon
      <4>2. ~(busWait' <= BusGap) /\ ~(busWait' < BusGap)
        BY <2>1
      <4> QED BY <4>1, <4>2 DEF Pipeline
    <3> QED BY <2>3, <3>5, <3>7, <3>8
  <2> QED BY <2>4, <2>5
<1>7. CASE op = "ReadSecond"
  <2>1. InSecondCycle /\ busWait' = BusGap /\ ~InSecondCycle'
    BY <1>7 DEF Cycle, BusMay, BusNext, InSecondCycle
  <2>2. ~Delivers(op)
    BY <1>0, <2>1 DEF Pipeline, Delivers
  <2>3. got' = IF readdata # Invalid THEN Append(got, readdata) ELSE got
    BY <1>7 DEF Cycle, Remember
  <2>4. Taken' = Taken
    BY <1>4, <2>1, <2>3 DEF Taken
  <2>5. NextWord'
    BY <1>0, <1>2, <1>5, <2>2, <2>4 DEF NextWord
  <2>6. Pipeline'
    BY <1>5, <2>1, <2>2 DEF Pipeline
  <2>7. ReadInOrder'
    <3> SUFFICES ASSUME NEW i \in 1 .. Len(got')
                 PROVE  got'[i] = WindowSlot((i - 1) \div Fields)'
      BY DEF ReadInOrder
    <3>1. CASE readdata = Invalid \/ i # Len(got) + 1
      <4>1. i \in 1 .. Len(got) /\ got'[i] = got[i]
        BY <1>4, <2>3, <3>1
      <4> QED BY <1>0, <1>2, <4>1 DEF ReadInOrder, WindowSlot
    <3>2. CASE readdata # Invalid /\ i = Len(got) + 1
      <4>1. got'[i] = readdata /\ i - 1 = Len(got)
        BY <1>4, <2>3, <3>2
      <4>2. readdata = WindowSlot(Len(got) \div Fields)
        BY <1>0, <2>1, <3>2 DEF PendingInOrder, Pending
      <4> QED BY <1>2, <4>1, <4>2 DEF WindowSlot
    <3> QED BY <3>1, <3>2
  <2> QED BY <1>5, <2>2, <2>5, <2>6, <2>7
<1>8. CASE op \notin {"ReadFirst", "ReadSecond"}
  <2>1. ~Delivers(op) /\ got' = got
    BY <1>1, <1>8 DEF Delivers, BufRead, Cycle, Remember
  <2>2. ~InSecondCycle /\ busWait <= BusGap /\ ~InSecondCycle'
    BY <1>0, <1>1, <1>8
    DEF Cycle, BusMay, BusNext, InSecondCycle, TypeOK, BusOp, Write
  <2>3. Taken' = Taken
    BY <1>4, <2>1, <2>2 DEF Taken
  <2>4. NextWord'
    BY <1>0, <1>2, <1>5, <2>1, <2>3 DEF NextWord
  <2>5. Pipeline'
    BY <1>0, <1>2, <1>5, <2>1, <2>2 DEF Pipeline
  <2>6. ReadInOrder'
    BY <1>0, <1>2, <2>1 DEF ReadInOrder, WindowSlot
  <2> QED BY <1>5, <2>1, <2>4, <2>5, <2>6
<1> QED BY <1>6, <1>7, <1>8

\* If the bus leaves at least one idle cycle after a read, the invariant of the reads
\* holds in every reachable state.
THEOREM ReadInvariant ==
  ASSUME BusGap > 0
  PROVE  Spec => []ReadInv
<1>1. ReadInv /\ [Next]_vars => ReadInv'
  <2> SUFFICES ASSUME ReadInv, [Next]_vars PROVE ReadInv'
    OBVIOUS
  <2>1. CASE Next
    <3>1. PICK op \in BusOp, loud \in BOOLEAN : Cycle(op, loud)
      BY <2>1, StepIsCycle
    <3>2. WindowInv' /\ Quieted'
      BY <3>1, CycleWindow, CycleQuiet DEF ReadInv
    <3>3. capture' = "sealed" => (NextWord /\ Pipeline /\ PendingInOrder /\ ReadInOrder)'
      BY <3>1, CycleSeals, CycleReads
    <3> QED BY <3>2, <3>3 DEF ReadInv
  <2>2. CASE UNCHANGED vars
    BY <2>2 DEF vars, regs, env, history, ReadInv, WindowInv, TypeOK, WriteDiscipline, Written,
       Trail, OpenWindow, RecordedWindow, WindowSlot, Quieted, Distance, InSecondCycle,
       NextWord, Taken, Pipeline, PendingInOrder, Pending, ReadInOrder
  <2> QED BY <2>1, <2>2
<1> QED BY InitRead, <1>1, PTL DEF Spec

\* The master gets the words of a sealed window in their order, none twice and none
\* left out, although the RAM answers two cycles late.
THEOREM WindowIsReadInOrder ==
  ASSUME BusGap > 0
  PROVE  Spec => []ReadInOrder
<1>1. ReadInv => ReadInOrder
  BY DEF ReadInv, ReadInOrder
<1> QED BY ReadInvariant, <1>1, PTL

\* The number of the next word says whether one is left.
LEMMA ReadInAvail == ReadInv => AvailUntilRead
<1> SUFFICES ASSUME ReadInv, capture = "sealed" PROVE avail <=> Taken < Size * Fields
  BY DEF AvailUntilRead
<1>1. NextWord /\ rState \in 0 .. Fields - 1 /\ Size * Fields \in Nat
  BY FieldsAssumption DEF FieldsAssumption, ReadInv, WindowInv, TypeOK
<1>2. CASE avail
  <2>1. PICK q \in 0 .. Size - 1 : Taken = q * Fields + rState
    BY <1>1, <1>2 DEF NextWord
  <2> QED BY <1>1, <1>2, <2>1, WordNumber
<1>3. CASE ~avail
  BY <1>1, <1>3 DEF NextWord
<1> QED BY <1>2, <1>3

\* The available bit of a sealed window falls with its last word.
THEOREM AvailableUntilRead ==
  ASSUME BusGap > 0
  PROVE  Spec => []AvailUntilRead
BY ReadInvariant, ReadInAvail, PTL

-----------------------------------------------------------------------------
(* Every cycle of the recorder is a step of EventBuffer.                   *)

USE MaxSampleAssumption, BusGapAssumption DEF MaxSampleAssumption, BusGapAssumption

\* The move of EventBuffer that the FSM makes in a cycle.
MoveOf(loud) ==
  IF Detects(loud) THEN "Detect" ELSE IF Completes THEN "Complete" ELSE "None"

LEMMA InitBuffer == Init => Buffer!BufferInit
BY DEF Init, Buffer!BufferInit, Sample

\* A window is read in the second cycle exactly after a first one.
LEMMA SecondCycle ==
  ASSUME TypeOK, NEW op \in BusOp, NEW loud \in BOOLEAN, Cycle(op, loud)
  PROVE  /\ InSecondCycle' <=> op = "ReadFirst"
         /\ InSecondCycle <=> op = "ReadSecond"
<1>1. busWait \in 0 .. BusGap + 1
  BY DEF TypeOK
<1>2. InSecondCycle <=> op = "ReadSecond"
  BY <1>1 DEF Cycle, BusMay, InSecondCycle, BusOp, Write
<1>3. busWait' = IF op = "ReadFirst" THEN BusGap + 1
                 ELSE IF busWait > 0 THEN busWait - 1 ELSE 0
  BY <1>1 DEF Cycle, BusMay, BusNext
<1>4. InSecondCycle' <=> op = "ReadFirst"
  BY <1>1, <1>3 DEF InSecondCycle
<1> QED BY <1>2, <1>4

\* The words taken from a window that stays sealed, and its available bit.
LEMMA CycleTakes ==
  ASSUME ReadInv, ReadInv', NEW op \in BusOp, NEW loud \in BOOLEAN, Cycle(op, loud),
         capture = "sealed", capture' = "sealed"
  PROVE  /\ op = "ReadFirst" =>
              /\ Taken' = IF avail THEN Taken + 1 ELSE Taken
              /\ avail' = (avail /\ Taken + 1 < Size * Fields)
         /\ op # "ReadFirst" => Taken' = Taken /\ avail' = avail
<1>0. TypeOK /\ TypeOK' /\ Pipeline /\ AvailUntilRead'
  <2>1. AvailUntilRead'
    BY ReadInAvail, PTL
  <2> QED BY <2>1 DEF ReadInv, WindowInv
<1>1. state = "Idle" /\ op # "Enable" /\ ~Completes
  BY DEF ReadInv, WindowInv, Cycle, Remember, Completes
<1>2. got \in Seq(Sample \cup {Garbage}) /\ Len(got) \in Nat
  BY <1>0 DEF TypeOK
<1>3. avail' = (avail /\ ~EndsWindow(op))
  BY <1>0, <1>1 DEF Cycle, Fsm, NextAvail, TypeOK
<1>4. CASE op = "ReadFirst"
  <2>1. ~InSecondCycle /\ InSecondCycle' /\ got' = got /\ Taken = Len(got)
    BY <1>0, <1>1, <1>4, SecondCycle DEF Cycle, Remember, Taken
  <2>2. rInc
    BY <1>0, <1>4 DEF Pipeline, Cycle, BusMay
  <2>3. CASE avail
    <3>1. readdata' = ramRData /\ ramRData # Invalid
      <4>1. Delivers(op)
        BY <1>4, <2>2, <2>3 DEF Delivers, BufRead
      <4>2. ramRData \in Sample \cup {Garbage}
        BY <1>0 DEF TypeOK
      <4>3. ramRData # Invalid
        BY <4>2, GarbageAssumption DEF GarbageAssumption, Sample
      <4> QED BY <4>1, <4>3 DEF Cycle, Fsm
    <3>2. Taken' = Taken + 1
      BY <1>2, <2>1, <3>1 DEF Taken
    <3>3. avail' <=> Taken + 1 < Size * Fields
      BY <1>0, <3>2 DEF AvailUntilRead
    <3>4. avail \in BOOLEAN /\ avail' \in BOOLEAN
      BY <1>0 DEF TypeOK
    <3> QED BY <1>4, <2>3, <3>2, <3>3, <3>4
  <2>4. CASE ~avail
    <3>1. readdata' = Invalid /\ ~avail'
      BY <1>3, <2>4 DEF Delivers, Cycle, Fsm
    <3>2. Taken' = Taken
      BY <1>2, <2>1, <3>1 DEF Taken
    <3> QED BY <1>0, <1>4, <2>4, <3>1, <3>2 DEF TypeOK
  <2> QED BY <2>3, <2>4
<1>5. CASE op = "ReadSecond"
  <2>1. InSecondCycle /\ ~InSecondCycle'
    BY <1>0, <1>5, SecondCycle
  <2>2. ~EndsWindow(op)
    BY <1>0, <2>1 DEF Pipeline, EndsWindow, EndsSample, Delivers
  <2>3. got' = IF readdata # Invalid THEN Append(got, readdata) ELSE got
    BY <1>5 DEF Cycle, Remember
  <2>4. Len(got') = Taken
    BY <1>0, <1>2, <2>1, <2>3 DEF Taken, TypeOK
  <2>5. Taken' = Taken
    BY <1>0, <2>1, <2>4 DEF Taken, TypeOK
  <2> QED BY <1>0, <1>3, <1>5, <2>2, <2>5 DEF TypeOK
<1>6. CASE ~BufRead(op)
  <2>1. op # "ReadFirst" /\ op # "ReadSecond"
    BY <1>6 DEF BufRead
  <2>2. got' = got /\ ~InSecondCycle /\ ~InSecondCycle'
    BY <1>0, <1>1, <2>1, SecondCycle DEF Cycle, Remember
  <2>3. ~EndsWindow(op)
    BY <1>6 DEF EndsWindow, EndsSample, Delivers
  <2> QED BY <1>0, <1>2, <1>3, <2>1, <2>2, <2>3 DEF Taken, TypeOK
<1> QED BY <1>4, <1>5, <1>6 DEF BufRead

\* The operation on the bus and the move of the FSM make a step of EventBuffer.
LEMMA CycleSteps ==
  ASSUME ReadInv, ReadInv', NEW op \in BusOp, NEW loud \in BOOLEAN, Cycle(op, loud)
  PROVE  Buffer!Step(BufferOp(op), MoveOf(loud))
<1> DEFINE o == BufferOp(op)
           move == MoveOf(loud)
<1>0. TypeOK /\ TypeOK' /\ (capture = "sealed" => state = "Idle")
  BY DEF ReadInv, WindowInv
<1>1. /\ o = "Enable" <=> op = "Enable"
      /\ o = "ClearInt" <=> op = "ClearInt"
      /\ o = "IntOn" <=> op = "IntOn"
      /\ o = "IntOff" <=> op = "IntOff"
      /\ o = "Read" <=> BufRead(op) /\ ~(op = "ReadSecond" /\ capture = "sealed")
  BY DEF BufferOp, BufRead, BusOp, Write
<1>2. /\ move = "Detect" <=> Detects(loud)
      /\ move = "Complete" <=> Completes
      /\ move \in {"Detect", "Complete", "None"}
      /\ Detects(loud) => state = "WaitShock" /\ ~Completes
      /\ Completes => state = "RecShock"
  BY DEF MoveOf, Detects, Completes
<1> HIDE DEF o, move
<1>3. Buffer!MayMove(move)
  BY <1>2 DEF Buffer!MayMove
<1>4. state' = CASE o = "Enable" -> "WaitShock"
                 [] o # "Enable" /\ move = "Detect"   -> "RecShock"
                 [] o # "Enable" /\ move = "Complete" -> "Idle"
                 [] OTHER -> state
  BY <1>1, <1>2 DEF Cycle, Fsm, NextState
<1>5. int' = (o # "ClearInt" /\ (int \/ move = "Complete"))
  BY <1>1, <1>2 DEF Cycle, Fsm, NextInt
<1>6. intEn' = (IF o \in {"IntOn", "IntOff"} THEN o = "IntOn" ELSE intEn)
  BY <1>1 DEF Cycle, Fsm, NextIntEn
<1>7. Buffer!Disturbs(o, move) <=> BufRead(op) /\ (Detects(loud) \/ state = "RecShock")
  BY <1>0, <1>1, <1>2 DEF Buffer!Disturbs
<1>8. capture' = Buffer!NextCapture(o, move)
  BY <1>1, <1>2, <1>7 DEF Cycle, Remember, Buffer!NextCapture
<1>9. IF move = "Detect" THEN shockSeq' \in Sample ELSE UNCHANGED shockSeq
  BY <1>0, <1>2 DEF Cycle, Remember, TypeOK
<1>10. avail' = IF EndsWindow(op) THEN FALSE ELSE avail \/ Completes
  BY DEF Cycle, Fsm, NextAvail
<1>11. CASE capture = "sealed" /\ op # "Enable"
  <2>1. capture' = "sealed" /\ move = "None"
    BY <1>0, <1>2, <1>11 DEF Cycle, Remember, Detects, Completes
  <2>2. o = "Read" <=> op = "ReadFirst"
    BY <1>1, <1>11 DEF BufRead
  <2>3. /\ op = "ReadFirst" =>
             /\ Taken' = IF avail THEN Taken + 1 ELSE Taken
             /\ avail' = (avail /\ Taken + 1 < Size * Fields)
        /\ op # "ReadFirst" => Taken' = Taken /\ avail' = avail
    BY <1>11, <2>1, CycleTakes
  <2>4. avail' \in Buffer!AvailAfter(o, move)
    BY <1>11, <2>1, <2>2, <2>3 DEF Buffer!AvailAfter
  <2>5. (IF capture' = "sealed" THEN Taken' ELSE 0) = Buffer!NextTaken(o)
    BY <1>1, <1>11, <2>1, <2>2, <2>3 DEF Buffer!NextTaken
  <2> QED
    BY <1>3, <1>4, <1>5, <1>6, <1>8, <1>9, <2>4, <2>5 DEF Buffer!Step, o, move
<1>12. CASE capture # "sealed" \/ op = "Enable"
  <2>1. avail \in BOOLEAN
    BY <1>0 DEF TypeOK
  <2>2. avail' \in Buffer!AvailAfter(o, move)
    <3>1. CASE o = "Read"
      BY <1>1, <1>2, <1>10, <1>12, <2>1, <3>1 DEF Buffer!AvailAfter
    <3>2. CASE o # "Read"
      <4>1. ~EndsWindow(op)
        BY <1>1, <1>12, <3>2 DEF EndsWindow, EndsSample, Delivers, BufRead
      <4> QED BY <1>2, <1>10, <2>1, <3>2, <4>1 DEF Buffer!AvailAfter
    <3> QED BY <3>1, <3>2
  <2>3. capture' = "sealed" => Taken' = 0
    <3> SUFFICES ASSUME capture' = "sealed" PROVE Taken' = 0
      OBVIOUS
    <3>1. op # "Enable" /\ ~BufRead(op) /\ got' = << >>
      BY <1>12 DEF Cycle, Remember
    <3>2. ~InSecondCycle'
      BY <1>0, <3>1, SecondCycle DEF BufRead
    <3> QED BY <3>1, <3>2 DEF Taken
  <2>4. (IF capture' = "sealed" THEN Taken' ELSE 0) = Buffer!NextTaken(o)
    BY <1>1, <1>12, <2>3 DEF Buffer!NextTaken
  <2> QED
    BY <1>3, <1>4, <1>5, <1>6, <1>8, <1>9, <2>2, <2>4 DEF Buffer!Step, o, move
<1> QED BY <1>11, <1>12

\* What an operation of the bus does in a cycle, alone or with an end of the recording or
\* a shock, is what EventBuffer says of that operation.
THEOREM BusOperationsAgree ==
  ASSUME BusGap > 0
  PROVE  Spec => OperationsAgree
<1>1. ReadInv /\ ReadInv' =>
        [\A op \in BusOp, loud \in BOOLEAN :
           Cycle(op, loud) => \E move \in Buffer!Move : Buffer!Step(BufferOp(op), move)]_vars
  <2> SUFFICES ASSUME ReadInv, ReadInv', NEW op \in BusOp, NEW loud \in BOOLEAN, Cycle(op, loud)
               PROVE  \E move \in Buffer!Move : Buffer!Step(BufferOp(op), move)
    OBVIOUS
  <2>1. MoveOf(loud) \in Buffer!Move
    BY DEF MoveOf, Buffer!Move
  <2> QED BY <2>1, CycleSteps
<1> QED BY ReadInvariant, <1>1, PTL DEF OperationsAgree

\* Every cycle of the recorder is a step of EventBuffer or leaves it alone.
THEOREM RecorderImplementsBuffer ==
  ASSUME BusGap > 0
  PROVE  Spec => ImplementsEventBuffer
<1>1. ASSUME ReadInv, ReadInv', [Next]_vars
      PROVE  [Buffer!BufferNext]_(Buffer!bufferVars)
  <2>1. CASE Next
    <3>1. PICK op \in BusOp, loud \in BOOLEAN : Cycle(op, loud)
      BY <2>1, StepIsCycle
    <3>2. Buffer!Step(BufferOp(op), MoveOf(loud))
      BY <1>1, <3>1, CycleSteps
    <3>3. BufferOp(op) \in Buffer!Op /\ MoveOf(loud) \in Buffer!Move
      BY DEF BufferOp, MoveOf, Buffer!Op, Buffer!Move, BusOp, Write
    <3> QED BY <3>2, <3>3 DEF Buffer!BufferNext
  <2>2. CASE UNCHANGED vars
    BY <2>2 DEF vars, regs, env, history, Buffer!bufferVars, Taken, InSecondCycle
  <2> QED BY <1>1, <2>1, <2>2
<1> QED BY ReadInvariant, InitBuffer, <1>1, PTL DEF Spec, ImplementsEventBuffer, Buffer!BufferSpec

=============================================================================
