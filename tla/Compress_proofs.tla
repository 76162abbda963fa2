-------------------------- MODULE Compress_proofs --------------------------
(***************************************************************************)
(* compressMemory returns the whole stream, for every size of the          *)
(* temporary buffer, of the input and of the stream.  The result and the   *)
(* temporary buffer together are always what deflate has written, and      *)
(* there is space whenever deflate is called.                              *)
(***************************************************************************)
EXTENDS Compress, SequenceTheorems, TLAPS

TypeOK ==
  /\ pc \in {"feed", "feedDrain", "finishDrain", "finish", "finished", "done", "failed"}
  /\ availIn \in Nat /\ produced \in Nat /\ held \in Nat /\ ended \in BOOLEAN
  /\ temp \in Seq(Nat) /\ buffer \in Seq(Nat) /\ Len(temp) <= BufSize

\* Nothing lost, nothing twice, at any time.
Kept == IF pc = "done" THEN buffer = Units(0, produced)
                       ELSE buffer \o temp = Units(0, produced)

\* What the places in the function know.
Places ==
  /\ pc # "failed"
  /\ pc \in {"feed", "finish"} => Len(temp) < BufSize
  /\ pc \notin {"feed", "feedDrain"} => availIn = 0
  /\ pc \in {"finished", "done"} => held = 0 /\ ended

Inv == TypeOK /\ Kept /\ Places

LEMMA UnitsType ==
  ASSUME NEW a \in Nat, NEW n \in Nat
  PROVE  Units(a, a + n) \in Seq(Nat) /\ Len(Units(a, a + n)) = n
<1>1. a + n - a = n OBVIOUS
<1>2. Units(a, a + n) = [i \in 1 .. n |-> a + i] BY <1>1 DEF Units
<1>3. \A i \in 1 .. n : a + i \in Nat OBVIOUS
<1> QED BY <1>2, <1>3, IsASeq

LEMMA UnitsConcat ==
  ASSUME NEW a \in Nat, NEW n \in Nat
  PROVE  Units(0, a) \o Units(a, a + n) = Units(0, a + n)
<1> DEFINE s == Units(0, a)
           t == Units(a, a + n)
           u == Units(0, a + n)
<1>1. s \in Seq(Nat) /\ Len(s) = a
  <2>1. 0 + a = a OBVIOUS
  <2> QED BY UnitsType, <2>1
<1>2. t \in Seq(Nat) /\ Len(t) = n BY UnitsType
<1>3. u \in Seq(Nat) /\ Len(u) = a + n
  <2>1. a + n \in Nat /\ 0 + (a + n) = a + n OBVIOUS
  <2>2. Units(0, 0 + (a + n)) \in Seq(Nat) /\ Len(Units(0, 0 + (a + n))) = a + n
    BY UnitsType, <2>1
  <2> QED BY <2>1, <2>2
<1>4. ASSUME NEW i \in 1 .. a + n PROVE (s \o t)[i] = u[i]
  <2>1. u[i] = i BY DEF Units
  <2>2. CASE i <= a
    <3>1. (s \o t)[i] = s[i] BY <1>1, <1>2, <2>2, ConcatProperties
    <3>2. s[i] = i BY <2>2 DEF Units
    <3> QED BY <2>1, <3>1, <3>2
  <2>3. CASE i > a
    <3>1. (s \o t)[i] = t[i - a] BY <1>1, <1>2, <2>3, ConcatProperties
    <3>2. i - a \in 1 .. n BY <2>3
    <3>3. t[i - a] = a + (i - a) BY <3>2 DEF Units
    <3>4. a + (i - a) = i OBVIOUS
    <3> QED BY <2>1, <3>1, <3>3, <3>4
  <2>4. i <= a \/ i > a OBVIOUS
  <2> HIDE DEF s, t, u
  <2> QED BY <2>2, <2>3, <2>4
<1>5. s \o t \in Seq(Nat) /\ Len(s \o t) = a + n BY <1>1, <1>2, ConcatProperties
<1> HIDE DEF s, t, u
<1>6. s \o t = u BY <1>3, <1>4, <1>5, SeqEqual
<1> QED BY <1>6 DEF s, t, u

LEMMA ConcatSeq ==
  ASSUME NEW s \in Seq(Nat), NEW t \in Seq(Nat)
  PROVE  s \o t \in Seq(Nat) /\ Len(s \o t) = Len(s) + Len(t) /\ Len(s) \in Nat /\ Len(t) \in Nat
BY ConcatProperties, LenProperties

LEMMA ConcatLeft ==
  ASSUME NEW s \in Seq(Nat), NEW t \in Seq(Nat), NEW i \in Nat, 1 <= i, i <= Len(s)
  PROVE  (s \o t)[i] = s[i]
<1>1. i \in 1 .. Len(s) + Len(t) BY ConcatSeq
<1> QED BY <1>1, ConcatProperties

LEMMA ConcatRight ==
  ASSUME NEW s \in Seq(Nat), NEW t \in Seq(Nat), NEW i \in Nat,
         Len(s) < i, i <= Len(s) + Len(t)
  PROVE  (s \o t)[i] = t[i - Len(s)]
<1>1. i \in 1 .. Len(s) + Len(t) /\ ~(i <= Len(s)) BY ConcatSeq
<1> QED BY <1>1, ConcatProperties

LEMMA ConcatAssoc ==
  ASSUME NEW x \in Seq(Nat), NEW y \in Seq(Nat), NEW z \in Seq(Nat)
  PROVE  (x \o y) \o z = x \o (y \o z)
<1>1. PICK a \in Nat, b \in Nat, c \in Nat : a = Len(x) /\ b = Len(y) /\ c = Len(z)
  BY LenProperties
<1>2. PICK xy \in Seq(Nat) : xy = x \o y /\ Len(xy) = a + b BY <1>1, ConcatSeq
<1>3. PICK yz \in Seq(Nat) : yz = y \o z /\ Len(yz) = b + c BY <1>1, ConcatSeq
<1>4. PICK l \in Seq(Nat) : l = xy \o z /\ Len(l) = a + b + c
  <2>1. xy \o z \in Seq(Nat) /\ Len(xy \o z) = a + b + c BY <1>1, <1>2, ConcatSeq
  <2> QED BY <2>1
<1>5. PICK r \in Seq(Nat) : r = x \o yz /\ Len(r) = a + b + c
  <2>1. x \o yz \in Seq(Nat) /\ Len(x \o yz) = a + (b + c) BY <1>1, <1>3, ConcatSeq
  <2>2. a + (b + c) = a + b + c OBVIOUS
  <2> QED BY <2>1, <2>2
<1>6. ASSUME NEW i \in 1 .. Len(l) PROVE l[i] = r[i]
  <2>1. i \in Nat /\ 1 <= i /\ i <= a + b + c BY <1>4
  <2>2. CASE i <= a
    <3>1. i <= a + b BY <2>1, <2>2
    <3>2. l[i] = xy[i] BY <1>2, <1>4, <2>1, <3>1, ConcatLeft
    <3>3. xy[i] = x[i] BY <1>1, <1>2, <2>1, <2>2, ConcatLeft
    <3>4. r[i] = x[i] BY <1>1, <1>5, <2>1, <2>2, ConcatLeft
    <3> QED BY <3>2, <3>3, <3>4
  <2>3. CASE a < i /\ i <= a + b
    <3>1. i - a \in Nat /\ 1 <= i - a /\ i - a <= b /\ i <= a + (b + c) BY <2>1, <2>3
    <3>2. l[i] = xy[i] BY <1>2, <1>4, <2>1, <2>3, ConcatLeft
    <3>3. xy[i] = y[i - a] BY <1>1, <1>2, <2>1, <2>3, ConcatRight
    <3>4. r[i] = yz[i - a] BY <1>1, <1>3, <1>5, <2>1, <2>3, <3>1, ConcatRight
    <3>5. yz[i - a] = y[i - a] BY <1>1, <1>3, <3>1, ConcatLeft
    <3> QED BY <3>2, <3>3, <3>4, <3>5
  <2>4. CASE a + b < i
    <3>1. /\ i - a \in Nat /\ b < i - a /\ i - a <= b + c /\ a < i /\ i <= a + (b + c)
          /\ i <= (a + b) + c /\ i - (a + b) = (i - a) - b
      BY <2>1, <2>4
    <3>2. l[i] = z[i - (a + b)] BY <1>1, <1>2, <1>4, <2>1, <2>4, <3>1, ConcatRight
    <3>3. r[i] = yz[i - a]
      <4>1. Len(x) < i /\ i <= Len(x) + Len(yz) /\ i \in Nat BY <1>1, <1>3, <2>1, <3>1
      <4>2. (x \o yz)[i] = yz[i - Len(x)] BY <4>1, ConcatRight
      <4> QED BY <1>1, <1>5, <4>2
    <3>4. yz[i - a] = z[(i - a) - b]
      <4>1. Len(y) < i - a /\ i - a <= Len(y) + Len(z) BY <1>1, <3>1
      <4>2. (y \o z)[i - a] = z[(i - a) - Len(y)] BY <3>1, <4>1, ConcatRight
      <4> QED BY <1>1, <1>3, <4>2
    <3> QED BY <3>1, <3>2, <3>3, <3>4
  <2> QED BY <2>1, <2>2, <2>3, <2>4
<1>7. l = r BY <1>4, <1>5, <1>6, SeqEqual
<1> QED BY <1>2, <1>3, <1>4, <1>5, <1>7

\* A call of deflate: what it writes goes on where the temporary buffer ends.
LEMMA WriteKeeps ==
  ASSUME TypeOK, NEW n \in Nat, NEW all \in Nat, Write(n, all),
         buffer \o temp = Units(0, produced)
  PROVE  /\ temp' \in Seq(Nat) /\ Len(temp') = Len(temp) + n /\ Len(temp') <= BufSize
         /\ produced' \in Nat /\ held' \in Nat
         /\ buffer \o temp' = Units(0, produced')
<1> DEFINE u == Units(produced, produced + n)
<1>1. u \in Seq(Nat) /\ Len(u) = n BY UnitsType DEF TypeOK
<1>2. temp' = temp \o u /\ produced' = produced + n /\ held' = all - n BY DEF Write
<1>3. n <= all /\ n <= BufSize - Len(temp) BY DEF Write, AvailOut
<1> HIDE DEF u
<1>4. temp' \in Seq(Nat) /\ Len(temp') = Len(temp) + n
  BY <1>1, <1>2, ConcatProperties DEF TypeOK
<1>5. Len(temp) \in Nat BY LenProperties DEF TypeOK
<1>6. Len(temp') <= BufSize BY <1>3, <1>4, <1>5, SizesAssumption
<1>7. buffer \o temp' = (buffer \o temp) \o u
  <2>1. buffer \in Seq(Nat) /\ temp \in Seq(Nat) BY DEF TypeOK
  <2>2. (buffer \o temp) \o u = buffer \o (temp \o u) BY <1>1, <2>1, ConcatAssoc
  <2> QED BY <1>2, <2>2
<1>8. buffer \o temp' = Units(0, produced) \o u BY <1>7
<1>9. buffer \o temp' = Units(0, produced + n) BY <1>8, UnitsConcat DEF TypeOK, u
<1> QED BY <1>2, <1>3, <1>4, <1>6, <1>9 DEF TypeOK

LEMMA DrainKeeps ==
  ASSUME TypeOK, NEW from, NEW to, Drain(from, to),
         buffer \o temp = Units(0, produced)
  PROVE  /\ temp' \in Seq(Nat) /\ buffer' \in Seq(Nat) /\ Len(temp') < BufSize
         /\ buffer' \o temp' = Units(0, produced')
<1> USE DEF TypeOK
<1>1. CASE AvailOut = 0
  <2>1. buffer' = buffer \o temp /\ temp' = <<>> /\ produced' = produced
    BY <1>1 DEF Drain
  <2>2. buffer' \in Seq(Nat) BY <2>1, ConcatProperties
  <2>3. temp' \in Seq(Nat) /\ Len(temp') = 0 BY <2>1, EmptySeq
  <2>4. buffer' \o temp' = buffer' BY <2>1, <2>2, ConcatEmptySeq
  <2>5. 0 < BufSize BY SizesAssumption
  <2>6. Len(temp') < BufSize BY <2>3, <2>5
  <2> QED BY <2>1, <2>2, <2>3, <2>4, <2>6
<1>2. CASE AvailOut # 0
  <2>1. buffer' = buffer /\ temp' = temp /\ produced' = produced BY <1>2 DEF Drain
  <2>2. Len(temp) \in Nat BY LenProperties
  <2>3. Len(temp) < BufSize BY <1>2, <2>2, SizesAssumption DEF AvailOut
  <2> QED BY <2>1, <2>3
<1> QED BY <1>1, <1>2

LEMMA InitInv == Init => Inv
<1> SUFFICES ASSUME Init PROVE Inv OBVIOUS
<1>1. temp = <<>> /\ buffer = <<>> /\ <<>> \in Seq(Nat) /\ Len(<<>>) = 0
  BY EmptySeq DEF Init
<1>2. 0 < BufSize /\ BufSize \in Nat BY SizesAssumption
<1>3. availIn \in Nat BY SizesAssumption DEF Init
<1>4. TypeOK
  <2>1. temp \in Seq(Nat) /\ buffer \in Seq(Nat) /\ Len(temp) = 0 BY <1>1
  <2>2. Len(temp) <= BufSize BY <1>2, <2>1
  <2>3. pc \in {"feed", "finishDrain"} BY DEF Init
  <2> QED BY <1>3, <2>1, <2>2, <2>3 DEF Init, TypeOK
<1>5. Units(0, produced) = <<>>
  <2>1. produced = 0 BY DEF Init
  <2>2. Units(0, 0 + 0) \in Seq(Nat) /\ Len(Units(0, 0 + 0)) = 0 BY UnitsType
  <2>3. Units(0, produced) \in Seq(Nat) /\ Len(Units(0, produced)) = 0 BY <2>1, <2>2
  <2> QED BY <2>3, EmptySeq
<1>6. buffer \o temp = <<>> BY <1>1, ConcatEmptySeq
<1>7. Kept BY <1>5, <1>6 DEF Kept, Init
<1>8. Places BY <1>1, <1>2 DEF Places, Init
<1> QED BY <1>4, <1>7, <1>8 DEF Inv

LEMMA InvStep == Inv /\ [Next]_vars => Inv'
<1> SUFFICES ASSUME Inv, [Next]_vars PROVE Inv' OBVIOUS
<1>1. TypeOK /\ Places /\ Kept BY DEF Inv
<1>2. CASE UNCHANGED vars BY <1>1, <1>2 DEF vars, Inv, TypeOK, Places, Kept
<1>3. CASE Feed
  <2>1. AvailOut > 0 /\ pc = "feed"
    <3>1. Len(temp) < BufSize BY <1>1, <1>3 DEF Feed, Places
    <3>2. Len(temp) \in Nat BY <1>1, LenProperties DEF TypeOK
    <3> QED BY <1>3, <3>1, <3>2, SizesAssumption DEF AvailOut, Feed
  <2>2. AvailOut \in Nat
    <3>1. Len(temp) \in Nat BY <1>1, LenProperties DEF TypeOK
    <3> QED BY <3>1, <2>1, SizesAssumption DEF AvailOut
  <2>3. pc' = "feedDrain" /\ buffer' = buffer /\ ended' = ended BY <1>3, <2>1, <2>2 DEF Feed
  <2>4. PICK used \in 0 .. availIn, gain \in Nat, n \in Nat :
          Write(n, held + gain) /\ availIn' = availIn - used
    <3>1. PICK used \in 0 .. availIn :
            \E gain \in 0 .. used, n \in 0 .. AvailOut :
              Write(n, held + gain) /\ availIn' = availIn - used
      BY <1>3, <2>1, <2>2 DEF Feed
    <3>2. used \in Nat BY <1>1 DEF TypeOK
    <3> QED BY <2>2, <3>1, <3>2
  <2>5. buffer \o temp = Units(0, produced) BY <1>1, <2>1 DEF Kept
  <2>6. held + gain \in Nat BY <1>1 DEF TypeOK
  <2>7. /\ temp' \in Seq(Nat) /\ Len(temp') <= BufSize
        /\ produced' \in Nat /\ held' \in Nat
        /\ buffer \o temp' = Units(0, produced')
    BY <1>1, <2>4, <2>5, <2>6, WriteKeeps
  <2>8. availIn' \in Nat BY <1>1, <2>4 DEF TypeOK
  <2>9. TypeOK' BY <1>1, <2>3, <2>7, <2>8 DEF TypeOK
  <2>10. Kept' BY <2>3, <2>7 DEF Kept
  <2>11. Places' BY <2>3 DEF Places
  <2> QED BY <2>9, <2>10, <2>11 DEF Inv
<1>4. CASE AfterFeed
  <2> DEFINE to == IF availIn # 0 THEN "feed" ELSE "finishDrain"
  <2>1. Drain("feedDrain", to) BY <1>4 DEF AfterFeed
  <2>2. pc = "feedDrain" /\ pc' = to /\ UNCHANGED <<availIn, produced, held, ended>>
    BY <2>1 DEF Drain
  <2>3. buffer \o temp = Units(0, produced) BY <1>1, <2>2 DEF Kept
  <2>4. /\ temp' \in Seq(Nat) /\ buffer' \in Seq(Nat) /\ Len(temp') < BufSize
        /\ buffer' \o temp' = Units(0, produced')
    BY <1>1, <2>1, <2>3, DrainKeeps
  <2>5. Len(temp') <= BufSize
    <3>1. Len(temp') \in Nat BY <2>4, LenProperties
    <3> QED BY <3>1, <2>4, SizesAssumption
  <2>6. TypeOK' BY <1>1, <2>2, <2>4, <2>5 DEF TypeOK
  <2>7. Kept' BY <2>2, <2>4 DEF Kept
  <2>8. Places' BY <2>2, <2>4 DEF Places
  <2> QED BY <2>6, <2>7, <2>8 DEF Inv
<1>5. CASE BeforeFinish
  <2>1. Drain("finishDrain", "finish") BY <1>5 DEF BeforeFinish
  <2>2. pc = "finishDrain" /\ pc' = "finish" /\ UNCHANGED <<availIn, produced, held, ended>>
    BY <2>1 DEF Drain
  <2>3. buffer \o temp = Units(0, produced) BY <1>1, <2>2 DEF Kept
  <2>4. /\ temp' \in Seq(Nat) /\ buffer' \in Seq(Nat) /\ Len(temp') < BufSize
        /\ buffer' \o temp' = Units(0, produced')
    BY <1>1, <2>1, <2>3, DrainKeeps
  <2>5. Len(temp') <= BufSize
    <3>1. Len(temp') \in Nat BY <2>4, LenProperties
    <3> QED BY <3>1, <2>4, SizesAssumption
  <2>6. TypeOK' BY <1>1, <2>2, <2>4, <2>5 DEF TypeOK
  <2>7. Kept' BY <2>2, <2>4 DEF Kept
  <2>8. Places' BY <1>1, <2>2, <2>4 DEF Places
  <2> QED BY <2>6, <2>7, <2>8 DEF Inv
<1>6. CASE Finish
  <2>1. pc = "finish" /\ availIn' = availIn /\ buffer' = buffer BY <1>6 DEF Finish
  <2>2. AvailOut \in Nat /\ AvailOut > 0
    <3>1. Len(temp) < BufSize BY <1>1, <2>1 DEF Places
    <3>2. Len(temp) \in Nat BY <1>1, LenProperties DEF TypeOK
    <3> QED BY <3>1, <3>2, SizesAssumption DEF AvailOut
  <2>3. ended' = TRUE BY <1>6, <2>2 DEF Finish
  <2>4. PICK t \in Nat, n \in Nat :
          /\ Write(n, held + t)
          /\ (held' = 0 /\ pc' = "finished") \/ pc' = "finishDrain"
    <3>1. PICK t \in IF ended THEN {0} ELSE 1 .. Trailer, n \in 0 .. AvailOut :
            /\ Write(n, held + t)
            /\ (held' = 0 /\ pc' = "finished") \/ pc' = "finishDrain"
      BY <1>6, <2>2 DEF Finish
    <3>2. t \in Nat BY SizesAssumption
    <3> QED BY <2>2, <3>1, <3>2
  <2>5. buffer \o temp = Units(0, produced) BY <1>1, <2>1 DEF Kept
  <2>6. held + t \in Nat BY <1>1 DEF TypeOK
  <2>7. /\ temp' \in Seq(Nat) /\ Len(temp') <= BufSize
        /\ produced' \in Nat /\ held' \in Nat
        /\ buffer \o temp' = Units(0, produced')
    BY <1>1, <2>4, <2>5, <2>6, WriteKeeps
  <2>8. TypeOK' BY <1>1, <2>1, <2>3, <2>4, <2>7 DEF TypeOK
  <2>9. Kept' BY <2>1, <2>4, <2>7 DEF Kept
  <2>10. Places' BY <1>1, <2>1, <2>3, <2>4 DEF Places
  <2> QED BY <2>8, <2>9, <2>10 DEF Inv
<1>7. CASE Rest
  <2>1. /\ pc = "finished" /\ pc' = "done" /\ buffer' = buffer \o temp
        /\ UNCHANGED <<availIn, temp, produced, held, ended>>
    BY <1>7 DEF Rest
  <2>2. buffer' \in Seq(Nat) BY <1>1, <2>1, ConcatProperties DEF TypeOK
  <2>3. TypeOK' BY <1>1, <2>1, <2>2 DEF TypeOK
  <2>4. Kept' BY <1>1, <2>1 DEF Kept
  <2>5. Places' BY <1>1, <2>1 DEF Places
  <2> QED BY <2>3, <2>4, <2>5 DEF Inv
<1> QED BY <1>2, <1>3, <1>4, <1>5, <1>6, <1>7 DEF Next

\* Whatever the sizes are and however deflate splits its work, compressMemory returns
\* the whole stream once and in order, and neither assertion fails.
THEOREM StreamIsWhole == Spec => []WholeStream
<1>1. Inv => WholeStream BY DEF Inv, Kept, Places, WholeStream
<1> QED BY InitInv, InvStep, <1>1, PTL DEF Spec

=============================================================================
