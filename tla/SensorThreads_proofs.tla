------------------------- MODULE SensorThreads_proofs -------------------------
(***************************************************************************)
(* For any number of queues in the ring and any size of a burst every      *)
(* sample is accounted for, and the queue implements the stream.  The      *)
(* threads keep apart in the devices, whatever their number of files,      *)
(* samples, events and faults, what they do to the queues is what          *)
(* SensorQueue allows, and the events they pass on are the driver's.       *)
(***************************************************************************)
EXTENDS SensorThreads, SequenceTheorems, TLAPS

-----------------------------------------------------------------------------
(* The queues, for any set of sensors and of queue counts: this part cites *)
(* the assumptions of SensorQueue only.                                    *)

USE BurstAssumption, QueueCountsAssumption

\* The rounding of publishData: burst k exists if a sample is left for it.
LEMMA BurstExists ==
  ASSUME NEW n \in Nat, NEW k \in Nat
  PROVE  /\ Bursts(n) \in Nat
         /\ k < Bursts(n) <=> k * Burst < n
<1> DEFINE q == Bursts(n)
<1>1. /\ q \in Int
      /\ Burst * q <= n + Burst - 1
      /\ n + Burst - 1 < Burst * q + Burst
  BY DEF Bursts
<1>2. q \in Nat
  BY <1>1 DEF Bursts
<1>3. ASSUME k < q PROVE k * Burst < n
  <2>1. k + 1 <= q
    BY <1>3, <1>2
  <2>2. Burst * (k + 1) <= Burst * q
    BY <2>1, <1>2
  <2>3. Burst * (k + 1) = k * Burst + Burst /\ k * Burst \in Nat /\ Burst * q \in Nat
    BY <1>2
  <2> QED
    BY <2>2, <2>3, <1>1
<1>4. ASSUME ~(k < q) PROVE ~(k * Burst < n)
  <2>1. Burst * q <= Burst * k
    BY <1>4, <1>2
  <2>2. Burst * k = k * Burst /\ k * Burst \in Nat /\ Burst * q \in Nat
    BY <1>2
  <2> QED
    BY <2>1, <2>2, <1>1
<1> QED
  BY <1>2, <1>3, <1>4

\* The size of a burst: full ones, then the remainder, at least one packet.
LEMMA BurstSize ==
  ASSUME NEW n \in Nat, NEW k \in Nat, k < Bursts(n)
  PROVE  /\ k * Burst \in Nat /\ (k + 1) * Burst = k * Burst + Burst
         /\ Size(n, k) \in 1 .. Burst
         /\ k * Burst + Size(n, k) <= n
         /\ k + 1 < Bursts(n) => Size(n, k) = Burst
         /\ k + 1 = Bursts(n) => k * Burst + Size(n, k) = n
         /\ k + 1 <= Bursts(n)
<1>1. k * Burst < n /\ Bursts(n) \in Nat
  BY BurstExists
<1>2. k + 1 \in Nat /\ (k + 1 < Bursts(n) <=> (k + 1) * Burst < n)
  BY BurstExists
<1>3. k * Burst \in Nat /\ (k + 1) * Burst = k * Burst + Burst
  OBVIOUS
<1>4. Size(n, k) \in 1 .. Burst /\ k * Burst + Size(n, k) <= n
  BY <1>1, <1>3 DEF Size
<1>5. k + 1 < Bursts(n) => Size(n, k) = Burst
  BY <1>1, <1>2, <1>3 DEF Size
<1>6. k + 1 = Bursts(n) => k * Burst + Size(n, k) = n
  BY <1>1, <1>2, <1>3 DEF Size
<1> QED
  BY <1>1, <1>3, <1>4, <1>5, <1>6

\* A burst is the piece of the batch that starts at k * Burst.
LEMMA BurstPackets ==
  ASSUME NEW S, NEW items \in Seq(S), NEW k \in Nat, k < Bursts(Len(items))
  PROVE  /\ Packets(items, k) \in Seq(S)
         /\ Len(Packets(items, k)) = Size(Len(items), k)
         /\ \A i \in 1 .. Size(Len(items), k) : Packets(items, k)[i] = items[k * Burst + i]
<1> DEFINE z == Size(Len(items), k)
           m == k * Burst
<1>1. Len(items) \in Nat
  OBVIOUS
<1>2. m \in Nat /\ z \in Nat \ {0} /\ m + z <= Len(items)
  BY <1>1, BurstSize
<1> HIDE DEF z, m
<1>3. Packets(items, k) = SubSeq(items, m + 1, m + z)
  BY DEF Packets, z, m
<1>4. /\ SubSeq(items, m + 1, m + z) \in Seq(S)
      /\ Len(SubSeq(items, m + 1, m + z)) = z
      /\ \A i \in 1 .. z : SubSeq(items, m + 1, m + z)[i] = items[m + i]
  <2>1. \A i \in m + 1 .. m + z : items[i] \in S
    BY <1>2
  <2>2. /\ SubSeq(items, m + 1, m + z) \in Seq(S)
        /\ Len(SubSeq(items, m + 1, m + z)) = z
        /\ \A i \in 1 .. z : SubSeq(items, m + 1, m + z)[i] = items[(m + 1) + i - 1]
    BY <1>2, <2>1, SubSeqProperties
  <2> QED
    BY <1>2, <2>2
<1> QED
  BY <1>3, <1>4 DEF z, m

\* The empty sequence is one of numbers.
LEMMA EmptySeqIsSeq == << >> \in Seq(Nat)
OBVIOUS

\* currentQueueIndex stays in the ring.
LEMMA Modulo ==
  ASSUME NEW i \in Int, NEW n \in Nat \ {0}
  PROVE  i % n \in 0 .. n - 1
OBVIOUS

-----------------------------------------------------------------------------
(* Types.                                                                  *)

QueueTypeOK ==
  /\ queueCount \in Nat \ {0}
  /\ stored \in [Sensor -> Nat]
  /\ current \in [Sensor -> 0 .. queueCount - 1]
  /\ queues \in [Sensor -> [0 .. queueCount - 1 -> Seq(Nat)]]
  /\ owner \in Sensor /\ data \in Seq(Nat)
  /\ b \in Nat /\ b <= Bursts(Len(data))
  /\ published \in [Sensor -> Seq(Nat)]

LEMMA TypeInit == QueueInit => QueueTypeOK
<1> SUFFICES ASSUME QueueInit PROVE QueueTypeOK
  OBVIOUS
<1> USE DEF QueueInit
<1>1. queueCount \in Nat \ {0}
  OBVIOUS
<1>2. Bursts(0) \in Nat
  BY BurstExists
<1>3. b <= Bursts(Len(data))
  BY <1>2
<1>4. queues \in [Sensor -> [0 .. queueCount - 1 -> Seq(Nat)]]
  BY <1>1
<1> QED
  BY <1>1, <1>3, <1>4 DEF QueueTypeOK

LEMMA TypeStep == QueueTypeOK /\ [QueueNext]_queueVars => QueueTypeOK'
<1> SUFFICES ASSUME QueueTypeOK, [QueueNext]_queueVars PROVE QueueTypeOK'
  OBVIOUS
<1> USE DEF QueueTypeOK
<1>1. ASSUME NEW s \in Sensor, StoreSample(s) PROVE QueueTypeOK'
  <2>0. stored[s] + 1 \in Nat
    <3>1. stored[s] \in Nat
      OBVIOUS
    <3> HIDE DEF QueueTypeOK
    <3> QED BY <3>1
  <2>1. stored' \in [Sensor -> Nat]
    BY <1>1, <2>0, Zenon DEF StoreSample
  <2>2. Append(queues[s][current[s]], stored[s] + 1) \in Seq(Nat)
    <3>1. queues[s][current[s]] \in Seq(Nat)
      OBVIOUS
    <3> HIDE DEF QueueTypeOK
    <3> QED
      BY <2>0, <3>1
  <2>3. queues' \in [Sensor -> [0 .. queueCount' - 1 -> Seq(Nat)]]
    BY <1>1, <2>2 DEF StoreSample
  <2>4. UNCHANGED <<queueCount, current, owner, data, b, published>>
    BY <1>1 DEF StoreSample
  <2> QED
    BY <2>1, <2>3, <2>4 DEF Bursts
<1>2. ASSUME NEW s \in Sensor, GetQueue(s) PROVE QueueTypeOK'
  <2>1. (current[s] + 1) % queueCount \in 0 .. queueCount - 1
    <3>1. current[s] + 1 \in Int
      OBVIOUS
    <3> QED
      BY <3>1, Modulo
  <2>2. current' \in [Sensor -> 0 .. queueCount' - 1]
    BY <1>2, <2>1 DEF GetQueue
  <2>3. queues' \in [Sensor -> [0 .. queueCount' - 1 -> Seq(Nat)]]
    BY <1>2, EmptySeqIsSeq DEF GetQueue
  <2>4. data' \in Seq(Nat) /\ b' = 0
    BY <1>2 DEF GetQueue
  <2>5. b' \in Nat /\ b' <= Bursts(Len(data'))
    <3>1. Len(data') \in Nat
      BY <2>4
    <3>2. Bursts(Len(data')) \in Nat
      BY <3>1, BurstExists
    <3> QED
      BY <2>4, <3>2
  <2>6. owner' \in Sensor /\ UNCHANGED <<queueCount, stored, published>>
    BY <1>2 DEF GetQueue
  <2> QED
    BY <2>2, <2>3, <2>4, <2>5, <2>6
<1>3. ASSUME SendBurst PROVE QueueTypeOK'
  <2>1. Packets(data, b) \in Seq(Nat)
    BY <1>3, BurstPackets DEF SendBurst
  <2>2. published' \in [Sensor -> Seq(Nat)]
    BY <1>3, <2>1 DEF SendBurst
  <2>3. Bursts(Len(data)) \in Nat
    BY BurstExists
  <2>4. b' \in Nat /\ b' <= Bursts(Len(data))'
    BY <1>3, <2>3 DEF SendBurst
  <2> QED
    BY <1>3, <2>2, <2>4 DEF SendBurst
<1>4. ASSUME UNCHANGED queueVars PROVE QueueTypeOK'
  BY <1>4 DEF queueVars, Bursts
<1> QED
  BY <1>1, <1>2, <1>3, <1>4 DEF QueueNext

\* The samples, the ring and the batch always have their types.
THEOREM TypeCorrect == QueueSpec => []QueueTypeOK
<1> QED
  BY TypeInit, TypeStep, PTL DEF QueueSpec

-----------------------------------------------------------------------------
(* Every sample is accounted for.                                          *)

Safe(s) == PublishedOrder(s) /\ RestOrder(s) /\ QueueOrder(s) /\ NoneLost(s) /\ OthersEmpty(s)

LEMMA RestIsNat ==
  ASSUME QueueTypeOK, NEW s \in Sensor
  PROVE  Rest(s) \in Nat /\ (s = owner /\ ~BatchDone => Rest(s) = Len(data) - b * Burst)
<1>1. CASE s = owner /\ ~BatchDone
  <2>1. Len(data) \in Nat /\ Bursts(Len(data)) \in Nat
    BY BurstExists DEF QueueTypeOK
  <2>2. b < Bursts(Len(data))
    BY <1>1, <2>1 DEF QueueTypeOK, BatchDone
  <2>3. b * Burst < Len(data) /\ b * Burst \in Nat
    BY <2>1, <2>2, BurstExists DEF QueueTypeOK
  <2> QED
    BY <1>1, <2>1, <2>3 DEF Rest
<1>2. CASE ~(s = owner /\ ~BatchDone)
  BY <1>2 DEF Rest
<1> QED
  BY <1>1, <1>2

\* The types of one sensor.
LEMMA SensorTypes ==
  ASSUME QueueTypeOK, NEW s \in Sensor
  PROVE  /\ queues[s][current[s]] \in Seq(Nat) /\ Len(queues[s][current[s]]) \in Nat
         /\ published[s] \in Seq(Nat) /\ Len(published[s]) \in Nat
         /\ stored[s] \in Nat
<1>1. queues[s] \in [0 .. queueCount - 1 -> Seq(Nat)] /\ current[s] \in 0 .. queueCount - 1
  BY DEF QueueTypeOK
<1>2. queues[s][current[s]] \in Seq(Nat)
  BY <1>1
<1>3. published[s] \in Seq(Nat) /\ stored[s] \in Nat
  BY DEF QueueTypeOK
<1> QED
  BY <1>2, <1>3

LEMMA AccountedInit == QueueInit => Accounted
<1> SUFFICES ASSUME QueueInit, NEW s \in Sensor PROVE Safe(s)
  BY DEF Accounted, Safe
<1> USE DEF QueueInit
<1>1. QueueTypeOK
  BY TypeInit
<1>2. Bursts(0) = 0
  BY BurstExists
<1>3. BatchDone
  BY <1>2 DEF BatchDone
<1>4. Rest(s) = 0
  BY <1>3 DEF Rest
<1>5. queues[s][current[s]] = << >> /\ published[s] = << >> /\ stored[s] = 0
  BY <1>1 DEF QueueTypeOK
<1>6. PublishedOrder(s) /\ RestOrder(s) /\ QueueOrder(s) /\ NoneLost(s)
  BY <1>4, <1>5 DEF PublishedOrder, RestOrder, QueueOrder, NoneLost
<1>7. OthersEmpty(s)
  BY DEF OthersEmpty
<1> QED
  BY <1>6, <1>7 DEF Safe

\* Storing appends the next number to the current queue.
LEMMA AccountedStore ==
  ASSUME QueueTypeOK, Accounted, NEW t \in Sensor, StoreSample(t)
  PROVE  Accounted'
<1> SUFFICES ASSUME NEW s \in Sensor PROVE Safe(s)'
  BY DEF Accounted, Safe
<1>0. Safe(s)
  BY DEF Accounted, Safe
<1>1. UNCHANGED <<queueCount, current, owner, data, b, published>>
  BY DEF StoreSample
<1>2. Rest(s)' = Rest(s) /\ Rest(s) \in Nat
  BY <1>1, RestIsNat DEF Rest, BatchDone, Bursts
<1>3. CASE s # t
  <2>1. queues'[s] = queues[s] /\ stored'[s] = stored[s]
    BY <1>3 DEF StoreSample, QueueTypeOK
  <2> QED
    BY <1>0, <1>1, <1>2, <2>1
    DEF Safe, PublishedOrder, RestOrder, QueueOrder, NoneLost, OthersEmpty
<1>4. CASE s = t
  <2> DEFINE Q == queues[s][current[s]]
             P == Len(published[s])
  <2>1. Q \in Seq(Nat) /\ Len(Q) \in Nat /\ P \in Nat /\ stored[s] \in Nat
    BY SensorTypes
  <2>2. queues'[s][current'[s]] = Append(Q, stored[s] + 1) /\ stored'[s] = stored[s] + 1
    BY <1>4, <1>1 DEF StoreSample, QueueTypeOK
  <2>3. \A q \in (0 .. queueCount - 1) \ {current[s]} : queues'[s][q] = queues[s][q]
    BY <1>4 DEF StoreSample, QueueTypeOK
  <2> HIDE DEF Q, P
  <2>4. P + Rest(s) + Len(Q) = stored[s]
    BY <1>0 DEF Safe, NoneLost, P, Q
  <2>5. \A i \in 1 .. Len(Q) : Q[i] = P + Rest(s) + i
    BY <1>0 DEF Safe, QueueOrder, P, Q
  <2>6. /\ Len(Append(Q, stored[s] + 1)) = Len(Q) + 1
        /\ \A i \in 1 .. Len(Q) + 1 :
             Append(Q, stored[s] + 1)[i] = IF i <= Len(Q) THEN Q[i] ELSE stored[s] + 1
    BY <2>1
  <2>7. \A i \in 1 .. Len(Q) + 1 : Append(Q, stored[s] + 1)[i] = P + Rest(s) + i
    <3> SUFFICES ASSUME NEW i \in 1 .. Len(Q) + 1
                 PROVE  Append(Q, stored[s] + 1)[i] = P + Rest(s) + i
      OBVIOUS
    <3>1. CASE i <= Len(Q)
      BY <2>1, <2>5, <2>6, <3>1
    <3>2. CASE ~(i <= Len(Q))
      <4>1. i = Len(Q) + 1
        BY <2>1, <3>2
      <4>2. Append(Q, stored[s] + 1)[i] = stored[s] + 1
        BY <2>6, <3>2
      <4> QED BY <1>2, <2>1, <2>4, <4>1, <4>2
    <3> QED BY <3>1, <3>2
  <2>8. QueueOrder(s)' /\ NoneLost(s)'
    <3>1. PICK new : new = Append(Q, stored[s] + 1) /\ queues'[s][current'[s]] = new
      BY <2>2
    <3>2. /\ Len(new) = Len(Q) + 1 /\ Len(published'[s]) = P /\ Rest(s)' = Rest(s)
          /\ \A i \in 1 .. Len(Q) + 1 : new[i] = P + Rest(s) + i
      BY <1>1, <1>2, <2>6, <2>7, <3>1 DEF P
    <3>3. QueueOrder(s)'
      BY <3>1, <3>2 DEF QueueOrder
    <3>4. NoneLost(s)'
      <4>1. P + Rest(s) + (Len(Q) + 1) = stored[s] + 1
        BY <1>2, <2>1, <2>4
      <4> QED BY <2>2, <3>1, <3>2, <4>1 DEF NoneLost
    <3> QED BY <3>3, <3>4
  <2>9. PublishedOrder(s)' /\ RestOrder(s)'
    BY <1>0, <1>1, <1>2 DEF Safe, PublishedOrder, RestOrder
  <2>10. OthersEmpty(s)'
    BY <1>0, <1>1, <2>3 DEF Safe, OthersEmpty
  <2> QED
    BY <2>8, <2>9, <2>10 DEF Safe
<1> QED
  BY <1>3, <1>4

\* Taking the queue moves it to the batch and goes on with an empty one.
LEMMA AccountedGet ==
  ASSUME QueueTypeOK, Accounted, NEW t \in Sensor, GetQueue(t)
  PROVE  Accounted'
<1> SUFFICES ASSUME NEW s \in Sensor PROVE Safe(s)'
  BY DEF Accounted, Safe
<1>0. Safe(s)
  BY DEF Accounted, Safe
<1>1. UNCHANGED <<queueCount, stored, published>> /\ owner' = t /\ b' = 0 /\ BatchDone
  BY DEF GetQueue
<1>2. Rest(s) = 0
  BY <1>1 DEF Rest
<1>3. CASE s # t
  <2>1. queues'[s] = queues[s] /\ current'[s] = current[s]
    BY <1>3 DEF GetQueue, QueueTypeOK
  <2>2. Rest(s)' = 0
    BY <1>1, <1>3 DEF Rest
  <2>3. RestOrder(s)'
    BY <2>2 DEF RestOrder
  <2>4. QueueOrder(s)' /\ NoneLost(s)'
    BY <1>0, <1>1, <1>2, <2>1, <2>2 DEF Safe, QueueOrder, NoneLost
  <2>5. PublishedOrder(s)' /\ OthersEmpty(s)'
    BY <1>0, <1>1, <2>1 DEF Safe, PublishedOrder, OthersEmpty
  <2> QED
    BY <2>3, <2>4, <2>5 DEF Safe
<1>4. CASE s = t
  <2> DEFINE Q == queues[s][current[s]]
             P == Len(published[s])
  <2>1. Q \in Seq(Nat) /\ Len(Q) \in Nat /\ P \in Nat /\ stored[s] \in Nat
    BY SensorTypes
  <2>2. data' = Q
    BY <1>4 DEF GetQueue
  <2>3. queues'[s][current[s]] = << >>
    BY <1>4 DEF GetQueue, QueueTypeOK
  <2>4. \A q \in (0 .. queueCount - 1) \ {current[s]} : queues'[s][q] = queues[s][q]
    BY <1>4 DEF GetQueue, QueueTypeOK
  <2>5. \A q \in 0 .. queueCount - 1 : queues'[s][q] = << >>
    BY <1>0, <2>3, <2>4 DEF Safe, OthersEmpty
  <2>6. current'[s] \in 0 .. queueCount - 1
    <3>1. QueueTypeOK'
      BY TypeStep DEF QueueNext
    <3> QED
      BY <3>1, <1>1 DEF QueueTypeOK
  <2>7. queues'[s][current'[s]] = << >>
    BY <2>5, <2>6
  <2> HIDE DEF Q, P
  <2>8. P + Len(Q) = stored[s]
    <3>1. P + Rest(s) + Len(Q) = stored[s]
      BY <1>0 DEF Safe, NoneLost, P, Q
    <3> QED
      BY <1>2, <2>1, <3>1
  <2>9. \A i \in 1 .. Len(Q) : Q[i] = P + i
    <3>1. \A i \in 1 .. Len(Q) : Q[i] = P + Rest(s) + i
      BY <1>0 DEF Safe, QueueOrder, P, Q
    <3> QED
      BY <1>2, <2>1, <3>1
  <2>10. Rest(s)' = Len(Q)
    <3>1. Bursts(Len(Q)) \in Nat /\ (0 < Bursts(Len(Q)) <=> 0 < Len(Q))
      BY <2>1, BurstExists
    <3>2. Rest(s)' = IF ~(0 = Bursts(Len(Q))) THEN Len(Q) - 0 * Burst ELSE 0
      BY <1>1, <1>4, <2>2 DEF Rest, BatchDone, Bursts
    <3>3. 0 * Burst = 0
      OBVIOUS
    <3> QED
      BY <3>1, <3>2, <3>3, <2>1
  <2>11. RestOrder(s)'
    <3>1. Len(published'[s]) = P
      BY <1>1 DEF P
    <3> SUFFICES ASSUME NEW i \in 1 .. Len(Q) PROVE data'[b' * Burst + i] = P + i
      BY <2>10, <3>1 DEF RestOrder
    <3>2. b' * Burst + i = i
      BY <1>1, <2>1
    <3> QED
      BY <2>2, <2>9, <3>2
  <2>12. QueueOrder(s)' /\ NoneLost(s)'
    BY <1>1, <2>1, <2>7, <2>8, <2>10 DEF QueueOrder, NoneLost, P
  <2>13. PublishedOrder(s)' /\ OthersEmpty(s)'
    BY <1>0, <1>1, <2>5 DEF Safe, PublishedOrder, OthersEmpty
  <2> QED
    BY <2>11, <2>12, <2>13 DEF Safe
<1> QED
  BY <1>3, <1>4

\* A burst moves its packets from the front of the rest to the end of what is
\* published.
LEMMA AccountedSend ==
  ASSUME QueueTypeOK, Accounted, SendBurst
  PROVE  Accounted'
<1> SUFFICES ASSUME NEW s \in Sensor PROVE Safe(s)'
  BY DEF Accounted, Safe
<1>0. Safe(s)
  BY DEF Accounted, Safe
<1>1. /\ UNCHANGED <<queueCount, stored, queues, current, owner, data>>
      /\ b' = b + 1 /\ b < Bursts(Len(data))
      /\ published' = [published EXCEPT ![owner] = @ \o Packets(data, b)]
  BY DEF SendBurst
<1>2. CASE s # owner
  <2>1. published'[s] = published[s]
    BY <1>1, <1>2 DEF QueueTypeOK
  <2>2. Rest(s) = 0 /\ Rest(s)' = 0
    BY <1>1, <1>2 DEF Rest
  <2>3. RestOrder(s)'
    BY <2>2 DEF RestOrder
  <2>4. QueueOrder(s)' /\ NoneLost(s)'
    BY <1>0, <1>1, <2>1, <2>2 DEF Safe, QueueOrder, NoneLost
  <2>5. PublishedOrder(s)' /\ OthersEmpty(s)'
    BY <1>0, <1>1, <2>1 DEF Safe, PublishedOrder, OthersEmpty
  <2> QED
    BY <2>3, <2>4, <2>5 DEF Safe
<1>3. CASE s = owner
  <2> DEFINE Q == queues[s][current[s]]
             P == published[s]
             n == Len(data)
             z == Size(n, b)
             m == b * Burst
  <2>1. Q \in Seq(Nat) /\ Len(Q) \in Nat /\ P \in Seq(Nat) /\ Len(P) \in Nat /\ stored[s] \in Nat
    BY SensorTypes
  <2>2. n \in Nat /\ b \in Nat /\ Bursts(n) \in Nat /\ b < Bursts(n)
    BY <1>1, BurstExists DEF QueueTypeOK
  <2>3. /\ m \in Nat /\ (b + 1) * Burst = m + Burst
        /\ z \in Nat /\ z > 0 /\ m + z <= n
        /\ b + 1 < Bursts(n) => z = Burst
        /\ b + 1 = Bursts(n) => m + z = n
    BY <2>2, BurstSize
  <2>4. /\ Packets(data, b) \in Seq(Nat) /\ Len(Packets(data, b)) = z
        /\ \A i \in 1 .. z : Packets(data, b)[i] = data[m + i]
    BY <2>2, BurstPackets DEF QueueTypeOK
  <2>5. published'[s] = P \o Packets(data, b)
    BY <1>1, <1>3 DEF QueueTypeOK
  <2>6. Rest(s) = n - m
    BY <1>3, <2>2, RestIsNat DEF BatchDone
  <2>7. Rest(s)' = IF ~(b + 1 = Bursts(n)) THEN n - (b + 1) * Burst ELSE 0
    BY <1>1, <1>3 DEF Rest, BatchDone, Bursts
  <2>8. \A i \in 1 .. n - m : data[m + i] = Len(P) + i
    BY <1>0, <2>6 DEF Safe, RestOrder
  <2>9. \A i \in 1 .. Len(P) : P[i] = i
    BY <1>0 DEF Safe, PublishedOrder
  <2>10. \A i \in 1 .. Len(Q) : Q[i] = Len(P) + (n - m) + i
    BY <1>0, <2>6 DEF Safe, QueueOrder
  <2>11. Len(P) + (n - m) + Len(Q) = stored[s]
    BY <1>0, <2>6 DEF Safe, NoneLost
  <2>12. queues'[s][current'[s]] = Q /\ stored'[s] = stored[s] /\ data' = data
    BY <1>1
  <2>13. OthersEmpty(s)'
    BY <1>0, <1>1 DEF Safe, OthersEmpty
  <2> HIDE DEF Q, P, n, z, m
  <2>14. Rest(s)' = (n - m) - z
    BY <2>2, <2>3, <2>7
  <2>15. /\ Len(published'[s]) = Len(P) + z
         /\ \A i \in 1 .. Len(P) + z :
              published'[s][i] = IF i <= Len(P) THEN P[i] ELSE Packets(data, b)[i - Len(P)]
    <3> DEFINE T == Packets(data, b)
    <3>1. T \in Seq(Nat) /\ Len(T) = z
      BY <2>4
    <3> HIDE DEF T
    <3>2. /\ Len(P \o T) = Len(P) + Len(T)
          /\ \A i \in 1 .. Len(P) + Len(T) :
               (P \o T)[i] = IF i <= Len(P) THEN P[i] ELSE T[i - Len(P)]
      BY <2>1, <3>1, ConcatProperties
    <3> QED
      BY <2>5, <3>1, <3>2 DEF T
  <2>16. PublishedOrder(s)'
    <3> SUFFICES ASSUME NEW i \in 1 .. Len(P) + z PROVE published'[s][i] = i
      BY <2>15 DEF PublishedOrder
    <3>1. CASE i <= Len(P)
      <4>1. i \in 1 .. Len(P)
        BY <2>1, <2>3, <3>1
      <4> QED
        BY <2>9, <2>15, <3>1, <4>1
    <3>2. CASE ~(i <= Len(P))
      <4>1. i - Len(P) \in 1 .. z /\ i - Len(P) \in 1 .. n - m
        BY <2>1, <2>2, <2>3, <3>2
      <4>2. published'[s][i] = data[m + (i - Len(P))]
        BY <2>4, <2>15, <3>2, <4>1
      <4>3. data[m + (i - Len(P))] = Len(P) + (i - Len(P))
        BY <2>8, <4>1
      <4> QED
        BY <4>2, <4>3, <2>1, <2>3
    <3> QED
      BY <3>1, <3>2
  <2>17. RestOrder(s)'
    <3> SUFFICES ASSUME NEW i \in 1 .. (n - m) - z
                 PROVE  data[(b + 1) * Burst + i] = Len(P) + z + i
      BY <1>1, <2>12, <2>14, <2>15 DEF RestOrder
    <3>1. z = Burst
      BY <2>2, <2>3
    <3>2. z + i \in 1 .. n - m /\ (b + 1) * Burst + i = m + (z + i)
      BY <2>2, <2>3, <3>1
    <3> QED
      BY <2>1, <2>3, <2>8, <3>2
  <2>18. QueueOrder(s)' /\ NoneLost(s)'
    BY <2>1, <2>2, <2>3, <2>10, <2>11, <2>12, <2>14, <2>15 DEF QueueOrder, NoneLost
  <2> QED
    BY <2>13, <2>16, <2>17, <2>18 DEF Safe
<1> QED
  BY <1>2, <1>3

LEMMA AccountedStep == QueueTypeOK /\ Accounted /\ [QueueNext]_queueVars => Accounted'
<1> SUFFICES ASSUME QueueTypeOK, Accounted, [QueueNext]_queueVars PROVE Accounted'
  OBVIOUS
<1>1. ASSUME NEW s \in Sensor, StoreSample(s) PROVE Accounted'
  BY <1>1, AccountedStore
<1>2. ASSUME NEW s \in Sensor, GetQueue(s) PROVE Accounted'
  BY <1>2, AccountedGet
<1>3. CASE SendBurst
  BY <1>3, AccountedSend
<1>4. CASE UNCHANGED queueVars
  BY <1>4 DEF queueVars, Accounted, PublishedOrder, RestOrder, QueueOrder, NoneLost,
              OthersEmpty, Rest, BatchDone, Bursts
<1> QED
  BY <1>1, <1>2, <1>3, <1>4 DEF QueueNext

\* No sample is lost, sent twice or sent out of order: for any number of queues in
\* the ring, any size of a burst and any order of storing, taking and publishing.
THEOREM SamplesAccounted == QueueSpec => []Accounted
<1> QED
  BY AccountedInit, AccountedStep, TypeCorrect, PTL DEF QueueSpec

-----------------------------------------------------------------------------
(* The queue implements the stream.                                        *)

LEMMA IsUpTo ==
  ASSUME NEW p \in Seq(Nat), \A i \in 1 .. Len(p) : p[i] = i
  PROVE  p = Stream!UpTo(Len(p))
BY DEF Stream!UpTo

LEMMA StreamInit == QueueInit => Stream!StreamInit
<1> SUFFICES ASSUME QueueInit PROVE Stream!StreamInit
  OBVIOUS
<1>1. << >> = Stream!UpTo(0)
  BY DEF Stream!UpTo
<1> QED
  BY <1>1 DEF QueueInit, Stream!StreamInit

LEMMA StreamSend ==
  ASSUME QueueTypeOK, Accounted, SendBurst
  PROVE  Stream!Send(owner)
<1> DEFINE P == published[owner]
           z == Size(Len(data), b)
<1>1. owner \in Sensor /\ Accounted' /\ QueueTypeOK'
  BY TypeStep, AccountedSend DEF QueueNext, QueueTypeOK
<1>2. P \in Seq(Nat) /\ Len(P) \in Nat /\ stored[owner] \in Nat
      /\ Len(queues[owner][current[owner]]) \in Nat
  BY <1>1, SensorTypes
<1>3. /\ Len(data) \in Nat /\ b \in Nat /\ b < Bursts(Len(data))
      /\ published' = [published EXCEPT ![owner] = P \o Packets(data, b)]
      /\ UNCHANGED <<owner, stored>>
  BY DEF SendBurst, QueueTypeOK
<1>4. /\ z \in 1 .. Burst /\ b * Burst \in Nat /\ b * Burst + z <= Len(data)
  BY <1>3, BurstSize
<1>5. P = Stream!UpTo(Len(P))
  <2>1. \A i \in 1 .. Len(P) : P[i] = i
    BY <1>1 DEF Accounted, PublishedOrder
  <2> QED
    BY <1>2, <2>1, IsUpTo
<1>6. Len(P) + z <= stored[owner]
  <2>1. ~BatchDone
    BY <1>3, BurstExists DEF BatchDone
  <2>2. Rest(owner) = Len(data) - b * Burst
    BY <1>1, <2>1, RestIsNat
  <2>3. Len(P) + Rest(owner) + Len(queues[owner][current[owner]]) = stored[owner]
    BY <1>1 DEF Accounted, NoneLost
  <2> DEFINE l == Len(P)
             q == Len(queues[owner][current[owner]])
             m == b * Burst
             n == Len(data)
             r == stored[owner]
  <2>4. l \in Nat /\ q \in Nat /\ m \in Nat /\ n \in Nat /\ r \in Nat /\ z \in Nat
    BY <1>2, <1>3, <1>4
  <2>5. l + (n - m) + q = r /\ m + z <= n
    BY <1>4, <2>2, <2>3
  <2> HIDE DEF l, q, m, n, r, z
  <2>6. l + z <= r
    BY <2>4, <2>5
  <2> QED
    BY <2>6 DEF l, r
<1>7. published'[owner] = Stream!UpTo(Len(P) + z)
  <2> DEFINE T == Packets(data, b)
  <2>1. T \in Seq(Nat) /\ Len(T) = z
    BY <1>3, BurstPackets DEF QueueTypeOK
  <2>2. published'[owner] = P \o T
    BY <1>1, <1>3 DEF QueueTypeOK
  <2>3. published'[owner] \in Seq(Nat) /\ Len(published'[owner]) = Len(P) + z
    <3> HIDE DEF P, T, z
    <3>1. P \o T \in Seq(Nat) /\ Len(P \o T) = Len(P) + Len(T)
      BY <1>2, <2>1, ConcatProperties
    <3> QED
      BY <2>1, <2>2, <3>1
  <2>4. \A i \in 1 .. Len(published'[owner]) : published'[owner][i] = i
    BY <1>1, <1>3 DEF Accounted, PublishedOrder
  <2> QED
    BY <2>3, <2>4, IsUpTo
<1>8. published' = [published EXCEPT ![owner] = Stream!UpTo(Len(P) + z)]
  BY <1>1, <1>3, <1>7 DEF QueueTypeOK
<1>9. Len(P) \in 0 .. stored[owner]
  BY <1>2, <1>4, <1>6
<1> HIDE DEF P, z
<1> QED
  BY <1>3, <1>4, <1>5, <1>6, <1>8, <1>9 DEF Stream!Send, P

LEMMA StreamStep ==
  QueueTypeOK /\ Accounted /\ [QueueNext]_queueVars
    => [Stream!StreamNext]_<<stored, published>>
<1> SUFFICES ASSUME QueueTypeOK, Accounted, [QueueNext]_queueVars
             PROVE  [Stream!StreamNext]_<<stored, published>>
  OBVIOUS
<1>1. ASSUME NEW s \in Sensor, StoreSample(s) PROVE Stream!StreamNext
  BY <1>1 DEF StoreSample, Stream!StreamNext, Stream!Store
<1>2. ASSUME NEW s \in Sensor, GetQueue(s) PROVE UNCHANGED <<stored, published>>
  BY <1>2 DEF GetQueue
<1>3. ASSUME SendBurst PROVE Stream!StreamNext
  <2>1. owner \in Sensor /\ Stream!Send(owner)
    BY <1>3, StreamSend DEF QueueTypeOK
  <2> QED
    BY <2>1 DEF Stream!StreamNext
<1>4. CASE UNCHANGED queueVars
  BY <1>4 DEF queueVars
<1> QED
  BY <1>1, <1>2, <1>3, <1>4 DEF QueueNext

\* The queues, the ring and the bursts implement a stream of samples, for every size
\* of all of them.
THEOREM QueueImplementsStream == QueueSpec => ImplementsStream
<1> QED
  BY StreamInit, StreamStep, TypeCorrect, SamplesAccounted, PTL
  DEF QueueSpec, ImplementsStream, Stream!StreamSpec

-----------------------------------------------------------------------------
(* The threads.                                                            *)

\* fpgaMutex is held by whoever is inside a device, or by the callbacks from their
\* lock to their unlock; the region is only released in between.
LockInv ==
  /\ thread \in [Sensor -> {"off", "sleep", "inside", "dim", "dimming", "store"}]
  /\ main \in {"construct", "start"} => \A s \in Sensor : thread[s] = "off"
  /\ main = "construct" => handler = "none"
  /\ \A s \in Sensor : thread[s] \in {"inside", "dimming"} <=> mutex = s
  /\ handler = "inside" <=> mutex = "handler"
  /\ region \in {"locked", "released", "done"} <=> mutex = "region"
  /\ acquired \in BOOLEAN
  /\ region # "released" => acquired

LEMMA LockInit == Init => LockInv
BY SensorAssumption DEF Init, LockInv


\* A thread that changes its state, and the mutex with it.
LEMMA ThreadStep ==
  ASSUME LockInv, NEW s \in Sensor, NEW from, NEW to, Step(s, from, to), from # "off",
         to \in {"sleep", "inside", "dim", "dimming", "store"},
         UNCHANGED <<main, handler, region, acquired>>,
         \/ mutex = "none" /\ mutex' = s /\ to \in {"inside", "dimming"}
         \/ mutex = s /\ mutex' = "none" /\ to \notin {"inside", "dimming"}
         \/ mutex' = mutex /\ from \notin {"inside", "dimming"} /\ to \notin {"inside", "dimming"}
  PROVE  LockInv'
<1>1. thread' = [thread EXCEPT ![s] = to] /\ thread[s] = from
  BY DEF Step
<1>2. thread' \in [Sensor -> {"off", "sleep", "inside", "dim", "dimming", "store"}]
  BY <1>1 DEF LockInv
<1>3. thread'[s] = to /\ \A t \in Sensor \ {s} : thread'[t] = thread[t]
  BY <1>1 DEF LockInv
<1>4. \A t \in Sensor : thread'[t] \in {"inside", "dimming"} <=> mutex' = t
  BY <1>1, <1>3, SensorAssumption DEF LockInv
<1>5. main' \notin {"construct", "start"}
  BY <1>1 DEF LockInv
<1>6. (handler' = "inside" <=> mutex' = "handler")
      /\ (region' \in {"locked", "released", "done"} <=> mutex' = "region")
  BY SensorAssumption DEF LockInv
<1> QED
  BY <1>2, <1>4, <1>5, <1>6 DEF LockInv

\* A step that leaves the threads alone.
LEMMA OtherStep ==
  ASSUME LockInv, UNCHANGED <<thread, region, acquired, mutex>>,
         main' \notin {"construct", "start"} \/ main' = main,
         handler' = handler \/ (main' # "construct" /\ handler # "inside" /\ handler' # "inside")
  PROVE  LockInv'
BY DEF LockInv

LEMMA LockStep == LockInv /\ [Next]_vars => LockInv'
<1> SUFFICES ASSUME LockInv, [Next]_vars PROVE LockInv'
  OBVIOUS
<1> USE DEF threadVars, lockVars
<1>1. ASSUME NEW s \in Sensor, Lock(s) PROVE LockInv'
  BY <1>1, ThreadStep DEF Lock
<1>2. ASSUME NEW s \in Sensor, DoStore(s) PROVE LockInv'
  BY <1>2, ThreadStep DEF DoStore
<1>3. ASSUME Inside PROVE LockInv'
  <2>1. ASSUME NEW s \in Sensor, NEW left, NEW next \in {"store", "dim"}, DoPoll(s, left, next)
        PROVE  LockInv'
    <3>1. \E to \in {"store", "dim", "sleep"} : Step(s, "inside", to)
      BY <2>1 DEF DoPoll
    <3>2. PICK to \in {"store", "dim", "sleep"} : Step(s, "inside", to)
      BY <3>1
    <3>3. mutex = s /\ mutex' = "none" /\ UNCHANGED <<main, handler, region, acquired>>
      BY <2>1 DEF DoPoll
    <3> QED
      BY <3>2, <3>3, ThreadStep
  <2>2. ASSUME Dim PROVE LockInv'
    <3>1. mutex = "apds" /\ "apds" \in Sensor
      BY <2>2, SensorAssumption DEF Dim, Step, LockInv
    <3>2. Step("apds", "dimming", "store") /\ mutex' = "none"
          /\ UNCHANGED <<main, handler, region, acquired>>
      BY <2>2 DEF Dim
    <3> QED
      BY <3>1, <3>2, ThreadStep
  <2> QED
    BY <1>3, <2>1, <2>2, SensorAssumption
    DEF Inside, HdcPoll, ApdsPoll, MpuPoll, StreamHdcPoll, StreamApdsPoll, StreamMpuPoll
<1>4. ASSUME DimLock PROVE LockInv'
  <2>1. Step("apds", "dim", "dimming") /\ mutex = "none" /\ mutex' = "apds"
        /\ UNCHANGED <<main, handler, region, acquired>>
    BY <1>4 DEF DimLock
  <2> QED
    BY <2>1, ThreadStep, SensorAssumption
<1>5. ASSUME MainLoop PROVE LockInv'
  <2>1. CASE Construct \/ StartThreads
    BY <2>1 DEF Construct, StartThreads, MainStep, LockInv
  <2>2. CASE WakeUp \/ TakePolling \/ LockEvents \/ TakeEvents \/ StreamTakePolling
    BY <2>2, OtherStep
    DEF WakeUp, TakePolling, LockEvents, TakeEvents, StreamTakePolling, MainStep
  <2>3. CASE Publish \/ PublishEvents \/ NextSensor
    BY <2>3, OtherStep DEF Publish, PublishEvents, NextSensor, MainStep
  <2> QED
    BY <1>5, <2>1, <2>2, <2>3 DEF MainLoop
<1>6. ASSUME PublishThrows PROVE LockInv'
  BY <1>6, OtherStep DEF PublishThrows, MainStep
<1>7. ASSUME Signal PROVE LockInv'
  BY <1>7, OtherStep DEF Signal
<1>8. ASSUME HandlerLock \/ HandlerEnds PROVE LockInv'
  BY <1>8, SensorAssumption DEF HandlerLock, HandlerEnds, SetEventQueue, HandlerFails, LockInv
<1>9. ASSUME Request \/ RegionLock PROVE LockInv'
  BY <1>9, SensorAssumption DEF Request, RegionLock, Region, LockInv
<1>10. ASSUME Release \/ ReconfigDone PROVE LockInv'
  BY <1>10, SensorAssumption DEF Release, ReconfigDone, Region, LockInv
<1>11. CASE UNCHANGED vars
  BY <1>11 DEF vars, LockInv
<1> QED
  BY <1>1, <1>2, <1>3, <1>4, <1>5, <1>6, <1>7, <1>8, <1>9, <1>10, <1>11 DEF Next

\* No two of the threads, the handler and the constructor of the MPU9250 are inside a
\* device at once, and while the region is released at most that constructor is, which
\* does not lock fpgaMutex.
THEOREM DevicesAreKept == Spec => []DevicesKept
<1>1. LockInv => DevicesKept
  BY SensorAssumption DEF LockInv, DevicesKept, InDevice
<1> QED
  BY LockInit, LockStep, <1>1, PTL DEF Spec

-----------------------------------------------------------------------------
(* What the threads do to the queues.                                      *)

TurnInv == turn \in 1 .. 3

LEMMA TurnStep == TurnInv /\ [Next]_vars => TurnInv'
<1> SUFFICES ASSUME TurnInv, [Next]_vars PROVE TurnInv'
  OBVIOUS
<1>1. ASSUME NextSensor PROVE TurnInv'
  BY <1>1 DEF NextSensor, TurnInv
<1>2. ASSUME MainLoop, ~NextSensor PROVE turn' = turn
  BY <1>2 DEF MainLoop, Construct, StartThreads, WakeUp, TakePolling, LockEvents, TakeEvents,
              StreamTakePolling, Publish, PublishEvents
<1>3. ASSUME NEW s \in Sensor, Lock(s) \/ DoStore(s) PROVE turn' = turn
  BY <1>3 DEF Lock, DoStore
<1>4. ASSUME Inside \/ DimLock \/ PublishThrows PROVE turn' = turn
  BY <1>4 DEF Inside, HdcPoll, ApdsPoll, MpuPoll, StreamHdcPoll, StreamApdsPoll,
              StreamMpuPoll, DoPoll, Dim, DimLock, PublishThrows
<1>5. ASSUME Signal \/ HandlerLock \/ HandlerEnds PROVE turn' = turn
  BY <1>5 DEF Signal, HandlerLock, HandlerEnds, SetEventQueue, HandlerFails
<1>6. ASSUME Request \/ RegionLock \/ Release \/ ReconfigDone PROVE turn' = turn
  BY <1>6 DEF Request, RegionLock, Release, ReconfigDone
<1>7. CASE UNCHANGED vars
  BY <1>7 DEF vars, TurnInv
<1> QED
  BY <1>1, <1>2, <1>3, <1>4, <1>5, <1>6, <1>7 DEF Next, TurnInv

LEMMA QueueStep == TurnInv /\ [Next]_vars => [QueueNext]_queueVars
<1> SUFFICES ASSUME TurnInv, [Next]_vars PROVE [QueueNext]_queueVars
  OBVIOUS
<1>1. ASSUME NEW s \in Sensor, Lock(s) \/ DoStore(s) PROVE [QueueNext]_queueVars
  BY <1>1 DEF Lock, DoStore, QueueNext
<1>2. ASSUME Inside \/ DimLock \/ PublishThrows PROVE UNCHANGED queueVars
  BY <1>2 DEF Inside, HdcPoll, ApdsPoll, MpuPoll, StreamHdcPoll, StreamApdsPoll,
              StreamMpuPoll, DoPoll, Dim, DimLock, PublishThrows
<1>3. ASSUME MainLoop PROVE [QueueNext]_queueVars
  <2>1. Served \in Sensor
    BY SensorAssumption DEF Served, Order, TurnInv
  <2>2. CASE TakePolling \/ StreamTakePolling
    BY <2>1, <2>2 DEF TakePolling, StreamTakePolling, QueueNext
  <2>3. CASE Publish
    BY <2>3 DEF Publish, QueueNext
  <2>4. CASE Construct \/ StartThreads \/ WakeUp \/ LockEvents
    BY <2>4 DEF Construct, StartThreads, WakeUp, LockEvents
  <2>5. CASE TakeEvents \/ PublishEvents \/ NextSensor
    BY <2>5 DEF TakeEvents, PublishEvents, NextSensor
  <2> QED
    BY <1>3, <2>2, <2>3, <2>4, <2>5 DEF MainLoop
<1>4. ASSUME Signal \/ HandlerLock \/ HandlerEnds PROVE UNCHANGED queueVars
  BY <1>4 DEF Signal, HandlerLock, HandlerEnds, SetEventQueue, HandlerFails
<1>5. ASSUME Request \/ RegionLock \/ Release \/ ReconfigDone PROVE UNCHANGED queueVars
  BY <1>5 DEF Request, RegionLock, Release, ReconfigDone
<1>6. CASE UNCHANGED vars
  BY <1>6 DEF vars
<1> QED
  BY <1>1, <1>2, <1>3, <1>4, <1>5, <1>6 DEF Next

\* The threads use the queues as SensorQueue says ...
THEOREM ThreadsUseQueue == Spec => QueueSpec
<1>1. Init => QueueInit /\ TurnInv
  BY DEF Init, TurnInv
<1> QED
  BY <1>1, TurnStep, QueueStep, PTL DEF Spec, QueueSpec

\* ... so no sample of any sensor is lost, doubled or moved while the process runs,
\* in either application, with any faults and reconfigurations ...
THEOREM ThreadsAccount == Spec => []Accounted
BY ThreadsUseQueue, SamplesAccounted, PTL

\* ... and what is published is a stream of the samples stored.
THEOREM ThreadsImplementStream == Spec => ImplementsStream
BY ThreadsUseQueue, QueueImplementsStream, PTL

-----------------------------------------------------------------------------
(* The events.                                                             *)

\* The event the main thread is about to send, or sent last.
Taken == eventData[1][1]
LastSent == eventsSent[Len(eventsSent)]

\* A call is only made while another event may come; the bound is MaxEvents.
BoundInv ==
  /\ events \in 0 .. MaxEvents
  /\ handler \in {"lock", "inside"} => events < MaxEvents

\* Before the main thread takes the next event it is done with the one before.
DoneInv ==
  main \in {"construct", "start", "sleep", "take", "takeEvents", "inEvents"} => EventsDone

\* The queue holds the last event until it is taken, and older ones are with the main
\* thread or sent.
PlacesInv ==
  /\ happened \in BOOLEAN
  /\ eventQueue = IF happened THEN Event(events) ELSE << >>
  /\ happened => events > 0
  /\ eventData # << >> =>
       /\ Taken \in 1 .. events /\ eventData = Event(Taken)
       /\ happened => Taken < events
  /\ eventsSent \in Seq(Packet)
  /\ \A f \in Held(eventsSent) : f \in 1 .. events /\ (happened => f < events)

\* The packets sent end with a whole event, or with the bursts sent of the event that
\* the main thread has taken.
SentInv ==
  /\ eb \in Nat /\ eb <= Bursts(Len(eventData))
  /\ eb > 0 =>
       /\ eventsSent # << >>
       /\ LastSent = <<Taken, IF EventsDone THEN EventLen ELSE eb * Burst>>
  /\ eb = 0 /\ eventsSent # << >> =>
       /\ LastSent[2] = EventLen
       /\ eventData # << >> => LastSent[1] < Taken

EventInv ==
  /\ BoundInv /\ DoneInv /\ PlacesInv /\ SentInv /\ EventsWhole /\ EventsAccounted

LEMMA EventPackets ==
  ASSUME NEW e \in 1 .. MaxEvents
  PROVE  /\ Event(e) \in Seq(Packet) /\ Len(Event(e)) = EventLen /\ Event(e) # << >>
         /\ \A i \in 1 .. EventLen : Event(e)[i] = <<e, i>>
         /\ Event(e)[1][1] = e /\ Held(Event(e)) = {e}
<1>1. EventLen \in Nat /\ EventLen > 0 /\ 1 \in 1 .. EventLen
  BY ThreadBounds DEF ThreadBounds
<1>2. \A i \in 1 .. EventLen : Event(e)[i] = <<e, i>> /\ <<e, i>> \in Packet
  BY DEF Event, Packet
<1>3. Event(e) \in [1 .. EventLen -> Packet]
  BY <1>2 DEF Event
<1>4. Event(e) \in Seq(Packet) /\ Len(Event(e)) = EventLen
  BY <1>1, <1>3
<1>5. Event(e)[1] = <<e, 1>>
  BY <1>1, <1>2
<1>6. Event(e)[1][1] = e /\ Event(e) # << >>
  BY <1>1, <1>4, <1>5
<1>7. Held(Event(e)) = {e}
  <2>1. ASSUME NEW i \in 1 .. EventLen PROVE Event(e)[i][1] = e
    <3>1. Event(e)[i] = <<e, i>>
      BY <1>2
    <3> QED BY <3>1
  <2> QED BY <1>1, <1>4, <2>1 DEF Held
<1> QED BY <1>2, <1>4, <1>6, <1>7

\* Sending nothing more is being done.
LEMMA NothingTaken == Bursts(Len(<< >>)) = 0 /\ Held(<< >>) = {} /\ << >> \in Seq(Packet)
<1>1. Bursts(0) = 0
  <2>1. Bursts(0) \in Nat /\ (0 < Bursts(0) <=> 0 * Burst < 0)
    BY BurstExists
  <2> QED BY <2>1, BurstAssumption
<1> QED BY <1>1 DEF Held

LEMMA EventInit == Init => EventInv
<1> SUFFICES ASSUME Init PROVE EventInv
  OBVIOUS
<1> USE DEF Init
<1>1. BoundInv
  BY ThreadBounds DEF BoundInv, ThreadBounds
<1>2. DoneInv /\ SentInv
  BY NothingTaken DEF DoneInv, SentInv, EventsDone
<1>3. PlacesInv
  <2>1. happened \in BOOLEAN /\ ~happened /\ eventQueue = << >> /\ eventData = << >>
    OBVIOUS
  <2>2. eventsSent \in Seq(Packet) /\ Held(eventsSent) = {}
    BY NothingTaken
  <2> QED BY <2>1, <2>2 DEF PlacesInv
<1>4. EventsWhole /\ EventsAccounted
  BY NothingTaken DEF EventsWhole, EventsAccounted
<1> QED BY <1>1, <1>2, <1>3, <1>4 DEF EventInv

\* A step that leaves the events alone.
LEMMA EventFrame ==
  ASSUME EventInv, UNCHANGED eventVars,
         handler' \in {"lock", "inside"} => handler \in {"lock", "inside"} \/ events < MaxEvents,
         \/ main' = main \/ EventsDone \/ main' \in {"publish", "dead"}
  PROVE  EventInv'
<1> USE DEF eventVars, EventInv
<1>1. BoundInv'
  BY DEF BoundInv
<1>2. DoneInv'
  BY DEF DoneInv, EventsDone
<1>3. PlacesInv' /\ SentInv'
  BY DEF PlacesInv, SentInv, Taken, LastSent, EventsDone
<1>4. EventsWhole' /\ EventsAccounted'
  BY DEF EventsWhole, EventsAccounted
<1> QED BY <1>1, <1>2, <1>3, <1>4

\* What the invariant says of the event that has been taken.
LEMMA TakenFacts ==
  ASSUME EventInv
  PROVE  /\ events \in 0 .. MaxEvents /\ happened \in BOOLEAN
         /\ Held(eventQueue) = IF happened THEN {events} ELSE {}
         /\ Held(eventData) = IF eventData # << >> THEN {Taken} ELSE {}
         /\ eventData # << >> =>
              /\ Taken \in 1 .. events /\ Taken \in 1 .. MaxEvents
              /\ eventData = Event(Taken) /\ Len(eventData) = EventLen
         /\ eventsSent # << >> => Len(eventsSent) \in Nat \ {0} /\ LastSent[1] \in Held(eventsSent)
         /\ eventData \in Seq(Packet) /\ eventQueue \in Seq(Packet)
<1> USE DEF EventInv, PlacesInv
<1>1. events \in 0 .. MaxEvents /\ MaxEvents \in Nat
  BY ThreadBounds DEF BoundInv, ThreadBounds
<1>2. Held(eventQueue) = (IF happened THEN {events} ELSE {}) /\ eventQueue \in Seq(Packet)
  <2>1. CASE happened
    <3>1. events \in 1 .. MaxEvents
      BY <1>1, <2>1
    <3> QED BY <2>1, <3>1, EventPackets
  <2>2. CASE ~happened
    BY <2>2, NothingTaken
  <2> QED BY <2>1, <2>2
<1>3. /\ Held(eventData) = IF eventData # << >> THEN {Taken} ELSE {}
      /\ eventData # << >> =>
              /\ Taken \in 1 .. events /\ Taken \in 1 .. MaxEvents
              /\ eventData = Event(Taken) /\ Len(eventData) = EventLen
      /\ eventData \in Seq(Packet)
  <2>1. CASE eventData # << >>
    <3>1. Taken \in 1 .. MaxEvents
      BY <1>1, <2>1
    <3> QED BY <2>1, <3>1, EventPackets
  <2>2. CASE eventData = << >>
    BY <2>2, NothingTaken
  <2> QED BY <2>1, <2>2
<1>4. eventsSent # << >> => Len(eventsSent) \in Nat \ {0} /\ LastSent[1] \in Held(eventsSent)
  <2> SUFFICES ASSUME eventsSent # << >>
               PROVE  Len(eventsSent) \in Nat \ {0} /\ LastSent[1] \in Held(eventsSent)
    OBVIOUS
  <2>1. Len(eventsSent) \in Nat \ {0}
    BY EmptySeq
  <2>2. Len(eventsSent) \in 1 .. Len(eventsSent)
    BY <2>1
  <2> QED BY <2>1, <2>2 DEF LastSent, Held
<1> QED BY <1>1, <1>2, <1>3, <1>4

\* A new event takes the place of one that nobody took.
LEMMA SetEventInv ==
  ASSUME EventInv, SetEventQueue
  PROVE  EventInv'
<1>1. /\ handler = "inside" /\ handler' = "none" /\ main' = main
      /\ events' = events + 1 /\ eventQueue' = Event(events + 1) /\ happened' = TRUE
      /\ dropped' = (IF happened THEN dropped \cup {events} ELSE dropped)
      /\ UNCHANGED <<eventData, eb, eventsSent>>
  BY DEF SetEventQueue
<1>2. events' \in 1 .. MaxEvents /\ events \in 0 .. MaxEvents /\ MaxEvents \in Nat
  BY <1>1, ThreadBounds DEF EventInv, BoundInv, ThreadBounds
<1>3. BoundInv' /\ DoneInv'
  BY <1>1, <1>2 DEF EventInv, BoundInv, DoneInv, EventsDone
<1>4. PlacesInv'
  BY <1>1, <1>2 DEF EventInv, PlacesInv, Taken
<1>5. SentInv' /\ EventsWhole'
  BY <1>1 DEF EventInv, SentInv, EventsWhole, Taken, LastSent, EventsDone
<1>6. EventsAccounted'
  <2> DEFINE rest == Held(eventData) \cup Held(eventsSent)
  <2>1. Held(eventQueue') = {events + 1}
    BY <1>1, <1>2, EventPackets
  <2>2. Held(eventQueue) = IF happened THEN {events} ELSE {}
    BY TakenFacts
  <2>3. \A f \in rest : f \in 1 .. events /\ (happened => f < events)
    BY TakenFacts DEF EventInv, PlacesInv
  <2>4. /\ (Held(eventQueue) \cup rest) \cup dropped = 1 .. events
        /\ (Held(eventQueue) \cup rest) \cap dropped = {}
    BY DEF EventInv, EventsAccounted
  <2> HIDE DEF rest
  <2>5. /\ ({events + 1} \cup rest) \cup dropped' = 1 .. events + 1
        /\ ({events + 1} \cup rest) \cap dropped' = {}
    BY <1>1, <1>2, <2>2, <2>3, <2>4
  <2> QED BY <1>1, <2>1, <2>5 DEF EventsAccounted, rest
<1> QED BY <1>3, <1>4, <1>5, <1>6 DEF EventInv

\* The main thread takes an event when all of the one before is sent.
LEMMA TakeEventsInv ==
  ASSUME EventInv, TakeEvents
  PROVE  EventInv'
<1>1. /\ main = "inEvents" /\ main' = "publish" /\ handler' = handler
      /\ eb' = 0 /\ UNCHANGED <<events, eventsSent, dropped>>
      /\ \/ /\ eventData' = eventQueue /\ eventQueue' = << >> /\ happened' = FALSE
         \/ eventData' = << >> /\ eventQueue' = eventQueue /\ happened' = happened
  BY TakenFacts DEF TakeEvents, MainStep
<1>2. EventsDone
  BY <1>1 DEF EventInv, DoneInv
<1>3. BoundInv' /\ DoneInv'
  BY <1>1 DEF EventInv, BoundInv, DoneInv
<1>4. eventData # << >> => eb > 0
  <2> SUFFICES ASSUME eventData # << >> PROVE eb > 0
    OBVIOUS
  <2>1. Len(eventData) = EventLen /\ EventLen > 0 /\ EventLen \in Nat
    BY TakenFacts, ThreadBounds DEF ThreadBounds
  <2>2. 0 < Bursts(EventLen)
    BY <2>1, BurstExists, BurstAssumption
  <2> QED BY <1>2, <2>1, <2>2 DEF EventsDone
<1>5. Held(eventData) \subseteq Held(eventsSent)
  <2>1. CASE eventData # << >>
    <3>1. eventsSent # << >> /\ LastSent[1] = Taken
      BY <1>4, <2>1 DEF EventInv, SentInv
    <3> QED BY <2>1, <3>1, TakenFacts
  <2>2. CASE eventData = << >>
    BY <2>2, NothingTaken
  <2> QED BY <2>1, <2>2
<1>6. eventsSent # << >> => LastSent[2] = EventLen
  <2>1. eb \in Nat
    BY DEF EventInv, SentInv
  <2> QED BY <1>2, <2>1 DEF EventInv, SentInv
<1>7. eventData' # << >> =>
        /\ Taken' \in 1 .. events /\ Taken' = events /\ eventData' = Event(Taken') /\ happened
        /\ happened' = FALSE
  <2> SUFFICES ASSUME eventData' # << >>
               PROVE  /\ Taken' \in 1 .. events /\ Taken' = events
                      /\ eventData' = Event(Taken') /\ happened /\ happened' = FALSE
    OBVIOUS
  <2>1. eventData' = eventQueue /\ happened /\ happened' = FALSE /\ eventData' = Event(events)
    BY <1>1 DEF EventInv, PlacesInv
  <2>2. events \in 1 .. MaxEvents
    BY <2>1, TakenFacts DEF EventInv, PlacesInv
  <2>3. eventData'[1][1] = events
    BY <2>1, <2>2, EventPackets
  <2> QED BY <2>1, <2>2, <2>3 DEF Taken
<1>8. PlacesInv'
  <2>1. happened' \in BOOLEAN /\ (happened' => happened)
    <3>1. happened' = FALSE \/ happened' = happened
      BY <1>1
    <3>2. happened \in BOOLEAN
      BY TakenFacts
    <3>3. CASE happened' = FALSE
      BY <3>3
    <3>4. CASE happened' = happened
      BY <3>2, <3>4
    <3> QED BY <3>1, <3>3, <3>4
  <2>2. eventQueue' = (IF happened' THEN Event(events') ELSE << >>) /\ (happened' => events' > 0)
    BY <1>1 DEF EventInv, PlacesInv
  <2> QED BY <1>1, <1>7, <2>1, <2>2 DEF EventInv, PlacesInv
<1>9. SentInv'
  <2>1. eb' \in Nat /\ eb' <= Bursts(Len(eventData'))
    <3>1. eventData' \in Seq(Packet)
      <4>1. eventData' = eventQueue \/ eventData' = << >>
        BY <1>1
      <4>2. eventQueue \in Seq(Packet)
        BY TakenFacts
      <4>3. CASE eventData' = eventQueue BY <4>2, <4>3
      <4>4. CASE eventData' = << >> BY <4>4, NothingTaken
      <4> QED BY <4>1, <4>3, <4>4
    <3>2. Bursts(Len(eventData')) \in Nat
      BY <3>1, BurstExists
    <3> QED BY <1>1, <3>2
  <2>2. ASSUME eventsSent # << >>, eventData' # << >> PROVE LastSent[1] < Taken'
    <3>1. LastSent[1] \in Held(eventsSent) /\ happened /\ Taken' = events
      BY <1>7, <2>2, TakenFacts
    <3> QED BY <3>1 DEF EventInv, PlacesInv
  <2>3. LastSent' = LastSent
    BY <1>1 DEF LastSent
  <2> QED BY <1>1, <1>6, <2>1, <2>2, <2>3 DEF SentInv
<1>10. EventsWhole'
  BY <1>1 DEF EventInv, EventsWhole
<1>11. EventsAccounted'
  <2>1. Held(eventQueue') \cup Held(eventData') \cup Held(eventsSent)
          = Held(eventQueue) \cup Held(eventData) \cup Held(eventsSent)
    BY <1>1, <1>5, NothingTaken
  <2> QED BY <1>1, <2>1 DEF EventInv, EventsAccounted
<1> QED BY <1>3, <1>8, <1>9, <1>10, <1>11 DEF EventInv

\* A burst of an event continues it, from its first packet or from the burst before.
LEMMA PublishEventsInv ==
  ASSUME EventInv, PublishEvents
  PROVE  EventInv'
<1> DEFINE n == Len(eventsSent)
           m == eb * Burst
           z == Size(EventLen, eb)
           packets == Packets(eventData, eb)
<1>1. /\ UNCHANGED <<main, handler, events, eventQueue, happened, eventData, dropped>>
      /\ eb # Bursts(Len(eventData))
      /\ eventsSent' = eventsSent \o packets /\ eb' = eb + 1
  BY DEF PublishEvents, MainStep, EventsDone
<1>2. eb \in Nat /\ eb < Bursts(Len(eventData)) /\ Bursts(Len(eventData)) \in Nat
  <2>1. Len(eventData) \in Nat
    BY TakenFacts
  <2>2. Bursts(Len(eventData)) \in Nat
    BY <2>1, BurstExists
  <2> QED BY <1>1, <2>2 DEF EventInv, SentInv
<1>3. eventData # << >>
  BY <1>2, NothingTaken
<1>4. /\ Taken \in 1 .. MaxEvents /\ Taken \in 1 .. events /\ events \in Nat
      /\ eventData = Event(Taken) /\ Len(eventData) = EventLen
      /\ EventLen \in Nat \ {0}
  BY <1>3, TakenFacts, ThreadBounds DEF ThreadBounds
<1>5. /\ m \in Nat /\ (eb + 1) * Burst = m + Burst /\ z \in 1 .. Burst /\ m + z <= EventLen
      /\ eb + 1 < Bursts(EventLen) => z = Burst
      /\ eb + 1 = Bursts(EventLen) => m + z = EventLen
      /\ eb + 1 <= Bursts(EventLen) /\ Burst \in Nat
  BY <1>2, <1>4, BurstSize, BurstAssumption
<1>6. /\ packets \in Seq(Packet) /\ Len(packets) = z
      /\ \A i \in 1 .. z : packets[i] = <<Taken, m + i>>
  <2>1. /\ packets \in Seq(Packet) /\ Len(packets) = z
        /\ \A i \in 1 .. z : packets[i] = eventData[m + i]
    <3>1. eventData \in Seq(Packet)
      BY TakenFacts
    <3> QED BY <1>2, <1>4, <3>1, BurstPackets
  <2>2. \A i \in 1 .. EventLen : eventData[i] = <<Taken, i>>
    BY <1>4, EventPackets
  <2>3. \A i \in 1 .. z : m + i \in 1 .. EventLen
    BY <1>4, <1>5
  <2> QED BY <2>1, <2>2, <2>3
<1>7. eventsSent \in Seq(Packet) /\ n \in Nat /\ (eventsSent # << >> <=> n > 0)
  <2>1. eventsSent \in Seq(Packet)
    BY DEF EventInv, PlacesInv
  <2> QED BY <2>1, EmptySeq
<1> HIDE DEF m, z, packets
<1>8. /\ eventsSent' \in Seq(Packet) /\ Len(eventsSent') = n + z
      /\ \A i \in 1 .. n : eventsSent'[i] = eventsSent[i]
      /\ \A i \in 1 .. z : eventsSent'[n + i] = <<Taken, m + i>>
  <2>1. eventsSent' = eventsSent \o packets /\ Len(packets) = z /\ z \in Nat
    BY <1>1, <1>5, <1>6
  <2>2. /\ eventsSent \o packets \in Seq(Packet) /\ Len(eventsSent \o packets) = n + z
        /\ \A i \in 1 .. n + z : (eventsSent \o packets)[i]
                                  = IF i <= n THEN eventsSent[i] ELSE packets[i - n]
    <3>1. /\ eventsSent \o packets \in Seq(Packet)
          /\ Len(eventsSent \o packets) = Len(eventsSent) + Len(packets)
          /\ \A i \in 1 .. Len(eventsSent) + Len(packets) : (eventsSent \o packets)[i]
               = IF i <= Len(eventsSent) THEN eventsSent[i] ELSE packets[i - Len(eventsSent)]
      BY <1>6, <1>7, ConcatProperties
    <3> QED BY <2>1, <3>1
  <2>3. \A i \in 1 .. n : i \in 1 .. n + z /\ i <= n
    BY <1>7, <2>1
  <2>4. \A i \in 1 .. z : n + i \in 1 .. n + z /\ ~(n + i <= n) /\ (n + i) - n = i
    BY <1>7, <2>1
  <2>5. \A i \in 1 .. z : eventsSent'[n + i] = <<Taken, m + i>>
    <3> TAKE i \in 1 .. z
    <3>1. eventsSent'[n + i] = packets[(n + i) - n]
      BY <2>1, <2>2, <2>4
    <3> QED BY <1>6, <2>4, <3>1
  <2> QED BY <2>1, <2>2, <2>3, <2>5
<1>9. n > 0 => /\ eb > 0 => eventsSent[n] = <<Taken, m>>
               /\ eb = 0 => eventsSent[n][2] = EventLen /\ eventsSent[n][1] < Taken
  <2>1. ~EventsDone
    BY <1>1 DEF EventsDone
  <2> QED BY <1>2, <1>3, <1>7, <2>1 DEF EventInv, SentInv, LastSent, m
<1>10. eb > 0 => n > 0
  BY <1>7 DEF EventInv, SentInv
<1>11. eb = 0 <=> m = 0
  BY <1>2, BurstAssumption DEF m
<1>12. Held(eventsSent') = Held(eventsSent) \cup {Taken}
  <2>1. \A i \in 1 .. n + z : i \in 1 .. n \/ (i - n \in 1 .. z /\ n + (i - n) = i)
    BY <1>5, <1>7
  <2>2. \A i \in 1 .. n : eventsSent'[i][1] = eventsSent[i][1]
    BY <1>8
  <2>3. \A i \in 1 .. z : eventsSent'[n + i][1] = Taken
    <3> TAKE i \in 1 .. z
    <3>1. eventsSent'[n + i] = <<Taken, m + i>>
      BY <1>8
    <3> QED BY <3>1
  <2>4. 1 \in 1 .. z
    BY <1>5
  <2>5. ASSUME NEW f \in Held(eventsSent') PROVE f \in Held(eventsSent) \cup {Taken}
    <3>1. PICK i \in 1 .. n + z : f = eventsSent'[i][1]
      BY <1>8 DEF Held
    <3>2. CASE i \in 1 .. n
      BY <2>2, <3>1, <3>2 DEF Held
    <3>3. CASE i - n \in 1 .. z /\ n + (i - n) = i
      BY <2>3, <3>1, <3>3
    <3> QED BY <2>1, <3>2, <3>3
  <2>6. Held(eventsSent) \subseteq Held(eventsSent')
    <3>1. \A i \in 1 .. n : i \in 1 .. Len(eventsSent')
      BY <1>5, <1>7, <1>8
    <3> QED BY <2>2, <3>1 DEF Held
  <2>7. Taken \in Held(eventsSent')
    <3>1. n + 1 \in 1 .. Len(eventsSent')
      BY <1>5, <1>7, <1>8
    <3>2. eventsSent'[n + 1][1] = Taken
      BY <2>3, <2>4
    <3> QED BY <3>1, <3>2 DEF Held
  <2> QED BY <2>5, <2>6, <2>7
<1>13. BoundInv' /\ DoneInv'
  <2>1. main = "publish"
    BY DEF PublishEvents, MainStep
  <2> QED BY <1>1, <2>1 DEF EventInv, BoundInv, DoneInv
<1>14. PlacesInv'
  <2>1. happened => Taken < events
    BY <1>3 DEF EventInv, PlacesInv
  <2>2. Taken' = Taken
    BY <1>1 DEF Taken
  <2>3. \A f \in Held(eventsSent') : f \in 1 .. events /\ (happened => f < events)
    BY <1>4, <1>12, <2>1 DEF EventInv, PlacesInv
  <2> QED BY <1>1, <1>8, <2>2, <2>3 DEF EventInv, PlacesInv
<1>15. SentInv'
  <2>1. eb' \in Nat /\ eb' > 0 /\ eb' <= Bursts(Len(eventData'))
    BY <1>1, <1>2, <1>4, <1>5
  <2>2. eventsSent'[n + z] = <<Taken, m + z>>
    BY <1>5, <1>8
  <2>3. LastSent' = <<Taken, m + z>> /\ eventsSent' # << >>
    <3>1. LastSent' = <<Taken, m + z>>
      BY <1>8, <2>2 DEF LastSent
    <3>2. n + z > 0
      BY <1>5, <1>7
    <3> QED BY <1>8, <3>1, <3>2
  <2>4. Taken' = Taken
    BY <1>1 DEF Taken
  <2>5. m + z = IF EventsDone' THEN EventLen ELSE eb' * Burst
    <3>1. EventsDone' <=> eb + 1 = Bursts(EventLen)
      BY <1>1, <1>4 DEF EventsDone
    <3>2. eb' * Burst = m + Burst
      BY <1>1, <1>5
    <3> QED BY <1>2, <1>4, <1>5, <3>1, <3>2
  <2> QED BY <2>1, <2>3, <2>4, <2>5 DEF SentInv
<1>16. EventsWhole'
  <2>1. eventsSent'[1][2] = 1
    <3>1. CASE n > 0
      BY <1>7, <1>8, <3>1 DEF EventInv, EventsWhole
    <3>2. CASE n = 0
      <4>1. m = 0 /\ 1 \in 1 .. z
        BY <1>2, <1>5, <1>10, <1>11, <3>2
      <4>2. eventsSent'[0 + 1] = <<Taken, 0 + 1>>
        BY <1>8, <3>2, <4>1
      <4> QED BY <4>2
    <3> QED BY <1>7, <3>1, <3>2
  <2>2. ASSUME NEW i \in 1 .. Len(eventsSent') - 1
        PROVE  LET p == eventsSent'[i]
                   q == eventsSent'[i + 1]
               IN IF p[2] < EventLen THEN q = <<p[1], p[2] + 1>> ELSE q[1] > p[1] /\ q[2] = 1
    <3>0. i \in 1 .. n + z - 1
      <4>1. Len(eventsSent') = n + z /\ n \in Nat /\ z \in Nat
        BY <1>5, <1>7, <1>8
      <4> QED BY <4>1
    <3>1. CASE i < n
      <4>1. i \in 1 .. n - 1 /\ i \in 1 .. n /\ i + 1 \in 1 .. n
        BY <1>7, <3>0, <3>1
      <4>2. eventsSent'[i] = eventsSent[i] /\ eventsSent'[i + 1] = eventsSent[i + 1]
        BY <1>8, <4>1
      <4> QED BY <4>1, <4>2 DEF EventInv, EventsWhole
    <3>2. CASE i = n
      <4>1. n \in 1 .. n /\ 1 \in 1 .. z /\ n > 0
        BY <1>5, <3>0, <3>2
      <4>2. eventsSent'[i] = eventsSent[n] /\ eventsSent'[i + 1] = <<Taken, m + 1>>
        BY <1>8, <3>2, <4>1
      <4>3. CASE eb > 0
        <5>1. eventsSent[n] = <<Taken, m>> /\ m < EventLen
          BY <1>4, <1>5, <1>9, <4>1, <4>3
        <5> QED BY <4>2, <5>1
      <4>4. CASE eb = 0
        <5>1. eventsSent[n][2] = EventLen /\ eventsSent[n][1] < Taken /\ m = 0
          BY <1>9, <1>11, <4>1, <4>4
        <5>2. eventsSent'[i + 1] = <<Taken, 1>>
          BY <4>2, <5>1
        <5>3. eventsSent[n] \in Packet
          BY <1>7, <4>1
        <5> QED BY <1>4, <4>2, <5>1, <5>2, <5>3 DEF Packet
      <4> QED BY <1>2, <4>3, <4>4
    <3>3. CASE i > n
      <4> DEFINE j == i - n
      <4>1. j \in 1 .. z /\ j + 1 \in 1 .. z /\ n + j = i /\ n + (j + 1) = i + 1
        BY <1>5, <1>7, <3>0, <3>3
      <4> HIDE DEF j
      <4>2. eventsSent'[n + j] = <<Taken, m + j>> /\ eventsSent'[n + (j + 1)] = <<Taken, m + (j + 1)>>
        BY <1>8, <4>1
      <4>3. eventsSent'[i] = <<Taken, m + j>> /\ eventsSent'[i + 1] = <<Taken, m + (j + 1)>>
        BY <4>1, <4>2
      <4>4. m + j < EventLen /\ m + (j + 1) = (m + j) + 1
        BY <1>4, <1>5, <4>1
      <4> QED BY <4>3, <4>4
    <3> QED BY <1>7, <3>0, <3>1, <3>2, <3>3
  <2> QED BY <2>1, <2>2 DEF EventsWhole
<1>17. EventsAccounted'
  <2>1. Held(eventData) = {Taken}
    BY <1>3, TakenFacts
  <2>2. Held(eventQueue') \cup Held(eventData') \cup Held(eventsSent')
          = Held(eventQueue) \cup Held(eventData) \cup Held(eventsSent)
    BY <1>1, <1>12, <2>1
  <2> QED BY <1>1, <2>2 DEF EventInv, EventsAccounted
<1> QED BY <1>13, <1>14, <1>15, <1>16, <1>17 DEF EventInv

LEMMA EventStep == EventInv /\ [Next]_vars => EventInv'
<1> SUFFICES ASSUME EventInv, [Next]_vars PROVE EventInv'
  OBVIOUS
<1>1. ASSUME NEW s \in Sensor, Lock(s) \/ DoStore(s) PROVE EventInv'
  BY <1>1, EventFrame DEF Lock, DoStore
<1>2. ASSUME Inside \/ DimLock PROVE EventInv'
  BY <1>2, EventFrame DEF Inside, HdcPoll, ApdsPoll, MpuPoll, StreamHdcPoll, StreamApdsPoll,
                          StreamMpuPoll, DoPoll, Dim, DimLock
<1>3. ASSUME Construct \/ StartThreads \/ WakeUp \/ TakePolling \/ LockEvents \/ StreamTakePolling
      PROVE  EventInv'
  <2>1. EventsDone
    BY <1>3 DEF Construct, StartThreads, WakeUp, TakePolling, LockEvents, StreamTakePolling,
                MainStep, EventInv, DoneInv
  <2> QED
    BY <1>3, <2>1, EventFrame
    DEF Construct, StartThreads, WakeUp, TakePolling, LockEvents, StreamTakePolling
<1>4. ASSUME Publish \/ NextSensor \/ PublishThrows PROVE EventInv'
  BY <1>4, EventFrame DEF Publish, NextSensor, PublishThrows, MainStep
<1>5. ASSUME Signal \/ HandlerLock \/ HandlerFails PROVE EventInv'
  BY <1>5, EventFrame DEF Signal, HandlerLock, HandlerFails
<1>6. ASSUME Request \/ RegionLock \/ Release \/ ReconfigDone PROVE EventInv'
  BY <1>6, EventFrame DEF Request, RegionLock, Release, ReconfigDone
<1>7. CASE UNCHANGED vars
  BY <1>7, EventFrame DEF vars
<1> QED
  BY <1>1, <1>2, <1>3, <1>4, <1>5, <1>6, <1>7, SetEventInv, TakeEventsInv, PublishEventsInv
  DEF Next, MainLoop, HandlerEnds

LEMMA EventInvariant == Spec => []EventInv
BY EventInit, EventStep, PTL DEF Spec

\* Packets of events are sent in their order, no event starts before the one before
\* is complete, and no event is sent twice.
THEOREM EventsAreWhole == Spec => []EventsWhole
<1>1. EventInv => EventsWhole
  BY DEF EventInv
<1> QED BY EventInvariant, <1>1, PTL

\* An event is sent or on its way to the broker, or its loss has been reported, and
\* never both.
THEOREM EventsAreAccounted == Spec => []EventsAccounted
<1>1. EventInv => EventsAccounted
  BY DEF EventInv
<1> QED BY EventInvariant, <1>1, PTL

-----------------------------------------------------------------------------
(* Types.                                                                  *)

\* The counters of the failures and the states of the main thread, the handler and the
\* callbacks.
StateInv ==
  /\ main \in {"construct", "start", "sleep", "take", "takeEvents", "inEvents",
              "publish", "dead"}
  /\ handler \in {"none", "lock", "inside", "failed"}
  /\ region \in {"idle", "requested", "locked", "released", "done"}
  /\ mutex \in Sensor \cup {"none", "handler", "region"}
  /\ leaked \in 0 .. MaxFiles /\ faults \in 0 .. MaxFaults

LEMMA StateStep == StateInv /\ [Next]_vars => StateInv'
<1> SUFFICES ASSUME StateInv, [Next]_vars PROVE StateInv'
  OBVIOUS
<1> USE SensorAssumption DEF StateInv
<1>1. ASSUME NEW s \in Sensor, Lock(s) \/ DoStore(s) PROVE StateInv'
  BY <1>1 DEF Lock, DoStore, threadVars, lockVars
<1>2. ASSUME NEW s \in Sensor, NEW left \in {0, 1}, NEW next, DoPoll(s, left, next)
      PROVE  StateInv'
  <2>1. leaked' \in 0 .. MaxFiles /\ faults' \in 0 .. MaxFaults
    BY <1>2, ThreadBounds DEF DoPoll, Leaked, ThreadBounds
  <2> QED BY <1>2, <2>1 DEF DoPoll
<1>3. ASSUME Inside \/ DimLock PROVE StateInv'
  <2>1. CASE Dim \/ DimLock
    BY <2>1 DEF Dim, DimLock
  <2>2. CASE \/ HdcPoll \/ ApdsPoll \/ MpuPoll
             \/ StreamHdcPoll \/ StreamApdsPoll \/ StreamMpuPoll
    BY <1>2, <2>2 DEF HdcPoll, ApdsPoll, MpuPoll, StreamHdcPoll, StreamApdsPoll, StreamMpuPoll
  <2> QED BY <1>3, <2>1, <2>2 DEF Inside
<1>4. ASSUME MainLoop \/ PublishThrows PROVE StateInv'
  <2>1. CASE Construct \/ StartThreads \/ WakeUp \/ TakePolling \/ LockEvents
    BY <2>1 DEF Construct, StartThreads, WakeUp, TakePolling, LockEvents, MainStep,
                threadVars, lockVars
  <2>2. CASE TakeEvents \/ StreamTakePolling
    BY <2>2 DEF TakeEvents, StreamTakePolling, MainStep, threadVars, lockVars
  <2>3. CASE Publish \/ PublishEvents \/ NextSensor \/ PublishThrows
    BY <2>3 DEF Publish, PublishEvents, NextSensor, PublishThrows, MainStep,
                threadVars, lockVars
  <2> QED BY <1>4, <2>1, <2>2, <2>3 DEF MainLoop
<1>5. ASSUME Signal \/ HandlerLock \/ HandlerEnds PROVE StateInv'
  BY <1>5, ThreadBounds DEF Signal, HandlerLock, HandlerEnds, SetEventQueue, HandlerFails,
              threadVars, lockVars, ThreadBounds
<1>6. ASSUME Request \/ RegionLock \/ Release \/ ReconfigDone PROVE StateInv'
  BY <1>6 DEF Request, RegionLock, Release, ReconfigDone, Region, threadVars, lockVars
<1>7. CASE UNCHANGED vars
  BY <1>7 DEF vars, threadVars, lockVars
<1> QED
  BY <1>1, <1>3, <1>4, <1>5, <1>6, <1>7 DEF Next

LEMMA StateInit == Init => StateInv /\ TurnInv
<1>1. 0 \in 0 .. MaxFiles /\ 0 \in 0 .. MaxFaults
  BY ThreadBounds DEF ThreadBounds
<1> QED BY <1>1 DEF Init, StateInv, TurnInv

LEMMA TypesHold == StateInv /\ TurnInv /\ LockInv /\ EventInv => TypeOK
<1> SUFFICES ASSUME StateInv, TurnInv, LockInv, EventInv PROVE TypeOK
  OBVIOUS
<1>1. dropped \subseteq 1 .. events /\ events \in 0 .. MaxEvents /\ MaxEvents \in Nat
  BY ThreadBounds DEF EventInv, EventsAccounted, BoundInv, ThreadBounds
<1>2. dropped \subseteq 1 .. MaxEvents
  BY <1>1
<1>3. {eventQueue, eventData, eventsSent} \subseteq Seq(Packet)
  BY TakenFacts DEF EventInv, PlacesInv
<1>4. eb \in Nat /\ {acquired, happened} \subseteq BOOLEAN
  BY DEF EventInv, SentInv, PlacesInv, LockInv
<1> QED BY <1>1, <1>2, <1>3, <1>4 DEF TypeOK, StateInv, TurnInv, LockInv

\* Every variable keeps its type: no more files stay open than a process may open,
\* and every packet that is sent is a packet of an event.
THEOREM ThreadTypesCorrect == Spec => []TypeOK
<1>1. Spec => [](StateInv /\ TurnInv /\ LockInv /\ EventInv)
  BY StateInit, StateStep, TurnStep, LockInit, LockStep, EventInvariant, PTL DEF Spec
<1>2. StateInv /\ TurnInv /\ LockInv /\ EventInv => TypeOK
  BY TypesHold
<1> QED BY <1>1, <1>2, PTL

=============================================================================
