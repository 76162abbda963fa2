----------------------------- MODULE SensorQueue -----------------------------
(***************************************************************************)
(* The queue between the polling thread of a sensor and the publisher, and *)
(* the bursts the publisher cuts a batch into.                             *)
(*                                                                         *)
(* user/event_sensors keeps one queue per sensor, user/streaming_sensors a *)
(* ring of two and moves on with every getQueue: queueCount of them here,  *)
(* chosen at the start.  Both operations hold queueMutex from their first  *)
(* to their last step and are atomic.  A sample is its number.             *)
(***************************************************************************)
EXTENDS Integers, Sequences

CONSTANTS
  Sensor,       \* the sensors: a queue and a topic each
  QueueCounts,  \* possible numbers of queues: {1, 2}
  Burst         \* MAX_PACKETS_PER_BURST: 100 in the code

ASSUME QueueCountsAssumption == QueueCounts \subseteq Nat \ {0}
ASSUME BurstAssumption == Burst \in Nat \ {0}

VARIABLES
  queueCount,   \* QUEUE_COUNT, or 1
  stored,       \* per sensor: samples stored so far
  queues,       \* per sensor: the ring of queues
  current,      \* per sensor: currentQueueIndex
  owner,        \* the sensor whose batch is being published
  data,         \* its batch: pollingData, or sensorValues
  b,            \* bursts of the batch sent so far
  published     \* per sensor: the samples sent to its topic

queueVars == <<queueCount, stored, queues, current, owner, data, b, published>>

\* how many burst packets need to be sent?
BurstsFloor(n) == n \div Burst          \* mutant of Bursts: rounds down
Bursts(n) == (n + Burst - 1) \div Burst

\* the size of the current burst packet
Size(n, k) == IF n - k * Burst < Burst THEN n - k * Burst ELSE Burst

Packets(items, k) == SubSeq(items, k * Burst + 1, k * Burst + Size(Len(items), k))

BatchDone == b = Bursts(Len(data))

QueueInit ==
  /\ queueCount \in QueueCounts
  /\ stored = [s \in Sensor |-> 0]
  /\ queues = [s \in Sensor |-> [q \in 0 .. queueCount - 1 |-> << >>]]
  /\ current = [s \in Sensor |-> 0]
  /\ owner \in Sensor /\ data = << >> /\ b = 0
  /\ published = [s \in Sensor |-> << >>]

\* doStore, by the polling thread.
StoreSample(s) ==
  /\ stored' = [stored EXCEPT ![s] = @ + 1]
  /\ queues' = [queues EXCEPT ![s][current[s]] = Append(@, stored[s] + 1)]
  /\ UNCHANGED <<queueCount, current, owner, data, b, published>>

GetQueueKeeps(s) ==                     \* mutant of GetQueue: copies the queue
  /\ BatchDone
  /\ owner' = s /\ data' = queues[s][current[s]] /\ b' = 0
  /\ current' = [current EXCEPT ![s] = (@ + 1) % queueCount]
  /\ UNCHANGED <<queueCount, stored, queues, published>>

\* getQueue, by the publisher, when it is done with the batch before.
GetQueue(s) ==
  /\ BatchDone
  /\ owner' = s /\ data' = queues[s][current[s]] /\ b' = 0
  /\ queues' = [queues EXCEPT ![s][current[s]] = << >>]
  /\ current' = [current EXCEPT ![s] = (@ + 1) % queueCount]
  /\ UNCHANGED <<queueCount, stored, published>>

\* One round of the loop over the bursts.
SendBurst ==
  /\ b < Bursts(Len(data))
  /\ published' = [published EXCEPT ![owner] = @ \o Packets(data, b)]
  /\ b' = b + 1
  /\ UNCHANGED <<queueCount, stored, queues, current, owner, data>>

QueueNext == SendBurst \/ \E s \in Sensor : StoreSample(s) \/ GetQueue(s)

QueueSpec == QueueInit /\ [][QueueNext]_queueVars

-----------------------------------------------------------------------------
Rest(s) == IF s = owner /\ ~BatchDone THEN Len(data) - b * Burst ELSE 0

PublishedOrder(s) == \A i \in 1 .. Len(published[s]) : published[s][i] = i
RestOrder(s) == \A i \in 1 .. Rest(s) : data[b * Burst + i] = Len(published[s]) + i
QueueOrder(s) ==
  \A i \in 1 .. Len(queues[s][current[s]]) :
    queues[s][current[s]][i] = Len(published[s]) + Rest(s) + i
NoneLost(s) == Len(published[s]) + Rest(s) + Len(queues[s][current[s]]) = stored[s]
OthersEmpty(s) == \A q \in (0 .. queueCount - 1) \ {current[s]} : queues[s][q] = << >>

\* Every sample stored is in exactly one place, in its order: published, in the
\* rest of the batch, or in the current queue.  The other queues are empty.
Accounted ==
  \A s \in Sensor :
    PublishedOrder(s) /\ RestOrder(s) /\ QueueOrder(s) /\ NoneLost(s) /\ OthersEmpty(s)

Stream == INSTANCE SampleStream WITH received <- published

\* The queue, its ring and the bursts together are a stream: no order of storing,
\* taking and publishing loses a sample, sends one twice or swaps two.
ImplementsStream == Stream!StreamSpec

=============================================================================
