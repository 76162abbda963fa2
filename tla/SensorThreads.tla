---------------------------- MODULE SensorThreads ----------------------------
(***************************************************************************)
(* The threads of user/event_sensors and user/streaming_sensors: a polling *)
(* thread per sensor, the main thread, which publishes what they stored    *)
(* and which the signal handler of the MPU9250 interrupts, and the         *)
(* callbacks with which libfpgaregion announces a reconfiguration.  All    *)
(* share fpgaMutex.                                                        *)
(*                                                                         *)
(* Abstraction.  The callbacks run on a thread of the library.  What the   *)
(* handler does inside the device is ShockPath's subject; here it brings   *)
(* one event of EventLen packets.  Time is left out: a sleeping thread may *)
(* go on at any moment.                                                    *)
(***************************************************************************)
EXTENDS SensorQueue

CONSTANTS
  EventLen,   \* packets of an event: EVENT_PACKETS, 1024 in the code
  MaxFiles,   \* files a process may leave open: its limit of descriptors
  MaxStored,  \* bound, per sensor: samples stored
  MaxEvents,  \* bound: events
  MaxFaults   \* bound: calls of fopen and fread that fail

ASSUME SensorAssumption == Sensor = {"hdc", "mpu", "apds"} /\ QueueCounts = {1, 2}
ASSUME ThreadBounds ==
  /\ {EventLen, MaxFiles} \subseteq Nat \ {0} /\ {MaxEvents, MaxFaults} \subseteq Nat
  /\ MaxStored \in [Sensor -> Nat]

VARIABLES
  main,       \* construct, start, sleep, take, takeEvents, inEvents, publish or dead
  turn,       \* the sensor the main thread serves, an index of Order
  thread,     \* per sensor: off, sleep, inside, dim, dimming or store
  handler,    \* eventDataReady: none, lock, inside or failed
  region,     \* the callbacks: idle, requested, locked, released or done
  acquired,   \* the application holds the FPGA region
  mutex,      \* holder of fpgaMutex
  leaked,     \* files left open for ever
  faults,     \* failed calls so far
  events,     \* events handed to setEventQueue so far
  eventQueue, \* packets: an event and a position in it
  happened,   \* eventHappened
  eventData,  \* what the main thread took from eventQueue
  eb,         \* bursts of eventData sent so far
  eventsSent, \* packets of events sent
  dropped     \* events reported as dropped

eventVars  == <<events, eventQueue, happened, eventData, eb, eventsSent, dropped>>
threadVars == <<thread, leaked, faults>>
lockVars   == <<region, acquired, mutex>>
vars == <<queueVars, main, turn, handler, eventVars, threadVars, lockVars>>

Order == <<"hdc", "mpu", "apds">>
Served == Order[turn]
EventApp  == queueCount = 1      \* event_sensors
StreamApp == queueCount = 2      \* streaming_sensors

Event(e) == [i \in 1 .. EventLen |-> <<e, i>>]
Packet == (1 .. MaxEvents) \X (1 .. EventLen)

TypeOK ==
  /\ main \in {"construct", "start", "sleep", "take", "takeEvents", "inEvents",
              "publish", "dead"}
  /\ turn \in 1 .. 3
  /\ thread \in [Sensor -> {"off", "sleep", "inside", "dim", "dimming", "store"}]
  /\ handler \in {"none", "lock", "inside", "failed"}
  /\ region \in {"idle", "requested", "locked", "released", "done"}
  /\ {acquired, happened} \subseteq BOOLEAN
  /\ mutex \in Sensor \cup {"none", "handler", "region"}
  /\ leaked \in 0 .. MaxFiles /\ faults \in 0 .. MaxFaults
  /\ events \in 0 .. MaxEvents /\ dropped \subseteq 1 .. MaxEvents
  /\ {eventQueue, eventData, eventsSent} \subseteq Seq(Packet)
  /\ eb \in Nat

\* initFPGA has acquired the region, the client is connected.
Init ==
  /\ QueueInit /\ owner = "hdc"
  /\ main = "construct" /\ turn = 1
  /\ thread = [s \in Sensor |-> "off"] /\ handler = "none"
  /\ region = "idle" /\ acquired = TRUE /\ mutex = "none"
  /\ leaked = 0 /\ faults = 0 /\ events = 0 /\ dropped = {}
  /\ eventQueue = << >> /\ happened = FALSE
  /\ eventData = << >> /\ eb = 0 /\ eventsSent = << >>

Alive == main # "dead"

-----------------------------------------------------------------------------
(* startPolling: doPoll, doProcess, doStore, sleep.                        *)

Step(s, from, to) == Alive /\ thread[s] = from /\ thread' = [thread EXCEPT ![s] = to]

Lock(s) ==
  /\ stored[s] < MaxStored[s]
  /\ Step(s, "sleep", "inside")
  /\ mutex = "none" /\ mutex' = s
  /\ UNCHANGED <<queueVars, main, turn, handler, eventVars, region, acquired, leaked, faults>>

LeakedTwice(left) == leaked' = leaked + 2 * left  \* mutant of Leaked
Leaked(left) == leaked' = leaked + left

\* doPoll under fpgaMutex: fopen fails, or fread fails and "left" files stay open,
\* or the thread goes on with the value.  No file can be opened at the limit.
DoPoll(s, left, next) ==
  /\ mutex = s /\ mutex' = "none"
  /\ \/ /\ Step(s, "inside", next)
        /\ leaked < MaxFiles /\ UNCHANGED <<leaked, faults>>
     \/ /\ Step(s, "inside", "sleep")
        /\ leaked = MaxFiles /\ UNCHANGED <<leaked, faults>>
     \/ /\ Step(s, "inside", "sleep")
        /\ faults < MaxFaults /\ faults' = faults + 1 /\ UNCHANGED leaked
     \/ /\ Step(s, "inside", "sleep")
        /\ faults < MaxFaults /\ faults' = faults + 1
        /\ leaked < MaxFiles /\ Leaked(left)
  /\ UNCHANGED <<queueVars, main, turn, handler, eventVars, region, acquired>>

HdcPoll  == EventApp /\ DoPoll("hdc", 1, "store")
ApdsPoll == EventApp /\ DoPoll("apds", 1, "dim")
MpuPoll  == EventApp /\ DoPoll("mpu", 0, "store")

StreamHdcPoll  == StreamApp /\ DoPoll("hdc", 1, "store")
StreamApdsPoll == StreamApp /\ DoPoll("apds", 1, "dim")
StreamMpuPoll  == StreamApp /\ DoPoll("mpu", 1, "store")

\* doProcess of the APDS9301 dims the display.  fpgaMutex was free in between.
DimLockless ==                   \* mutant of DimLock: without lockFPGA
  /\ Step("apds", "dim", "dimming")
  /\ UNCHANGED <<queueVars, main, turn, handler, eventVars, lockVars, leaked, faults>>

DimLock ==
  /\ Step("apds", "dim", "dimming")
  /\ mutex = "none" /\ mutex' = "apds"
  /\ UNCHANGED <<queueVars, main, turn, handler, eventVars, region, acquired, leaked, faults>>

\* Whatever fails in it, doProcess closes the file and the sample is stored.
Dim ==
  /\ Step("apds", "dimming", "store")
  /\ mutex' = "none"
  /\ UNCHANGED <<queueVars, main, turn, handler, eventVars, region, acquired, leaked, faults>>

DoStore(s) ==
  /\ Step(s, "store", "sleep")
  /\ StoreSample(s)
  /\ UNCHANGED <<main, turn, handler, eventVars, lockVars, leaked, faults>>

Inside ==
  \/ HdcPoll \/ ApdsPoll \/ MpuPoll
  \/ StreamHdcPoll \/ StreamApdsPoll \/ StreamMpuPoll \/ Dim

-----------------------------------------------------------------------------
(* The main thread, when the handler does not interrupt it.                *)

MainStep(from, to) == main = from /\ main' = to /\ handler \in {"none", "failed"}

\* The constructor of the MPU9250 uses the device, in event_sensors, without
\* lockFPGA, and installs the handler.  One that fails: see ShockPath.
Construct ==
  /\ MainStep("construct", "start")
  /\ UNCHANGED <<queueVars, turn, handler, eventVars, threadVars, lockVars>>

StartThreads ==
  /\ MainStep("start", "sleep")
  /\ thread' = [s \in Sensor |-> "sleep"]
  /\ UNCHANGED <<queueVars, turn, handler, eventVars, lockVars, leaked, faults>>

WakeUp ==
  /\ MainStep("sleep", "take")
  /\ UNCHANGED <<queueVars, turn, handler, eventVars, threadVars, lockVars>>

\* publishSensorData of event_sensors takes both queues before it publishes.
TakePolling ==
  /\ EventApp /\ MainStep("take", "takeEvents")
  /\ GetQueue(Served)
  /\ UNCHANGED <<turn, handler, eventVars, threadVars, lockVars>>

\* getEventQueue: inEvents the main thread holds the eventMutex of the sensor.
LockEvents ==
  /\ MainStep("takeEvents", "inEvents")
  /\ UNCHANGED <<queueVars, turn, handler, eventVars, threadVars, lockVars>>

TakeEventsKeeps ==               \* mutant of TakeEvents: eventHappened stays set
  /\ MainStep("inEvents", "publish")
  /\ eventData' = (IF Served = "mpu" THEN eventQueue ELSE << >>) /\ eb' = 0
  /\ eventQueue' = (IF Served = "mpu" THEN << >> ELSE eventQueue)
  /\ UNCHANGED <<queueVars, turn, handler, happened, events, eventsSent, dropped, threadVars, lockVars>>

TakeEvents ==
  /\ MainStep("inEvents", "publish")
  /\ eventData' = (IF Served = "mpu" THEN eventQueue ELSE << >>) /\ eb' = 0
  /\ eventQueue' = (IF Served = "mpu" THEN << >> ELSE eventQueue)
  /\ happened' = (happened /\ Served # "mpu")
  /\ UNCHANGED <<queueVars, turn, handler, events, eventsSent, dropped, threadVars, lockVars>>

StreamTakePolling ==
  /\ StreamApp /\ MainStep("take", "publish")
  /\ GetQueue(Served)
  /\ UNCHANGED <<turn, handler, eventVars, threadVars, lockVars>>

\* client.publish, burst by burst.
Publish ==
  /\ MainStep("publish", "publish")
  /\ SendBurst
  /\ UNCHANGED <<turn, handler, eventVars, threadVars, lockVars>>

EventsDone == eb = Bursts(Len(eventData))

PublishEvents ==
  /\ MainStep("publish", "publish")
  /\ BatchDone /\ ~EventsDone
  /\ eventsSent' = eventsSent \o Packets(eventData, eb) /\ eb' = eb + 1
  /\ UNCHANGED <<queueVars, turn, handler, events, eventQueue, happened, eventData, dropped, threadVars, lockVars>>

NextSensorEarly ==               \* mutant of NextSensor: events need not be done
  /\ BatchDone
  /\ \/ turn < 3 /\ MainStep("publish", "take") /\ turn' = turn + 1
     \/ turn = 3 /\ MainStep("publish", "sleep") /\ turn' = 1
  /\ UNCHANGED <<queueVars, handler, eventVars, threadVars, lockVars>>

NextSensorSkips ==               \* mutant of NextSensor: the last one is left out
  /\ BatchDone /\ EventsDone
  /\ \/ turn < 2 /\ MainStep("publish", "take") /\ turn' = turn + 1
     \/ turn = 2 /\ MainStep("publish", "sleep") /\ turn' = 1
  /\ UNCHANGED <<queueVars, handler, eventVars, threadVars, lockVars>>

NextSensor ==
  /\ BatchDone /\ EventsDone
  /\ \/ turn < 3 /\ MainStep("publish", "take") /\ turn' = turn + 1
     \/ turn = 3 /\ MainStep("publish", "sleep") /\ turn' = 1
  /\ UNCHANGED <<queueVars, handler, eventVars, threadVars, lockVars>>

\* client.publish throws, nobody catches it, and the process ends.
PublishThrows ==
  /\ MainStep("publish", "dead")
  /\ ~BatchDone \/ ~EventsDone
  /\ UNCHANGED <<queueVars, turn, handler, eventVars, threadVars, lockVars>>

MainLoop ==
  \/ Construct \/ StartThreads \/ WakeUp
  \/ TakePolling \/ LockEvents \/ TakeEvents \/ StreamTakePolling
  \/ Publish \/ PublishEvents \/ NextSensor

-----------------------------------------------------------------------------
(* eventDataReady and setEventQueue, on the main thread.                   *)

\* The signal interrupts the main thread wherever it is.
Signal ==
  /\ EventApp /\ Alive /\ main # "construct" /\ events < MaxEvents
  /\ handler = "none" /\ handler' = "lock"
  /\ UNCHANGED <<queueVars, main, turn, eventVars, threadVars, lockVars>>

HandlerLock ==
  /\ handler = "lock" /\ handler' = "inside"
  /\ mutex = "none" /\ mutex' = "handler"
  /\ UNCHANGED <<queueVars, main, turn, eventVars, threadVars, region, acquired>>

\* The handler interrupted getEventQueue of its own sensor, and waits in
\* setEventQueue for the eventMutex that its own thread holds, with fpgaMutex locked.
Stuck == handler = "inside" /\ main = "inEvents" /\ Served = "mpu"

SetEventQueue ==
  /\ handler = "inside" /\ handler' = "none" /\ mutex' = "none"
  /\ leaked < MaxFiles /\ ~Stuck
  /\ events' = events + 1 /\ eventQueue' = Event(events + 1)
  /\ happened' = TRUE
  /\ dropped' = (IF happened THEN dropped \cup {events} ELSE dropped)
  /\ UNCHANGED <<queueVars, main, turn, eventData, eb, eventsSent, threadVars, region, acquired>>

\* fopen, the ioctl or fread fails.  The buffer stays disabled and no further shock
\* is recorded: see ShockPath.
HandlerFails ==
  /\ handler = "inside" /\ handler' = "failed" /\ mutex' = "none"
  /\ \/ leaked = MaxFiles /\ UNCHANGED faults
     \/ faults < MaxFaults /\ faults' = faults + 1
  /\ UNCHANGED <<queueVars, main, turn, eventVars, thread, leaked, region, acquired>>

HandlerEnds == SetEventQueue \/ HandlerFails

-----------------------------------------------------------------------------
(* The callbacks of libfpgaregion.                                         *)

Region(from, to) == Alive /\ region = from /\ region' = to

Request ==
  /\ Region("idle", "requested")
  /\ UNCHANGED <<queueVars, main, turn, handler, eventVars, threadVars, acquired, mutex>>

RegionLock ==
  /\ Region("requested", "locked")
  /\ mutex = "none" /\ mutex' = "region"
  /\ UNCHANGED <<queueVars, main, turn, handler, eventVars, threadVars, acquired>>

Release ==
  /\ Region("locked", "released") /\ acquired' = FALSE
  /\ UNCHANGED <<queueVars, main, turn, handler, eventVars, threadVars, mutex>>

ReconfigDoneKeepsLock ==         \* mutant of ReconfigDone: the mutex stays locked
  /\ \/ Region("released", "done") /\ acquired' = TRUE /\ UNCHANGED mutex
     \/ Region("done", "idle") /\ UNCHANGED <<mutex, acquired>>
  /\ UNCHANGED <<queueVars, main, turn, handler, eventVars, threadVars>>

\* The FPGA has been reconfigured: Acquire, then unlock.
ReconfigDone ==
  /\ \/ Region("released", "done") /\ acquired' = TRUE /\ UNCHANGED mutex
     \/ Region("done", "idle") /\ mutex' = "none" /\ UNCHANGED acquired
  /\ UNCHANGED <<queueVars, main, turn, handler, eventVars, threadVars>>

-----------------------------------------------------------------------------
Next ==
  \/ \E s \in Sensor : Lock(s) \/ DoStore(s)
  \/ Inside \/ DimLock
  \/ MainLoop \/ PublishThrows
  \/ Signal \/ HandlerLock \/ HandlerEnds
  \/ Request \/ RegionLock \/ Release \/ ReconfigDone

(* Fairness: the threads run, and the threads that wait for fpgaMutex get  *)
(* it in the end: between their short uses all of them sleep.  Nobody has  *)
(* to ask for a reconfiguration, no event has to come, no call has to fail *)
(* but for want of a descriptor.                                           *)
Fairness ==
  /\ \A s \in Sensor : SF_vars(Lock(s)) /\ WF_vars(DoStore(s))
  /\ WF_vars(Inside) /\ SF_vars(DimLock)
  /\ WF_vars(MainLoop)
  /\ SF_vars(HandlerLock) /\ WF_vars(HandlerEnds /\ faults' = faults)
  /\ SF_vars(RegionLock) /\ WF_vars(Release) /\ WF_vars(ReconfigDone)

Spec == Init /\ [][Next]_vars
FairSpec == Spec /\ Fairness

-----------------------------------------------------------------------------
(* Properties.                                                             *)

InDevice == {s \in Sensor : thread[s] \in {"inside", "dimming"}}
              \cup {h \in {"handler"} : handler = "inside"}
              \cup {c \in {"constructor"} : EventApp /\ main = "construct"}

\* No two of the threads, the handler and the constructor of the MPU9250 are inside
\* a device at once, and none is while the region is released but that constructor:
\* lockFPGA, taken again by doProcess and by the handler, and the two callbacks that
\* lock and unlock the same mutex, keep the others out.  The constructor takes no
\* lock, and a reconfiguration at the start may remove the device under it.
DevicesKept ==
  /\ ~acquired => InDevice \subseteq {"constructor"}
  /\ \A s, t \in InDevice : s = t

\* Packets of events are sent in their order, no event starts before the one
\* before is complete, and no event is sent twice.
EventsWhole ==
  /\ eventsSent # << >> => eventsSent[1][2] = 1
  /\ \A i \in 1 .. Len(eventsSent) - 1 :
       LET p == eventsSent[i]
           q == eventsSent[i + 1]
       IN IF p[2] < EventLen THEN q = <<p[1], p[2] + 1>> ELSE q[1] > p[1] /\ q[2] = 1

Held(items) == {items[i][1] : i \in 1 .. Len(items)}

\* An event is sent or on its way to the broker, or its loss has been reported, and
\* never both.
EventsAccounted ==
  LET safe == Held(eventQueue) \cup Held(eventData) \cup Held(eventsSent)
  IN safe \cup dropped = 1 .. events /\ safe \cap dropped = {}

\* In the end every sample that was stored has been published and no sensor has
\* stopped delivering, whatever failed before and however often the FPGA was
\* reconfigured.  The code has three exceptions: client.publish has thrown and the
\* process has ended, failed reads have used up all descriptors, or the handler waits
\* for its own thread.
Delivers ==
  <>[](\/ main = "dead" \/ Stuck
       \/ \A s \in Sensor :
            /\ Len(published[s]) = stored[s]
            /\ stored[s] = MaxStored[s] \/ leaked = MaxFiles)

\* A reconfiguration that was requested gets the region, and the threads go on, unless
\* the process has ended or the handler waits for ever for its own thread: it never
\* unlocks fpgaMutex, for which the callback waits.
ReconfigurationEnds ==
  region = "requested" ~> (region = "idle" /\ acquired) \/ main = "dead" \/ []Stuck

=============================================================================
