# SmartSystemsLab: specification and verification

The repository is a DE1-SoC sensor node: VHDL cores that acquire three sensors, Linux
drivers for the cores, and C++ applications that publish the data over MQTT. This directory
holds TLA+ models of it, translated from the source, what TLC checks about them on small
instances, and what TLAPS proves for all sizes.

Run everything inside this directory: `tlc -config <cfg> <module>` for the runs of
`PROJECT.json`, `tlapm <module>_proofs.tla` for the proofs.

## The system

| Part | Source | State it keeps | Operations | What is hard |
|---|---|---|---|---|
| MPU9250 core, shock recorder | `hdl/components/mpu9250/mpu9250-ea.vhd` 542-722, `ram/ram.vhd` | ring of 1024 samples, read and write address, state, available bit, interrupt and its enable | sample arrives; shock detected; buffer enabled; word read; interrupt cleared or switched | bus and FSM write the same registers in one cycle; one register is end mark and read pointer; pipelined RAM |
| MPU9250 core, acquisition | the same file, 400-540 | SPI sequence, shadow registers, sensor registers, `lock`, `valid`, timestamp | trigger, byte received, register read | several words must belong to one sample |
| HDC1000, APDS9301 cores | `hdl/components/{hdc1000,apds9301}/*-ea.vhd` | I2C command sequence, shadow and sensor registers, `lock`, `valid` | strobe or interrupt, FIFO level, byte received, register read | waits without timeout, lost strobes |
| Seven segment display | `hdl/components/seven_segment`, `drivers/sevensegment`, `user/show_ip` | digits, brightness, enable bits, PWM counter; driver buffer; the part of the IP address shown next | write, read, tick, probe, remove | partial writes, two writers and no lock, PWM limits |
| MPU9250 driver | `drivers/mpu9250/mpu9250.c` | `mode`, `pid`, `irqs_active`, `buf_data_available`, two data buffers | interrupt, read, ioctl, probe, remove | no lock; shared interrupt line; one mode for all callers |
| HDC1000, APDS9301 drivers | `drivers/{hdc1000,apds9301}` | one data buffer | read | shared by all callers |
| event_sensors | `user/event_sensors` | per sensor a queue, an event queue, mutexes; `fpgaMutex`, `mpuMutex`; time stamp calibration | polling threads, signal handler, publisher, reconfiguration callbacks | a signal handler that takes mutexes; calibration race; failing calls |
| streaming_sensors | `user/streaming_sensors` | a ring of queues per sensor | polling threads, publisher | hand-over of the queues |
| hdc1000 | `user/hdc1000` | none | a sequential loop | - |
| libfpgaregion, MQTT, I2C and SPI masters, Qsys system, overlays | external, vendored, generated | | | |

How they interact: a core acquires samples on its own and exposes them in registers. The MPU9250
core also records every sample into a ring while its buffer is enabled; after a shock it
records on until the ring is full, raises the interrupt and stops. The driver's interrupt
handler acknowledges the interrupt and sends signal 10 to the registered process. There,
`eventDataReady` runs on top of the main thread, takes `fpgaMutex` and `mpuMutex`, opens the
device, switches it to buffer mode, reads the whole window (several calls of `read`), hands it to
the event queue and switches back. The last call of `read` enables the buffer again. The
polling thread uses the same device, in polling mode, under the same mutexes. Every
second the main thread takes the queues of all sensors and publishes them in bursts.

What makes the parts correct:

- recorder: a recorded window is gapless, starts the configured number of samples before the
  shock, is not overwritten before it was read, and is read out in order exactly once;
- driver and handler: what the application takes for an event is one whole window of one shock,
  every shock at most once, in order; a disabled buffer is enabled again;
- sensor registers: a set of words read from a core belongs to one sample;
- queues and publisher: what is stored is published once, in order; an event is published or
  reported as dropped; what is compressed is the whole payload;
- threads and reconfiguration: nobody who takes the lock is inside a device while the FPGA is
  reconfigured, and all go on afterwards;
- time stamps: all results are on one clock;
- display: what was written completely is shown; the brightness is what the register says.

`PROJECT.json` lists the hazards behind these properties at their lines.

## Modules

**ShockRecorder** is the recorder, one step per clock cycle. A step chooses what the bus master does
(`None`, a first or second cycle of a read, a write), whether a sample completes and whether
the sample being written exceeds the threshold, and computes all registers from the
old ones, as the process `fsm` does with `reg` and `nxR`. Where the process assigns a
register twice, the later assignment wins: `NextState`, `NextRAddr`, `NextInt` and the others state
that as one expression per register. A sample is its number; a word read back is the number of
its sample. `armSeq`, `shockSeq`, `capture` and `got` remember the past for the properties: a window
is `open` from a shock on, `sealed` once it is complete, and `none` as soon as
somebody enables the buffer again or disturbs the recording by a read.

**EventBuffer** is what the recorder promises, without cycles, addresses and RAM.
`MCShockRecorder` shows that every cycle of ShockRecorder is a step of EventBuffer or leaves it
alone (`ImplementsEventBuffer`).

**MpuDriver** is the driver on top of EventBuffer. Interrupt handler and `read` have program
counters, because they share `struct data` without a lock: every access to that struct or to the
hardware is a step, and a hardware access may share its clock cycle with a move of the recorder.
The 1024 samples are `Words` words, a word is the number of its shock. A caller needs two calls of
`read` for a window.

**ShockPath** adds the application: the main thread (constructor, `getEventQueue`), the handler
`eventDataReady`, the polling thread, their lock, failing calls, and the end and restart of the
process.

**SensorRegs** is the other face of the three cores: an acquisition fills shadow registers byte by
byte, the registers the bus reads are loaded from them in every cycle with `valid` high and `lock`
low, and several callers of the driver read the set word by word. One step is one clock
cycle of acquisition, load and bus. A value is the number of its acquisition, or `Mixed` while its
bytes belong to two. `got`, `disturbed` and `raced` are history: the words a reader received,
whether another reader ended its set in between, and whether its first word was read in the
cycle that loaded new values. Each caller reads a whole set; reads that a driver cuts
short do not exist, it reads all registers for every call.

**SampleStream** is what a sensor's queue and the publisher promise: the samples stored are sent once,
in order, in bursts of 1 to `Burst`. **SensorQueue** is how both applications do it: `StoreSample` is
`doStore`, `GetQueue` is `getQueue` (both atomic under `queueMutex`), `SendBurst` is one round of the
loop over the bursts. event_sensors has one queue, streaming_sensors a ring of two; the number is
`queueCount`, chosen at the start. **SensorThreads** adds the threads: for each sensor `doPoll`
(one action per sensor and application, as they differ in what they leave open when `fread` fails),
`doProcess`, `doStore` and the sleep; the main thread (construct, start the threads, sleep, then take
and publish for each sensor); the signal handler on top of the main thread with `setEventQueue`; and the
callbacks of libfpgaregion. All of them but the constructor compete for `fpgaMutex` (`mutex`). The handler's
way through the device is ShockPath's subject and one step here; it brings an event, or fails and leaves
the buffer disabled. `getEventQueue` is two steps: `inEvents` the main thread holds `eventMutex`, and a handler
that interrupts it there on the MPU9250's turn can never finish `setEventQueue` (`Stuck`); it keeps `fpgaMutex`.

**Compress** is `compressMemory` with zlib's `deflate` as its contract describes it: it stops when the input
or the output space is used up, keeps what did not fit, and fails without output space.

**TimeStampingUnit** is `getResolvedTimeStamp` access by access, called by threads with `fpgaMutex`
(`Locked`: HDC1000, APDS9301) and by the main thread without it (`Free`: `toJsonString` of the
MPU9250). Numbers have a fixed width (`Modulus`), and the HDC1000's a smaller one (`Narrow`).

**Pwm** is the PWM controller, cycle by cycle. **Display** is the rest of the display: the steps of
`dev_write` for each of its callers over the one buffer they share, the registers, `show_ip`, the
dimming by event_sensors, and the removal and probe of the driver around a reconfiguration. Whether a byte
write leaves the other lanes of the bus as they were is not decided by the core, which
ignores byte enables, so `lanesKept` is chosen at the start.

**I2cAcquisition** is the state machine of the HDC1000 core, clock by clock, with the FIFOs of the I2C
master and the sensor as its environment. `Chain` lists the states that issue one request and
go on; the setup of the I2C master and the read that wakes it up are one of them.

| Definition | Code |
|---|---|
| `Begin`, `Byte`, `End` | `mpu9250-ea.vhd` 480-533; `hdc1000-ea.vhd` 306-339; `apds9301-ea.vhd` 327-344 |
| `Load`, `Access` | load and bus logic of the three processes `fsm` |
| `Position` | order of the reads in `read_polling_data` and the two `dev_read` |
| `StartsWrite`, `Detects`, `Completes` | the RAM FSM, `mpu9250-ea.vhd` 542-586 |
| `Delivers`, `EndsSample`, `EndsWindow` | the read of the buffer address, 648-696 |
| `Fsm` | registers after the edge, including the bus writes 704-722 |
| `Ram` | the two-stage read and the write of `ram.vhd` |
| `IrqReadStatus`, `IrqClear`, `IrqSignal` | `irq_handler` |
| `ReadStatus`, `Check`, `Fetch`, `Copy`, `ClearActive`, `ClearAvailable`, `EnableAgain` | `read_buffer_data` |
| `SetMode`, `SetPid` | `dev_ioctl` |
| `RegisterPid`, `InstallHandler`, `ConstructorFails` | constructor of `MPU9250` |
| `HandlerLock` ... `HandlerToPolling` | `eventDataReady` |
| `PollLock` ... `PollDone` | `MPU9250::doPoll` |
| `HdcPoll`, `ApdsPoll`, `MpuPoll`, `StreamHdcPoll`, ... | the three `doPoll` of each application |
| `DimLock`, `Dim` | `APDS9301::doProcess` |
| `Construct` | constructor of `MPU9250`, which uses the device without `lockFPGA` |
| `TakePolling`, `Publish`, `PublishEvents` | `publishSensorData`, `publishData` |
| `LockEvents`, `TakeEvents` | `getEventQueue`: `eventMutex`, then the rest |
| `SetEventQueue`, `Stuck` | `setEventQueue`, and its wait for `eventMutex` on the thread that holds it |
| `HandlerFails` | the early returns of `eventDataReady` |
| `RegionLock`, `Release`, `ReconfigDone` | `ReconfigRequested`, `ReconfigDone` |
| `Check`, `SetHw`, `SetMs`, `Subtract`, `Add` | `getResolvedTimeStamp` |
| `Call`, `CheckPair`, `WritePair`, `WriteBrightness`, `WriteEnable` | `dev_write` |
| `ShowFrame`, `ShowIp`; `DimFrame` | `writeToCDev` and `main` of show_ip; `doProcess` |
| `IdleState`, `Wait1`, `Wait2`, `WaitRead2`, `ReadByte`, `Chain` | the states of `hdc1000-ea.vhd` 187-342 |
| `Feed`, `Drain`, `Finish`, `Rest` | `compressMemory` |

## Runs

**shock_recorder** (`MCShockRecorder`, `ShockRecorder.cfg`). RAM of 4 samples of 2 words, one sample from
before the shock, one idle cycle between bus reads, 7 samples. The ring wraps, so a shock
can come with a ring that is empty, half full or overwritten, a second recording can follow the first, and
every bus operation can fall into every cycle of it. It shows that a sealed window
is complete (`RecordedWindow`) and stays so (`KeptUntilEnabled`), that its words come out in order
although the RAM answers two cycles late (`ReadInOrder`), that the available bit
falls with the last one (`AvailUntilRead`), and the refinement. With no idle cycle after a read the
first word of a sample would still be the previous sample's: the model needs `BusGap = 1`, which any
bridge between processor and core leaves.

**shock_path** (`MCShockPath`, `ShockPath.cfg`). Windows of 2 words, two shocks, one foreign interrupt,
two starts of the application, one failing call: a shock can meet a driver that still holds the previous one,
be clobbered by a foreign interrupt, hit the application between any two steps
of its start, or be left to its successor. What reaches the event queue without an error message in the
kernel log is one whole window (`WholeEvents`), in order and once (`DeliveredOnce`); no thread reads
in the other one's mode (`ReadInRequestedMode`); and the buffer is enabled
again after every shock (`EnabledAgain`) with three exceptions, which the property names because the code has
them: the application is not running, its handler or constructor gave up on a failing
call, or the handler interrupted `getEventQueue` and waits for the mutex of its own thread.
More shocks and foreign interrupts (3 and 2, 660,042 states) show nothing new.

**foreign_interrupt** (`MCShockPath`, `HandledWhenRead.cfg`), a violation. The driver says "Mark
interrupts as handled, when the entire buffer was read" (`mpu9250.c:217`), but `irq_handler` stores the
status register before it looks whose interrupt it is: one interrupt of another device marks the
shock as handled, the following read refuses the window, copies its old contents and
enables the buffer again. The shock is lost.

**sensor_regs_spi**, **sensor_regs_i2c** (`MCSensorRegs`). Two callers, three acquisitions, the smallest
set (the MPU9250's is two data words here, so that it has a word that is not the last). An acquisition can begin
and end inside a set, between the two cycles of a read, and twice during a set. The registers always show
one whole acquisition (`WholeRegisters`), a set belongs to one acquisition (`OneAcquisition`) and
nobody's reading leaves the registers locked (`LockedOnlyInSet`). Two exceptions are in the code
and stated by `OneAcquisition`: the lock is one bit, so a second caller that reads the last
word opens it under the first one; and the lock rises one cycle after the first read, so that a
first word read in the cycle of a load is one acquisition older than the rest.

**sensor_threads_safe** (`MCSensorThreads`). Both applications, bursts of 2, events of 3 packets: a batch can be
empty, less than a burst, one burst, or a burst and a rest. Three samples of the MPU9250 and one of each other sensor, two
events, one failing call, one file that may be left open, any number of reconfigurations. Every sample is in
exactly one place and in order (`Accounted`), the whole is a SampleStream (`ImplementsStream`), no two are inside
a device at once and, with one exception, nobody is while the region is released (`DevicesKept`), events are
published whole and in order (`EventsWhole`), and an event that is lost has been reported (`EventsAccounted`).
`DevicesKept` names one exception of the code: the constructor of the MPU9250 opens the device and
calls `ioctl` on it without `lockFPGA` (`mpu9250.cpp:192`), so a reconfiguration requested while event_sensors starts may release
the region under it. It is counted as a user of the device like the others, and the only one `DevicesKept` lets be there.

**sensor_threads_live**, with fairness and fewer samples: everything stored is published in the end and no
sensor stops (`Delivers`), and a requested reconfiguration ends (`ReconfigurationEnds`). The code has exceptions, and the properties name them.
`client.publish` throws and ends the process (both). Failed reads have used up all
file descriptors, as `doPoll` does not close the file when `fread` fails (`Delivers`). The signal arrived while the main
thread was in `getEventQueue` of the MPU9250: the handler then waits in `setEventQueue` for the mutex of its own thread
and never unlocks `fpgaMutex`, so all sensors stop, nothing is published and no reconfiguration gets the region (both, as `Stuck`).
`ReconfigurationEnds` excuses only a handler that waits for ever: one that fails before `setEventQueue` unlocks.

**time_stamping** (`MCTimeStampingUnit`). Two threads with the lock, one without, timestamps of three bits, a lower word
of one bit, three milliseconds: a sample can be older than the calibration (the difference wraps), and the HDC1000's stamp can
lose bits. As long as one thread calibrated, the FPGA was not reconfigured and no bits were lost, all results are on one clock
(`OneClock`). The calibration race is in the code; `CalibratedOnce` and `OnlyUnlockedThrow` say what it takes: a
thread without the lock.

**display** (`MCDisplay`). A PWM of one bit, two numbers of three and one digits, a partial write with an invalid digit. After a
call that met no other one the registers are what was written (`SettledRegisters`), the lit digits read as the
number (`ShowsNumber`), the duty cycle is the register's value plus one cycle (`SettledDuty`), and in such a call an invalid
digit never reaches the display nor lets a later call past it (`InvalidBlocks`). When two calls overlap no
such promise holds, and none is stated. show_ip shows four numbers; which ones is data, and two of different
length make a call find the digits of another one.

**pwm_documented** (`MCPwm`), a violation: the controller documents a duty cycle from 0% to 99%
(`pwm_controller.vhd:7`), but at value 0 the output is on for one cycle of each period, and at the largest value it is always on.

**i2c_acquisition** (`MCI2cAcquisition`). Three acquisitions, two transfers without acknowledge, an I2C master and a
sensor of any speed. The state machine acquires as `SensorRegs` says (`ImplementsAcquire`, a refinement of its
action `Acquire`), and a strobe taken in the idle state leads to an acquisition (`AcquisitionEnds`) unless a
transfer failed: then the core waits for ever, as its waits have no timeout. FIFOs are
unbounded here; at most seven commands and four bytes are in them, the vendor's have 16 places.

**compress** (`MCCompress`). Streams from none to three temporary buffers, among them those that fill one
exactly. The result is the whole stream and no assertion on deflate's result fails (`WholeStream`); both loops end (`Ends`).

Deadlock is checked for the recorder, the registers, the display, the PWM and the I2C acquisition. In shock_path every counter is bounded and the handler can
wait for its own thread, so the model may stop; that stop is `Stuck`. The sensor threads stop when
the process has ended and no sample is left to store, or when the handler is `Stuck`, time_stamping when the process ended or time is up, compress when it returns.

## Fairness

`EnabledAgain`: samples keep arriving, so a recording completes; interrupts, system calls
and running threads make progress (weak fairness). The handler competes with a polling thread
that sleeps for most of each half second, so it gets the mutex eventually (strong fairness on
`HandlerLock`). Nothing makes a shock, a restart or a call of `getEventQueue` happen.

`Delivers`, `ReconfigurationEnds`: threads run (weak fairness of their steps), and who waits for `fpgaMutex` gets it in
the end (strong fairness of `Lock`, `DimLock`, `HandlerLock`, `RegionLock`): its users sleep 20 ms to half a
second between uses of less than a millisecond. libfpgaregion finishes a reconfiguration it began. No request, event or
failure has to happen, except that `fopen` fails when no descriptor is left.

`AcquisitionEnds`: the clock runs, the I2C master works off its commands and answers, and the sensor
ends its measurements. `Ends`: `compressMemory` runs.

## Proofs

`ShockRecorder_proofs` proves for every size of the RAM, number of samples before the
shock, words per sample and bus gap:

- `TypeCorrect`: `Spec => []TypeOK`;
- `WindowInvariant`: `Spec => []WindowInv`, the inductive invariant;
- `WindowIsComplete`: `Spec => []RecordedWindow`;
- `WindowIsKept`: `Spec => KeptUntilEnabled`;
- `ReadInvariant`, `WindowIsReadInOrder`, `AvailableUntilRead`: if `BusGap > 0`, `ReadInv`, `ReadInOrder` and
  `AvailUntilRead` are invariants.

`RecordedWindow` is not inductive: it speaks of the sealed window only. `WindowInv` adds what holds
while the window grows. `Trail`: going back from the write address, the RAM holds the latest samples, one per
slot, as far as samples were recorded since the buffer was enabled. `OpenWindow`: while a shock is being
recorded undisturbed, the read address is `PreShock` slots before the slot of the shock, so the
distance from the write to the read address is what is missing. When both
meet, the trail is the whole ring, which is `RecordedWindow`. `WriteDiscipline` ties the write enable
to the write state, so that nothing is written once the state is idle. The assumptions are the named ones of
ShockRecorder: the window leaves room for at least one sample after the shock, and
two acquisitions are more than two cycles apart (`Acquire`; one takes about 27 bytes at 1 MHz).

`ReadInOrder` needs the two stages of the RAM. `ReadInv` adds `NextWord`: the next word is word `rState` of
sample `q` of the window, and `q * Fields + rState` words have left the recorder; `Pipeline`: which stages have caught
up with the read address, counted in cycles since the last read (with no idle cycle after a read the
last one has not, hence the assumption `BusGap > 0`); `PendingInOrder`: the word on the bus is the next one;
and `Quieted`: while a window is open nobody reads, so the pipeline and the word counter are at rest when it is sealed.

From `ReadInv` the same module shows that a cycle with a bus operation is the step of EventBuffer for
that operation (`CycleSteps`), hence `RecorderImplementsBuffer` (`Spec => ImplementsEventBuffer`) and
`BusOperationsAgree` (`Spec => OperationsAgree`).

`ShockPath_proofs` proves for every size of a window, every place `Split` at which the application cuts it into two
reads, and any number of shocks, foreign interrupts, starts and failing calls: `TypeCorrect`,
`ReadsInRequestedMode`, `EventsAreWhole` (`Spec => []WholeEvents`) and `ShocksInOrder` (`Spec => DeliveredOnce`).
The argument goes from the lock to the data. `LockInv`: who is inside the device holds the lock. `ModeInv`: so
the mode, one variable for all callers, is still the one the reader asked for. `BufferInv`: as nobody
reads while a shock is recorded, the state of the recorder says what is in the buffer and whether it is new.
`OffsetInv` and `FetchInv`: a call of `read` goes forward in the window, and the words fetched so far are the first
ones of a sealed window. `ReadInv`: what a call without an error message holds is the window of one shock `s`, newer
than the one delivered last and older than one not read yet; a foreign interrupt makes the
call refuse the window, and then the error flag is set. `TypeOK` alone is not inductive: without `FetchInv` nothing
keeps the driver from fetching past the end of the window.

`SensorRegs_proofs` proves for every number of words, readers and acquisitions and for both kinds of
acquisition:

- `SetInvariant`: `Spec => []Inv`, the inductive invariant;
- `TypeCorrect`, `RegistersAreWhole`, `SetIsOneAcquisition`, `LockIsReleased`: the four
  invariants of the runs.

`OneAcquisition` speaks of words already received. `Inv` adds why they stay equal: `ShadowOK`, the shadow registers
are whole whenever `valid` can be high, so a load never mixes; `BusOK`, the first cycle of a read has
set the lock for the second; `Holds` and `OnBus`, inside an undisturbed set the
lock is set, hence nothing is loaded, and the words received and the word on the bus equal the registers.

`SensorThreads_proofs` first proves for every set of sensors, ring of queues and number of samples and every burst size that
`Accounted` is an invariant (it is inductive, given the types `QueueTypeOK`) and that `QueueSpec` implements `SampleStream`
(`QueueImplementsStream`): storing and sending map to themselves, `GetQueue` to a stutter. The arithmetic of
bursts is in three lemmas (`BurstExists`, `BurstSize`, `BurstPackets`): the bursts of a batch are non-empty, at most `Burst` long, and the last one
ends the batch. Then it shows that every step of the threads is a step of SensorQueue or
leaves it alone (`ThreadsUseQueue`), so both results hold for the applications (`ThreadsAccount`,
`ThreadsImplementStream`), and proves `DevicesKept` from `LockInv`, which says who holds `fpgaMutex` in
which state of the threads, the handler and the callbacks, and that neither a thread nor the handler runs
while the constructor uses the device without it. The sensors are the three of the board here (`SensorAssumption`).
For the events (`EventsAreWhole`, `EventsAreAccounted`) `EventInv` follows a window from the handler to the broker:
`PlacesInv`, the queue holds the last event while `happened` is set, and everything with the main thread or
sent is older; `SentInv`, the packets sent end with a whole event or with the first `eb` bursts of the event taken;
`DoneInv`, the main thread takes the next event only when it is done with that one. `ThreadTypesCorrect` is the type
invariant, which needs `PlacesInv` for the packets and `LockInv` for the states.

`TimeStampingUnit_proofs`, for every number of threads and width:

- `TypeCorrect` and `ThrowsOnlyUnlocked`. The invariant adds that a thread with the lock that is inside holds
  `fpgaMutex`, and that the second half of the calibration is only missing while the thread that set the first half
  has not gone on.
- `CalibratedAtMost` (`CalibratedOnce`). The property counts calibrations; the invariant counts them together with the threads
  that found the first half unset and will calibrate (`Pending`): at most one of those holds the lock. It needs
  finitely many threads (`FreeAssumption`).
- `OneClockKept` (`OneClock`). `ClockInv` speaks of the states with one valid calibration: every stamp on its way is whole, the two
  halves are set in turn, a difference was taken from the first half, and each result's skew is
  the calibration's. Differences and sums are taken modulo the width; `WrapsOnce` and `WrapsBack` show that the wraps
  cancel.

`Display_proofs`:

- `DutyCycle`: `SettledDuty` for every width of the counter. The invariant relates the age of
  the input to the counter: until a full period has passed the output may be left over from the old value. The display
  changes the input in the middle of a period and resets it, and `DisplayDutyCycle` carries the result over.
- `RegistersSettle`, `NumberShown`, `InvalidDigitBlocks` (`SettledRegisters`, `ShowsNumber`, `InvalidBlocks`) for every list of numbers and
  every other write. `AloneInv`: a call that met no other one is the only one inside the driver. So the buffer
  stays as it is while it runs, and `WrittenInv` holds: the pairs of digits it has passed are valid and, as far
  as the bus keeps the bytes beside those written, in the registers. `FrameInv`: after a write of show_ip the buffer is the frame
  of the number. That the enable bits light exactly its digits is a lemma about powers of two up to
  six places.
- The assumptions: a number has at most six digits, the places of the display (`AddressAssumption`; show_ip shows the bytes of
  an address), and a write puts bytes into the buffer, of which the brightness is less than the counter's size
  (`OthersAssumption`).

`I2cAcquisition_proofs`: `AcquisitionImplemented` (`Spec => ImplementsAcquire`) for any number of acquisitions and
of transfers that fail. The inductive invariant (`FifoInvariant`) follows a measurement through the master: until the
command to measure nothing is measured (`BeforeMeasure`); that command is the last one, so none is left when the
ready line falls (`Measuring`); the commands to read the result follow in their order, and the bytes received
are the first ones of this measurement, or none if the address was not acknowledged (`Fetching`), because the master
drops the reads that follow a missing acknowledge; with four bytes in the FIFO all commands are done (`Taking`); so the
shadow registers hold one acquisition, or two while the bytes are taken (`Bytes`). Then each edge of the clock is
`Begin`, `End` or `Wait` of SensorRegs (`Refines`).

`Compress_proofs`: `StreamIsWhole` for every buffer, input and trailer. The invariant: result and temporary
buffer together are the units produced so far, and the temporary buffer has room whenever deflate is called.

Only model-checked: the five liveness properties (`EnabledAgain`, `Delivers`, `ReconfigurationEnds`, `AcquisitionEnds`,
`Ends`), which need fairness and ENABLED, out of the proof system's reach. Every invariant, action
property and refinement of a passing run is stated by a theorem. The two violations are runs: a
counterexample needs no proof.

## Bounds and abstractions

`MaxSample`, `MaxShock`, `MaxForeign`, `MaxStarts` and `MaxFaults` cap counters and nothing else.
Whether a sample is a shock is a choice: the threshold and its arithmetic are not in ShockRecorder.
`Burst`, `EventLen` and `MaxFiles` are parameters of the code made small. `copy_to_user` and `copy_from_user` succeed. `fpgaMutex` and `mpuMutex` are one lock, because both users take both in
the same order. The process id is the number of the start.
Sleeping threads wake at any time. The driver of the display is removed only while no call is inside it.

## Plan

Done: the recorder and its abstract buffer, the driver and the path of a shock, the sensor registers of
the three cores, the acquisition of the HDC1000, the display, the threads, queues and publishers of both
applications with the reconfiguration lock, the time stamping unit, the compression; proofs of every
safety property above.

Left, in this order:

1. The acquisition of the MPU9250 against the SPI master (setup of the sensor, a trigger that falls into the
   write of the previous sample) and the threshold as 16-bit arithmetic.
2. The command sequence of the APDS9301, with its interrupt line in place of the HDC1000's ready line.
3. Files that stay open while their driver is removed.

## Not modelled

Qsys wiring, bitstreams, overlays and testbenches; the vendor's and third-party cores; the unfinished `i2c.vhd` of the
HDC1000 core, which is not part of the build; the dividers (`StrobeGen`), as a tick may come in any cycle; the table
of segments; unit conversions and JSON text; the start of the programs up to their connection with the broker; the
`hdc1000` tool, a sequential loop; `stop` of the sensors, which no run of the programs reaches; the dummy data of
`NO_SENSORS` builds.
