----------------------------- MODULE ShockPath -----------------------------
(***************************************************************************)
(* The path of a shock from the hardware to the queue of events of         *)
(* user/event_sensors: the event buffer, the driver, and in the            *)
(* application the signal handler eventDataReady, which interrupts the     *)
(* main thread, and the thread that polls the same device.                 *)
(*                                                                         *)
(* Abstraction.  fpgaMutex and mpuMutex are taken together, always in this *)
(* order, and released together: one lock here.  The other threads that    *)
(* take fpgaMutex only delay the two threads modelled.                     *)
(***************************************************************************)
EXTENDS MpuDriver

CONSTANTS
  MaxStarts,   \* bound: starts of the application
  MaxFaults    \* bound: fopen or ioctl calls of the application that fail

ASSUME BoundsAssumption == MaxStarts \in Nat /\ MaxFaults \in Nat
ASSUME ThreadAssumption == Thread = {"main", "poll"} /\ NoPid = 0

VARIABLES
  main,        \* main thread: dead, setPid, sigaction, run or inEvents; bare
               \* when it runs without having installed the handler
  handler,     \* eventDataReady, on the main thread; none when it does not run
  poll,        \* the polling thread of the MPU9250; none before it is started
  lock,        \* holder of fpgaMutex and mpuMutex, or none
  sigPending,  \* EVENT_SIGNAL_NR is pending for the main thread
  starts,      \* starts of the application so far: its pid
  faults,      \* failed calls so far
  failed,      \* the constructor or the handler gave up since the last start
  event,       \* what setEventQueue received last
  delivered    \* the last shock that was read without an error message

appVars == <<main, handler, poll, lock, sigPending, starts, faults, failed, event, delivered>>
vars == <<bufferVars, driverVars, appVars>>

NoEvent == [words |-> [w \in 1 .. Words |-> 0], error |-> FALSE, happened |-> FALSE]

TypeOK ==
  /\ DriverTypeOK
  /\ pid \in 0 .. MaxStarts
  /\ main \in {"dead", "setPid", "sigaction", "run", "inEvents", "bare"}
  /\ handler \in {"none", "lock", "open", "toBuffer", "read", "reading", "store", "toPolling"}
  /\ poll \in {"none", "sleep", "toPolling", "read", "reading"}
  /\ lock \in Thread \cup {"none"}
  /\ sigPending \in BOOLEAN /\ failed \in BOOLEAN
  /\ starts \in 0 .. MaxStarts
  /\ faults \in 0 .. MaxFaults
  /\ event \in [words : [1 .. Words -> Word], error : BOOLEAN, happened : BOOLEAN]
  /\ delivered \in Shock

Init ==
  /\ DriverInit
  /\ main = "dead" /\ handler = "none" /\ poll = "none" /\ lock = "none"
  /\ sigPending = FALSE /\ starts = 0 /\ faults = 0 /\ failed = FALSE /\ event = NoEvent
  /\ delivered = 0

InRead == \E t \in Thread : rd[t].pc # "user"

-----------------------------------------------------------------------------
(* Hardware and driver.                                                    *)

HardwareStep == (Detect \/ Complete) /\ UNCHANGED appVars

SendSignal ==
  /\ sigPending' = (sigPending \/ (main # "dead" /\ pid = starts))
  /\ UNCHANGED <<main, handler, poll, lock, starts, faults, failed, event, delivered>>

IrqStep ==
  \/ (IrqEnter \/ IrqReadStatus \/ IrqClear) /\ UNCHANGED appVars
  \/ IrqSignal /\ SendSignal

ForeignInterrupt == IrqForeign /\ UNCHANGED appVars

KernelRead == (\E t \in Thread : ReadStep(t)) /\ UNCHANGED appVars

-----------------------------------------------------------------------------
(* The main thread.                                                        *)

Start ==
  /\ main = "dead" /\ starts < MaxStarts
  /\ main' = "setPid" /\ starts' = starts + 1 /\ event' = NoEvent /\ failed' = FALSE
  /\ UNCHANGED <<handler, poll, lock, sigPending, faults, delivered, bufferVars, driverVars>>

\* The constructor of MPU9250 registers the process and enables the buffer ...
RegisterPid ==
  /\ main = "setPid"
  /\ SetPid(starts)
  /\ main' = "sigaction"
  /\ UNCHANGED <<handler, poll, lock, sigPending, starts, faults, failed, event, delivered>>

\* ... before it installs the handler; then the threads are started.
InstallHandler ==
  /\ main = "sigaction"
  /\ main' = "run" /\ poll' = "sleep"
  /\ UNCHANGED <<handler, lock, sigPending, starts, faults, failed, event, delivered, bufferVars, driverVars>>

\* fopen or an ioctl fails and the constructor returns: the threads are started
\* all the same, but without a handler.
ConstructorFails ==
  /\ main \in {"setPid", "sigaction"} /\ faults < MaxFaults
  /\ main' = "bare" /\ poll' = "sleep" /\ faults' = faults + 1 /\ failed' = TRUE
  /\ UNCHANGED <<handler, lock, sigPending, starts, event, delivered, bufferVars, driverVars>>

\* getEventQueue: between the two steps the main thread holds eventMutex.
EnterEvents ==
  /\ main = "run" /\ handler = "none"
  /\ main' = "inEvents"
  /\ UNCHANGED <<handler, poll, lock, sigPending, starts, faults, failed, event, delivered, bufferVars, driverVars>>

LeaveEvents ==
  /\ main = "inEvents" /\ handler = "none"
  /\ main' = "run" /\ event' = [event EXCEPT !.happened = FALSE]
  /\ UNCHANGED <<handler, poll, lock, sigPending, starts, faults, failed, delivered, bufferVars, driverVars>>

\* The process ends, and with it its threads, its locks and its pending signals.
\* A thread inside read ends when the call returns.
Die ==
  /\ main # "dead" /\ ~InRead
  /\ main' = "dead" /\ handler' = "none" /\ poll' = "none" /\ lock' = "none"
  /\ sigPending' = FALSE
  /\ UNCHANGED <<starts, faults, failed, event, delivered, bufferVars, driverVars>>

Kill == starts < MaxStarts /\ Die

\* Without a handler the default action of the signal ends the process.
DefaultAction == sigPending /\ main \in {"setPid", "sigaction", "bare"} /\ Die

-----------------------------------------------------------------------------
(* eventDataReady, on top of whatever the main thread was doing.           *)

Handler(from, to) == handler = from /\ handler' = to

Deliver ==
  /\ sigPending /\ main \in {"run", "inEvents"}
  /\ Handler("none", "lock")
  /\ sigPending' = FALSE
  /\ UNCHANGED <<main, poll, lock, starts, faults, failed, event, delivered, bufferVars, driverVars>>

HandlerLock ==
  /\ lock = "none" /\ lock' = "main"
  /\ Handler("lock", "open")
  /\ UNCHANGED <<main, poll, sigPending, starts, faults, failed, event, delivered, bufferVars, driverVars>>

\* fopen or the first ioctl fails: the handler returns and nothing is read.  The
\* last ioctl fails: the device stays in buffer mode.
HandlerFails ==
  /\ handler \in {"open", "toBuffer", "toPolling"} /\ faults < MaxFaults
  /\ handler' = "none" /\ lock' = "none" /\ faults' = faults + 1
  /\ failed' = (failed \/ handler # "toPolling")
  /\ UNCHANGED <<main, poll, sigPending, starts, event, delivered, bufferVars, driverVars>>

HandlerOpen ==
  /\ Handler("open", "toBuffer")
  /\ Open("main")
  /\ UNCHANGED <<main, poll, lock, sigPending, starts, faults, failed, event, delivered>>

HandlerToBuffer ==
  /\ Handler("toBuffer", "read")
  /\ SetMode("buffer")
  /\ UNCHANGED <<main, poll, lock, sigPending, starts, faults, failed, event, delivered>>

\* fread calls read until the window is complete or the file ends.
HandlerRead ==
  /\ Handler("read", "reading")
  /\ ReadCall("main")
  /\ UNCHANGED <<main, poll, lock, sigPending, starts, faults, failed, event, delivered>>

HandlerGot ==
  LET r == rd["main"]
  IN /\ handler = "reading" /\ r.pc = "user"
     /\ handler' = CASE r.kind = "buffer" /\ r.off < Words -> "read"
                     [] r.kind = "buffer" /\ r.off = Words -> "store"
                     [] r.kind # "buffer" -> "toPolling"
     /\ UNCHANGED <<main, poll, lock, sigPending, starts, faults, failed, event, delivered, bufferVars, driverVars>>

\* setEventQueue takes eventMutex.  If the main thread was interrupted inside
\* getEventQueue, it holds eventMutex itself and waits for ever.
HandlerStore ==
  /\ main # "inEvents"
  /\ Handler("store", "toPolling")
  /\ event' = [words |-> rd["main"].buf, error |-> rd["main"].error, happened |-> TRUE]
  /\ delivered' = (IF rd["main"].error THEN delivered ELSE rd["main"].buf[Words])
  /\ UNCHANGED <<main, poll, lock, sigPending, starts, faults, failed, bufferVars, driverVars>>

HandlerToPolling ==
  /\ Handler("toPolling", "none")
  /\ SetMode("polling") /\ lock' = "none"
  /\ UNCHANGED <<main, poll, sigPending, starts, faults, failed, event, delivered>>

HandlerStep ==
  \/ Deliver \/ HandlerOpen \/ HandlerToBuffer \/ HandlerRead
  \/ HandlerGot \/ HandlerStore \/ HandlerToPolling

-----------------------------------------------------------------------------
(* doPoll, every half second.                                              *)

PollLockless ==                  \* mutant of PollLock: mpuMutex is not taken
  /\ poll = "sleep"
  /\ poll' = "toPolling"
  /\ Open("poll")
  /\ UNCHANGED <<main, handler, lock, sigPending, starts, faults, failed, event, delivered>>

PollLock ==
  /\ poll = "sleep" /\ lock = "none"
  /\ poll' = "toPolling" /\ lock' = "poll"
  /\ Open("poll")
  /\ UNCHANGED <<main, handler, sigPending, starts, faults, failed, event, delivered>>

PollToPolling ==
  /\ poll = "toPolling" /\ poll' = "read"
  /\ SetMode("polling")
  /\ UNCHANGED <<main, handler, lock, sigPending, starts, faults, failed, event, delivered>>

PollRead ==
  /\ poll = "read" /\ poll' = "reading"
  /\ ReadCall("poll")
  /\ UNCHANGED <<main, handler, lock, sigPending, starts, faults, failed, event, delivered>>

PollDone ==
  /\ poll = "reading" /\ rd["poll"].pc = "user"
  /\ poll' = "sleep" /\ lock' = "none"
  /\ UNCHANGED <<main, handler, sigPending, starts, faults, failed, event, delivered, bufferVars, driverVars>>

\* fopen or the ioctl fails: this round is skipped.
PollFails ==
  /\ poll = "toPolling" /\ faults < MaxFaults
  /\ poll' = "sleep" /\ lock' = "none" /\ faults' = faults + 1
  /\ UNCHANGED <<main, handler, sigPending, starts, failed, event, delivered, bufferVars, driverVars>>

PollStep == PollToPolling \/ PollRead \/ PollDone

-----------------------------------------------------------------------------
Next ==
  \/ HardwareStep \/ IrqStep \/ ForeignInterrupt \/ KernelRead
  \/ Start \/ RegisterPid \/ InstallHandler \/ ConstructorFails
  \/ EnterEvents \/ LeaveEvents
  \/ Kill \/ DefaultAction
  \/ HandlerLock \/ HandlerFails \/ HandlerStep
  \/ PollLock \/ PollFails \/ PollStep

(* Fairness: samples keep coming, so a recording ends; interrupts, system  *)
(* calls and running threads make progress; the polling thread sleeps most *)
(* of the time, so the handler gets the lock (strong fairness).  Nobody    *)
(* has to restart the application, and no shock has to come.               *)
Fairness ==
  /\ WF_vars(Complete /\ UNCHANGED appVars)
  /\ WF_vars(IrqStep) /\ WF_vars(KernelRead)
  /\ WF_vars(RegisterPid \/ InstallHandler) /\ WF_vars(LeaveEvents)
  /\ WF_vars(DefaultAction)
  /\ SF_vars(HandlerLock) /\ WF_vars(HandlerStep) /\ WF_vars(PollStep)

Spec == Init /\ [][Next]_vars
FairSpec == Spec /\ Fairness

-----------------------------------------------------------------------------
(* Properties.                                                             *)

\* What the application takes for an event, when the driver had nothing to
\* complain about, is one whole window of one shock: no word of an older
\* window, of a window being recorded, or of the polling data.
WholeEvents ==
  event.happened /\ ~event.error =>
    \E s \in 1 .. shock : event.words = [w \in 1 .. Words |-> s]

\* Shocks reach the application in order and no shock reaches it twice.
DeliveredOnce ==
  [][handler = "store" /\ handler' = "toPolling" /\ ~rd["main"].error
       => delivered' > delivered]_vars

\* dev->mode is one for all callers: every read of a thread still runs in the
\* mode that thread asked for.
ReadInRequestedMode ==
  /\ rd["main"].pc # "user" => mode = "buffer"
  /\ rd["poll"].pc # "user" => mode = "polling"

\* The handler interrupted the main thread in getEventQueue and waits for the
\* mutex that thread holds.
Stuck == handler = "store" /\ main = "inEvents"

\* The buffer that a shock disabled is enabled again, unless the application
\* is not running, its handler gave up early, or it waits for itself.
EnabledAgain ==
  state = "Idle" ~> state # "Idle" \/ main = "dead" \/ failed \/ Stuck

\* "Mark interrupts as handled, when the entire buffer was read."
HandledWhenRead ==
  [][irqsActive = 1 /\ irqsActive' = 0
       => \E t \in Thread : rd[t].pc = "clearActive"]_vars

=============================================================================
