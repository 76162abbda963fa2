----------------------------- MODULE MpuDriver -----------------------------
(***************************************************************************)
(* The Linux driver of the MPU9250 core, drivers/mpu9250/mpu9250.c, on top *)
(* of the event buffer of the hardware.  Its interrupt handler, read and   *)
(* ioctl share one struct data without a lock, so every access to it and   *)
(* to the hardware is a step of its own.                                   *)
(*                                                                         *)
(* Abstraction.  A word of a window is the number of its shock, 0 for      *)
(* anything else.  The Words words of a window stand for the 1024 samples; *)
(* a caller's fread becomes two calls of read, as the comment in           *)
(* read_buffer_data explains, which copy the words up to Split and the     *)
(* rest.  copy_to_user never fails.                                        *)
(***************************************************************************)
EXTENDS EventBuffer

CONSTANTS
  Thread,      \* threads that call the driver
  Split,       \* words copied by the first of the two read calls
  NoPid,       \* dev->pid before any IOC_CMD_SET_PID
  MaxShock,    \* bound: shocks in a behaviour
  MaxForeign   \* bound: interrupts of other devices on the shared line

ASSUME SplitAssumption == Split \in 1 .. Words - 1
ASSUME ShockAssumption == MaxShock \in Nat /\ Shock = 0 .. MaxShock
ASSUME ForeignAssumption == MaxForeign \in Nat

VARIABLES
  mode,          \* dev->mode: polling or buffer, one for all callers
  pid,           \* dev->pid, the process to signal
  irqsActive,    \* dev->irqs_active
  bufAvailable,  \* dev->buf_data_available
  kbuf,          \* dev->buffer_data
  irqPc,         \* where the interrupt handler is
  foreign,       \* interrupts of other devices so far
  rd             \* the read calls in progress, by thread

driverVars == <<mode, pid, irqsActive, bufAvailable, kbuf, irqPc, foreign, rd>>

Word == Shock                  \* 0 for a word that is not of a sealed window
Status == {"idle", "enabled", "available", "enabled+available"}

\* pc    where the call is; "user" while the thread is not in read
\* off   *offp: words of the buffer copied since the opening
\* i     words fetched from the hardware
\* buf   the memory of the caller
\* kind  what the last call returned
\* error whether a printk(KERN_ERR) accompanied the calls since the opening
Call == [pc : {"user", "dispatch", "status", "check", "fetch", "copy",
               "clearActive", "clearAvailable", "enable"},
         off : 0 .. Words, i : 0 .. Words, buf : [1 .. Words -> Word],
         kind : {"none", "polling", "buffer"}, error : BOOLEAN]

NoCall == [pc |-> "user", off |-> 0, i |-> 0, buf |-> [w \in 1 .. Words |-> 0],
           kind |-> "none", error |-> FALSE]

DriverTypeOK ==
  /\ BufferTypeOK
  /\ mode \in {"polling", "buffer"}
  /\ irqsActive \in {0, 1}
  /\ bufAvailable \in Status
  /\ kbuf \in [1 .. Words -> Word]
  /\ irqPc \in {"idle", "entered", "clear", "signal"}
  /\ foreign \in 0 .. MaxForeign
  /\ rd \in [Thread -> Call]

\* The driver once dev_probe returned: interrupts are on and the buffer enabled.
DriverInit ==
  /\ state = "WaitShock" /\ avail = FALSE /\ int = FALSE /\ intEn = TRUE
  /\ capture = "none" /\ shock = 0 /\ taken = 0
  /\ mode = "polling" /\ pid = NoPid
  /\ irqsActive = 0 /\ bufAvailable = "idle" /\ kbuf = [w \in 1 .. Words |-> 0]
  /\ irqPc = "idle" /\ foreign = 0
  /\ rd = [t \in Thread |-> NoCall]

-----------------------------------------------------------------------------
(* The hardware.  An access of the driver may fall into the clock cycle of *)
(* a move of the recorder; shocks are numbered.                            *)

Bus(op, move) ==
  /\ Step(op, move)
  /\ move = "Detect" => shock' = shock + 1

Access(op) == \E move \in Move : Bus(op, move)

Detect   == Bus("None", "Detect") /\ UNCHANGED driverVars
Complete == Bus("None", "Complete") /\ UNCHANGED driverVars

-----------------------------------------------------------------------------
(* irq_handler.                                                            *)

IrqEnter ==
  /\ irqPc = "idle" /\ int /\ intEn
  /\ irqPc' = "entered"
  /\ UNCHANGED <<mode, pid, irqsActive, bufAvailable, kbuf, foreign, rd, bufferVars>>

\* The line is shared: the handler runs for interrupts of other devices too.
IrqForeign ==
  /\ irqPc = "idle" /\ foreign < MaxForeign
  /\ irqPc' = "entered" /\ foreign' = foreign + 1
  /\ UNCHANGED <<mode, pid, irqsActive, bufAvailable, kbuf, rd, bufferVars>>

\* irqs_active takes the status register, also when the interrupt is not ours.
IrqReadStatus ==
  /\ irqPc = "entered"
  /\ irqsActive' = (IF int THEN 1 ELSE 0)
  /\ irqPc' = (IF int THEN "clear" ELSE "idle")
  /\ UNCHANGED <<mode, pid, bufAvailable, kbuf, foreign, rd, bufferVars>>

IrqClear ==
  /\ irqPc = "clear"
  /\ Access("ClearInt")
  /\ irqPc' = "signal"
  /\ UNCHANGED <<mode, pid, irqsActive, bufAvailable, kbuf, foreign, rd>>

\* The task with the registered pid gets the signal, if it exists: the module of
\* the application adds what that does to it.
IrqSignal ==
  /\ irqPc = "signal"
  /\ irqPc' = "idle"
  /\ UNCHANGED <<mode, pid, irqsActive, bufAvailable, kbuf, foreign, rd, bufferVars>>

-----------------------------------------------------------------------------
(* dev_ioctl and the opening of the device.                                *)

SetMode(m) ==
  /\ mode' = m
  /\ UNCHANGED <<pid, irqsActive, bufAvailable, kbuf, irqPc, foreign, rd, bufferVars>>

\* IOC_CMD_SET_PID also enables the buffer.
SetPid(p) ==
  /\ pid' = p
  /\ Access("Enable")
  /\ UNCHANGED <<mode, irqsActive, bufAvailable, kbuf, irqPc, foreign, rd>>

Goto(t, next) == rd' = [rd EXCEPT ![t].pc = next]

\* A freshly opened device is read from offset 0.
Open(t) ==
  /\ rd' = [rd EXCEPT ![t] = NoCall]
  /\ UNCHANGED <<mode, pid, irqsActive, bufAvailable, kbuf, irqPc, foreign, bufferVars>>

ReadCall(t) ==
  /\ rd[t].pc = "user"
  /\ Goto(t, "dispatch")
  /\ UNCHANGED <<mode, pid, irqsActive, bufAvailable, kbuf, irqPc, foreign, bufferVars>>

-----------------------------------------------------------------------------
(* dev_read, read_polling_data and read_buffer_data.                       *)

\* The polling data is smaller than any offset a buffer read leaves behind:
\* a continued read in polling mode finds the end of the file.
DevRead(t) ==
  /\ rd[t].pc = "dispatch"
  /\ rd' = CASE mode = "polling" -> [rd EXCEPT ![t].pc = "user", ![t].kind = "polling"]
             [] mode = "buffer" /\ rd[t].off = 0 -> [rd EXCEPT ![t].pc = "status"]
             [] mode = "buffer" /\ rd[t].off # 0 -> [rd EXCEPT ![t].pc = "copy"]
  /\ UNCHANGED <<mode, pid, irqsActive, bufAvailable, kbuf, irqPc, foreign, bufferVars>>

ReadStatus(t) ==
  /\ rd[t].pc = "status"
  /\ bufAvailable' = CASE state # "Idle" /\ avail  -> "enabled+available"
                       [] state # "Idle" /\ ~avail -> "enabled"
                       [] state = "Idle" /\ avail  -> "available"
                       [] state = "Idle" /\ ~avail -> "idle"
  /\ Goto(t, "check")
  /\ UNCHANGED <<mode, pid, irqsActive, kbuf, irqPc, foreign, bufferVars>>

CheckInterruptOnly(t) ==         \* mutant of Check: the status is not looked at
  /\ rd[t].pc = "check"
  /\ rd' = [rd EXCEPT ![t].pc = IF irqsActive = 1 THEN "fetch" ELSE "copy",
                      ![t].i = 0, ![t].error = rd[t].error \/ irqsActive # 1]
  /\ UNCHANGED <<mode, pid, irqsActive, bufAvailable, kbuf, irqPc, foreign, bufferVars>>

\* The hardware is read only for an interrupt that is active and a buffer that
\* is ready; the copy below follows in any case.
Check(t) ==
  LET ready == irqsActive = 1 /\ bufAvailable = "available"
  IN /\ rd[t].pc = "check"
     /\ rd' = [rd EXCEPT ![t].pc = IF ready THEN "fetch" ELSE "copy",
                         ![t].i = 0, ![t].error = rd[t].error \/ ~ready]
     /\ UNCHANGED <<mode, pid, irqsActive, bufAvailable, kbuf, irqPc, foreign, bufferVars>>

FetchTooFar(t) ==                \* mutant of Fetch: the loop runs once too often
  /\ rd[t].pc = "fetch"
  /\ Access("Read")
  /\ rd' = [rd EXCEPT ![t].i = rd[t].i + 1,
                      ![t].pc = IF rd[t].i = Words THEN "copy" ELSE "fetch"]
  /\ UNCHANGED <<mode, pid, irqsActive, bufAvailable, kbuf, irqPc, foreign>>

Fetch(t) ==
  /\ rd[t].pc = "fetch"
  /\ Access("Read")
  /\ LET n == rd[t].i + 1
     IN /\ kbuf' = [kbuf EXCEPT ![n] =
                      IF avail /\ capture = "sealed" /\ taken = rd[t].i THEN shock ELSE 0]
        /\ rd' = [rd EXCEPT ![t].i = n, ![t].pc = IF n = Words THEN "copy" ELSE "fetch"]
  /\ UNCHANGED <<mode, pid, irqsActive, bufAvailable, irqPc, foreign>>

Copy(t) ==
  LET end == IF rd[t].off = 0 THEN Split ELSE Words
  IN /\ rd[t].pc = "copy"
     /\ rd' = [rd EXCEPT ![t].buf = [w \in 1 .. Words |->
                            IF w > rd[t].off /\ w <= end THEN kbuf[w] ELSE rd[t].buf[w]],
                         ![t].off = end, ![t].kind = "buffer",
                         ![t].pc = IF end = Words THEN "clearActive" ELSE "user"]
     /\ UNCHANGED <<mode, pid, irqsActive, bufAvailable, kbuf, irqPc, foreign, bufferVars>>

ClearActive(t) ==
  /\ rd[t].pc = "clearActive"
  /\ irqsActive' = 0 /\ Goto(t, "clearAvailable")
  /\ UNCHANGED <<mode, pid, bufAvailable, kbuf, irqPc, foreign, bufferVars>>

ClearAvailable(t) ==
  /\ rd[t].pc = "clearAvailable"
  /\ bufAvailable' = "idle" /\ Goto(t, "enable")
  /\ UNCHANGED <<mode, pid, irqsActive, kbuf, irqPc, foreign, bufferVars>>

EnableAgainNot(t) ==             \* mutant of EnableAgain: the write is missing
  /\ rd[t].pc = "enable" /\ Goto(t, "user")
  /\ UNCHANGED <<mode, pid, irqsActive, bufAvailable, kbuf, irqPc, foreign, bufferVars>>

EnableAgain(t) ==
  /\ rd[t].pc = "enable"
  /\ Access("Enable") /\ Goto(t, "user")
  /\ UNCHANGED <<mode, pid, irqsActive, bufAvailable, kbuf, irqPc, foreign>>

ReadStep(t) ==
  \/ DevRead(t) \/ ReadStatus(t) \/ Check(t) \/ Fetch(t)
  \/ Copy(t) \/ ClearActive(t) \/ ClearAvailable(t) \/ EnableAgain(t)

=============================================================================
