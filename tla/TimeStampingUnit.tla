-------------------------- MODULE TimeStampingUnit --------------------------
(***************************************************************************)
(* TimeStampingUnit of user/event_sensors: the first caller ties the       *)
(* milliseconds the FPGA counts to the time of the system, everybody after *)
(* it computes with this calibration.                                      *)
(*                                                                         *)
(* The threads of the HDC1000 and the APDS9301 resolve in doPoll, under    *)
(* fpgaMutex.  The timestamps of the MPU9250 are resolved by toJsonString, *)
(* when the main thread publishes them, without any lock.  Each access to  *)
(* one of the two optionals is a step of its own.                          *)
(***************************************************************************)
EXTENDS Integers, FiniteSets

CONSTANTS
  Locked,     \* threads that resolve under fpgaMutex
  Free,       \* threads that resolve without it
  NarrowOnes, \* threads that pass the lower word only: the HDC1000's
  Narrow,     \* values of the lower word: 2^32
  Modulus,    \* values of uint64_t: 2^64
  MaxNow      \* bound: time passed

ASSUME ThreadsAssumption ==
  Locked \cap Free = {} /\ NarrowOnes \subseteq Locked /\ "nobody" \notin Locked \cup Free
ASSUME FreeAssumption == IsFiniteSet(Free)  \* a process has finitely many threads
ASSUME WidthAssumption ==
  {Narrow, Modulus, MaxNow} \subseteq Nat \ {0} /\ Narrow <= Modulus /\ MaxNow < Modulus

Thread == Locked \cup Free
Nobody == "nobody"
Unset == -1  \* a std::optional without a value
Time == 0 .. Modulus - 1

VARIABLES
  now,          \* milliseconds since the epoch
  boot,         \* when the FPGA was configured last: its counters start at 0
  calHw,        \* calibrationHwTimestamp
  calMs,        \* calibrationMsSinceEpoch
  pc,           \* per thread: idle, check, setHw, setMs, subtract or add
  stamp,        \* per thread: when the sample was taken, in milliseconds since boot
  diff,         \* per thread: hwTimeStamp - calibrationHwTimestamp
  mutex,        \* holder of fpgaMutex
  diedBy,       \* the thread whose access to an empty optional ended the process
  calibrations, \* how often the calibration was set
  skew,         \* by how much the results were ahead of the stamps
  spoiled       \* the FPGA was reconfigured, or a stamp lost bits it had

vars == <<now, boot, calHw, calMs, pc, stamp, diff, mutex, diedBy, calibrations, skew, spoiled>>
history == <<calibrations, skew>>

TypeOK ==
  /\ now \in 0 .. MaxNow /\ boot \in 0 .. now
  /\ {calHw, calMs} \subseteq Time \cup {Unset}
  /\ pc \in [Thread -> {"idle", "check", "setHw", "setMs", "subtract", "add"}]
  /\ stamp \in [Thread -> Time] /\ diff \in [Thread -> Time]
  /\ mutex \in Locked \cup {Nobody} /\ diedBy \in Thread \cup {Nobody}
  /\ calibrations \in Nat /\ skew \subseteq Time /\ spoiled \in BOOLEAN

Init ==
  /\ now = 0 /\ boot = 0
  /\ calHw = Unset /\ calMs = Unset
  /\ pc = [t \in Thread |-> "idle"]
  /\ stamp = [t \in Thread |-> 0] /\ diff = [t \in Thread |-> 0]
  /\ mutex = Nobody /\ diedBy = Nobody
  /\ calibrations = 0 /\ skew = {} /\ spoiled = FALSE

HwTimeStamp(t) == IF t \in NarrowOnes THEN stamp[t] % Narrow ELSE stamp[t]

At(t, from, to) == diedBy = Nobody /\ pc[t] = from /\ pc' = [pc EXCEPT ![t] = to]

\* A sample taken some time since the FPGA was configured.
CallLockless(t) ==               \* mutant of Call: nobody takes the lock
  /\ At(t, "idle", "check")
  /\ \E s \in 0 .. now - boot :
       /\ stamp' = [stamp EXCEPT ![t] = s]
       /\ spoiled' = (spoiled \/ (t \in NarrowOnes /\ s >= Narrow))
  /\ UNCHANGED <<now, boot, calHw, calMs, diff, mutex, diedBy, history>>

Call(t) ==
  /\ At(t, "idle", "check")
  /\ \E s \in 0 .. now - boot :
       /\ stamp' = [stamp EXCEPT ![t] = s]
       /\ spoiled' = (spoiled \/ (t \in NarrowOnes /\ s >= Narrow))
  /\ \/ t \in Locked /\ mutex = Nobody /\ mutex' = t
     \/ t \in Free /\ UNCHANGED mutex
  /\ UNCHANGED <<now, boot, calHw, calMs, diff, diedBy, history>>

CheckNot(t) ==                   \* mutant of Check: calibrates every time
  /\ At(t, "check", "setHw")
  /\ UNCHANGED <<now, boot, calHw, calMs, stamp, diff, mutex, diedBy, history, spoiled>>

Check(t) ==
  /\ At(t, "check", IF calHw = Unset THEN "setHw" ELSE "subtract")
  /\ UNCHANGED <<now, boot, calHw, calMs, stamp, diff, mutex, diedBy, history, spoiled>>

SetHw(t) ==
  /\ At(t, "setHw", "setMs")
  /\ calHw' = HwTimeStamp(t) /\ calibrations' = calibrations + 1
  /\ UNCHANGED <<now, boot, calMs, stamp, diff, mutex, diedBy, skew, spoiled>>

SetMs(t) ==
  /\ At(t, "setMs", "subtract")
  /\ calMs' = now
  /\ UNCHANGED <<now, boot, calHw, stamp, diff, mutex, diedBy, history, spoiled>>

SubtractSaturates(t) ==          \* mutant of Subtract: no negative differences
  /\ At(t, "subtract", "add")
  /\ diff' = [diff EXCEPT ![t] = IF HwTimeStamp(t) < calHw THEN 0 ELSE HwTimeStamp(t) - calHw]
  /\ UNCHANGED <<now, boot, calHw, calMs, stamp, mutex, diedBy, history, spoiled>>

SubtractSigned(t) ==             \* mutant of Subtract: the difference does not wrap
  /\ At(t, "subtract", "add")
  /\ diff' = [diff EXCEPT ![t] = HwTimeStamp(t) - calHw]
  /\ UNCHANGED <<now, boot, calHw, calMs, stamp, mutex, diedBy, history, spoiled>>

\* A sample older than the calibration: the difference wraps, the sum wraps back.
Subtract(t) ==
  /\ At(t, "subtract", "add")
  /\ diff' = [diff EXCEPT ![t] = (HwTimeStamp(t) - calHw) % Modulus]
  /\ UNCHANGED <<now, boot, calHw, calMs, stamp, mutex, diedBy, history, spoiled>>

\* value() of an empty optional throws, nobody catches it, and the process ends.
Add(t) ==
  /\ At(t, "add", "idle")
  /\ mutex' = (IF t \in Locked THEN Nobody ELSE mutex)
  /\ \/ /\ calMs = Unset /\ diedBy' = t
        /\ UNCHANGED skew
     \/ /\ calMs # Unset /\ UNCHANGED diedBy
        /\ skew' = skew \cup {(((diff[t] + calMs) % Modulus) - stamp[t]) % Modulus}
  /\ stamp' = [stamp EXCEPT ![t] = 0] /\ diff' = [diff EXCEPT ![t] = 0]
  /\ UNCHANGED <<now, boot, calHw, calMs, calibrations, spoiled>>

Tick ==
  /\ diedBy = Nobody /\ now < MaxNow /\ now' = now + 1
  /\ UNCHANGED <<boot, calHw, calMs, pc, stamp, diff, mutex, diedBy, history, spoiled>>

\* A reconfiguration resets the counters of the FPGA, not the calibration.
Reconfigure ==
  /\ diedBy = Nobody /\ mutex = Nobody
  /\ boot' = now /\ spoiled' = TRUE
  /\ UNCHANGED <<now, calHw, calMs, pc, stamp, diff, mutex, diedBy, history>>

Next ==
  \/ \E t \in Thread : Call(t) \/ Check(t) \/ SetHw(t) \/ SetMs(t) \/ Subtract(t) \/ Add(t)
  \/ Tick \/ Reconfigure

Spec == Init /\ [][Next]_vars

-----------------------------------------------------------------------------
(* Properties.                                                             *)

\* All timestamps are on one clock: as long as only one thread calibrated, all
\* results, of old samples and of new ones, are ahead of the hardware's time by the
\* same amount.  Two threads that calibrate at once, a reconfiguration, and an
\* HDC1000 stamp of more than 32 bits each end this.
OneClock == calibrations <= 1 /\ ~spoiled => Cardinality(skew) <= 1

\* The calibration is set once: of the threads that hold fpgaMutex only one ever sets
\* it, and only a thread without the lock can set it again, itself at most once.
CalibratedOnce == calibrations <= 1 + Cardinality(Free)

\* The process ends with an empty optional only if a thread that does not hold
\* fpgaMutex met another one between the two halves of the calibration.
OnlyUnlockedThrow ==
  diedBy # Nobody =>
    \E t \in Thread \ {diedBy} : pc[t] = "setMs" /\ {t, diedBy} \cap Free # {}

=============================================================================
