------------------------- MODULE ShockPath_proofs --------------------------
(***************************************************************************)
(* The path of a shock delivers whole windows of one shock each, in order  *)
(* and none twice: for windows of every size, every place at which a       *)
(* window is cut into two reads, and any number of shocks, of interrupts   *)
(* of other devices, of restarts of the application and of failed calls.   *)
(***************************************************************************)
EXTENDS ShockPath, Integers, TLAPS

USE WordsAssumption, SplitAssumption, ShockAssumption, ForeignAssumption,
    BoundsAssumption, ThreadAssumption
DEF WordsAssumption, SplitAssumption, ShockAssumption, ForeignAssumption,
    BoundsAssumption, ThreadAssumption

-----------------------------------------------------------------------------
(* The inductive invariant.                                                *)

Reader == rd["main"]
Inside == {"open", "toBuffer", "read", "reading", "store", "toPolling"}
Polling == {"toPolling", "read", "reading"}

\* The two threads hold the lock exactly while they are inside the device.
LockInv ==
  /\ lock = "main" <=> handler \in Inside
  /\ lock = "poll" <=> poll \in Polling
  /\ handler # "none" => main \in {"run", "inEvents"}
  /\ main \in {"dead", "setPid", "sigaction"} => poll = "none"

\* Between its ioctl and its last read a thread finds the mode it asked for.
ModeInv ==
  /\ handler \in {"read", "reading", "store"} => mode = "buffer"
  /\ poll \in {"read", "reading"} => mode = "polling"
  /\ Reader.pc # "user" => handler = "reading"
  /\ rd["poll"].pc # "user" => poll = "reading" /\ rd["poll"].pc = "dispatch"

\* A window that was not read yet, complete or not.
Unread == capture = "open" \/ (capture = "sealed" /\ avail)

\* As nobody reads while a shock is recorded, the state of the recorder says what
\* is in the buffer.
BufferInv ==
  /\ state = "WaitShock" <=> capture = "none"
  /\ state = "RecShock" <=> capture = "open"
  /\ capture # "none" => shock > 0
  /\ capture # "sealed" => taken = 0
  /\ capture = "sealed" => (avail <=> taken < Words)
  /\ delivered <= shock
  /\ Unread => delivered < shock

\* A call of read goes forward in the window: the first one up to Split, the second
\* one to the end.
OffsetInv ==
  /\ Reader.off \in {0, Split, Words}
  /\ handler = "toBuffer" => Reader.off = 0
  /\ handler = "store" => Reader.off = Words
  /\ handler = "read" \/ Reader.pc = "dispatch" => Reader.off # Words
  /\ Reader.pc \in {"status", "check", "fetch"} => Reader.off = 0
  /\ Reader.pc = "copy" => Reader.off # Words
  /\ Reader.pc \in {"clearActive", "clearAvailable", "enable"} => Reader.off = Words

\* The words are fetched from a sealed window, from its first word on.
FetchInv ==
  /\ Reader.pc = "check" /\ bufAvailable = "available" => state = "Idle" /\ avail
  /\ Reader.pc = "fetch" =>
       /\ capture = "sealed" /\ taken = Reader.i /\ Reader.i < Words
       /\ \A w \in 1 .. Reader.i : kbuf[w] = shock
  /\ Reader.pc # "fetch" => taken \in {0, Words}

\* What was fetched without an error message is the window of one shock, which is
\* newer than the one delivered last and older than one not read yet.
Holds(s) ==
  /\ delivered < s /\ (Unread => s < shock)
  /\ Reader.off # Words => kbuf = [w \in 1 .. Words |-> s]
  /\ \A w \in 1 .. Reader.off : Reader.buf[w] = s

ReadInv ==
  /\ handler \in {"read", "reading", "store"} /\ ~Reader.error
  /\ Reader.off # 0 \/ Reader.pc = "copy"
  => \E s \in 1 .. shock : Holds(s)

Inv ==
  /\ TypeOK /\ LockInv /\ ModeInv /\ BufferInv /\ OffsetInv /\ FetchInv /\ ReadInv
  /\ WholeEvents

LEMMA InitInv == Init => Inv
<1> SUFFICES ASSUME Init PROVE Inv
  OBVIOUS
<1> USE DEF Init, DriverInit
<1>1. NoCall \in Call
  BY DEF NoCall, Call, Word
<1>2. TypeOK
  <2>1. DriverTypeOK
    <3>1. BufferTypeOK
      <4>1. {avail, int, intEn} \subseteq BOOLEAN
        OBVIOUS
      <4> QED BY <4>1 DEF BufferTypeOK
    <3>2. rd \in [Thread -> Call] /\ kbuf \in [1 .. Words -> Word]
      BY <1>1 DEF Word
    <3> QED BY <3>1, <3>2 DEF DriverTypeOK, Status
  <2>2. NoEvent \in [words : [1 .. Words -> Word], error : BOOLEAN, happened : BOOLEAN]
    BY DEF NoEvent, Word
  <2>3. pid \in 0 .. MaxStarts /\ starts \in 0 .. MaxStarts /\ faults \in 0 .. MaxFaults
    OBVIOUS
  <2>4. delivered \in Shock
    OBVIOUS
  <2>5. event \in [words : [1 .. Words -> Word], error : BOOLEAN, happened : BOOLEAN]
    BY <2>2
  <2> QED BY <2>1, <2>3, <2>4, <2>5 DEF TypeOK
<1>3. LockInv
  BY DEF LockInv, Inside, Polling
<1>4. Reader = NoCall /\ rd["poll"] = NoCall
  BY DEF Reader
<1>5. ModeInv
  BY <1>4 DEF ModeInv, NoCall
<1>6. BufferInv
  BY DEF BufferInv, Unread
<1>7. OffsetInv
  BY <1>4 DEF OffsetInv, NoCall
<1>8. FetchInv
  BY <1>4 DEF FetchInv, NoCall
<1>9. ReadInv
  BY <1>4 DEF ReadInv, NoCall
<1>10. WholeEvents
  BY DEF WholeEvents, NoEvent
<1> QED BY <1>2, <1>3, <1>5, <1>6, <1>7, <1>8, <1>9, <1>10 DEF Inv

-----------------------------------------------------------------------------
(* What an operation of the driver does to the buffer.                     *)

Kept      == UNCHANGED <<state, avail, capture, shock, taken>>
Detected  == /\ state = "WaitShock" /\ state' = "RecShock" /\ capture' = "open"
             /\ shock' = shock + 1 /\ taken' = 0 /\ avail' = avail
Completed == /\ state = "RecShock" /\ state' = "Idle" /\ capture' = "sealed"
             /\ shock' = shock /\ taken' = 0 /\ avail' = TRUE
Armed     == /\ state' = "WaitShock" /\ capture' = "none" /\ taken' = 0
             /\ shock' \in {shock, shock + 1}

\* Whatever else the driver writes, the recorder does one of its own moves.
LEMMA MoveEffect ==
  ASSUME BufferTypeOK, BufferInv, NEW op \in {"None", "ClearInt"}, NEW move \in Move,
         Bus(op, move)
  PROVE  BufferTypeOK' /\ (Kept \/ Detected \/ Completed)
<1> USE DEF Bus, Step, MayMove, NextCapture, NextTaken, AvailAfter, Disturbs, BufferTypeOK
<1>1. {int, intEn}' \subseteq BOOLEAN
  OBVIOUS
<1>2. CASE move = "None"
  BY <1>2, <1>1 DEF Kept, BufferInv
<1>3. CASE move = "Detect"
  BY <1>3, <1>1 DEF Detected, BufferInv
<1>4. CASE move = "Complete"
  BY <1>4, <1>1 DEF Completed, BufferInv
<1> QED BY <1>2, <1>3, <1>4 DEF Move

\* Enabling the buffer wins over the recorder.
LEMMA EnableEffect ==
  ASSUME BufferTypeOK, Access("Enable")
  PROVE  BufferTypeOK' /\ Armed
<1> USE DEF Bus, Step, MayMove, NextCapture, NextTaken, AvailAfter, Disturbs, BufferTypeOK
<1>1. PICK move \in Move : Bus("Enable", move)
  BY DEF Access
<1>2. {int, intEn, avail}' \subseteq BOOLEAN
  BY <1>1
<1>3. shock' \in Shock /\ shock' \in {shock, shock + 1}
  BY <1>1
<1> QED BY <1>1, <1>2, <1>3 DEF Armed

\* Nothing moves while a sealed window is read: a read takes its next word.
LEMMA ReadEffect ==
  ASSUME BufferTypeOK, BufferInv, capture = "sealed", taken < Words, Access("Read")
  PROVE  /\ BufferTypeOK' /\ UNCHANGED <<state, capture, shock>>
         /\ avail /\ taken' = taken + 1 /\ (avail' <=> taken' < Words)
<1> USE DEF Bus, Step, MayMove, NextCapture, NextTaken, AvailAfter, Disturbs, BufferTypeOK
<1>1. PICK move \in Move : Bus("Read", move)
  BY DEF Access
<1>2. state = "Idle" /\ avail
  BY DEF BufferInv
<1>3. move = "None"
  BY <1>1, <1>2 DEF Move
<1>4. {int, intEn}' \subseteq BOOLEAN
  BY <1>1
<1>5. UNCHANGED <<state, capture, shock>> /\ taken' = taken + 1
  BY <1>1, <1>2, <1>3
<1>6. avail' = (avail /\ taken + 1 < Words)
  BY <1>1, <1>2, <1>3
<1>7. taken' \in 0 .. Words
  BY <1>5
<1>8. avail' <=> taken' < Words
  BY <1>2, <1>5, <1>6
<1>9. BufferTypeOK'
  <2>1. {avail, int, intEn}' \subseteq BOOLEAN
    BY <1>4, <1>6
  <2> QED BY <1>5, <1>7, <2>1
<1> QED BY <1>2, <1>5, <1>8, <1>9

-----------------------------------------------------------------------------
(* Types.  That the words fetched fit into the window is part of FetchInv, *)
(* so the types alone are not inductive.                                   *)

\* A call of read that moves on is a call of read.
LEMMA CallType ==
  ASSUME DriverTypeOK, NEW t \in Thread, NEW c \in Call, rd' = [rd EXCEPT ![t] = c]
  PROVE  rd' \in [Thread -> Call]
BY DEF DriverTypeOK

\* The interrupt handler and the recorder keep the types.
LEMMA InterruptType ==
  ASSUME Inv, HardwareStep \/ IrqStep \/ ForeignInterrupt
  PROVE  /\ BufferTypeOK' /\ (Kept \/ Detected \/ Completed)
         /\ UNCHANGED <<mode, pid, bufAvailable, kbuf, rd, main, handler, poll, lock,
                        starts, faults, failed, event, delivered>>
         /\ irqsActive' \in {0, 1} /\ foreign' \in 0 .. MaxForeign
         /\ irqPc' \in {"idle", "entered", "clear", "signal"}
         /\ sigPending' \in BOOLEAN
<1> USE DEF appVars, driverVars
<1>1. BufferTypeOK /\ BufferInv /\ irqsActive \in {0, 1} /\ foreign \in 0 .. MaxForeign
      /\ irqPc \in {"idle", "entered", "clear", "signal"} /\ sigPending \in BOOLEAN
  BY DEF Inv, TypeOK, DriverTypeOK
<1>2. ASSUME UNCHANGED bufferVars
      PROVE  BufferTypeOK' /\ Kept
  BY <1>1, <1>2 DEF bufferVars, BufferTypeOK, Kept
<1>3. CASE HardwareStep
  <2>1. PICK move \in Move : Bus("None", move)
    BY <1>3 DEF HardwareStep, Detect, Complete, Move
  <2>2. BufferTypeOK' /\ (Kept \/ Detected \/ Completed)
    BY <1>1, <2>1, MoveEffect
  <2> QED BY <1>1, <1>3, <2>2 DEF HardwareStep, Detect, Complete
<1>4. CASE (IrqEnter \/ IrqReadStatus) /\ UNCHANGED appVars
  BY <1>1, <1>2, <1>4 DEF IrqEnter, IrqReadStatus, bufferVars
<1>5. CASE IrqClear /\ UNCHANGED appVars
  <2>1. PICK move \in Move : Bus("ClearInt", move)
    BY <1>5 DEF IrqClear, Access
  <2>2. BufferTypeOK' /\ (Kept \/ Detected \/ Completed)
    BY <1>1, <2>1, MoveEffect
  <2> QED BY <1>1, <1>5, <2>2 DEF IrqClear
<1>6. CASE IrqSignal /\ SendSignal
  <2>1. sigPending' \in BOOLEAN
    BY <1>1, <1>6 DEF SendSignal
  <2> QED BY <1>1, <1>2, <1>6, <2>1 DEF IrqSignal, SendSignal
<1>7. CASE ForeignInterrupt
  BY <1>1, <1>2, <1>7 DEF ForeignInterrupt, IrqForeign
<1> QED BY <1>3, <1>4, <1>5, <1>6, <1>7 DEF IrqStep

\* A read of the polling thread ends where it is dispatched: the mode is still
\* the one that thread set.
LEMMA PollingRead ==
  ASSUME Inv, ReadStep("poll")
  PROVE  /\ rd["poll"].pc = "dispatch" /\ mode = "polling"
         /\ rd' = [rd EXCEPT !["poll"] = [rd["poll"] EXCEPT !.pc = "user", !.kind = "polling"]]
         /\ UNCHANGED <<mode, pid, irqsActive, bufAvailable, kbuf, irqPc, foreign, bufferVars>>
<1>1. rd["poll"].pc # "user" => rd["poll"].pc = "dispatch" /\ mode = "polling"
  BY DEF Inv, ModeInv
<1>2. DevRead("poll") /\ rd["poll"].pc = "dispatch" /\ mode = "polling"
  BY <1>1 DEF ReadStep, DevRead, ReadStatus, Check, Fetch, Copy, ClearActive, ClearAvailable,
       EnableAgain
<1>3. rd' = [rd EXCEPT !["poll"].pc = "user", !["poll"].kind = "polling"]
  BY <1>2 DEF DevRead
<1>4. rd \in [Thread -> Call]
  BY DEF Inv, TypeOK, DriverTypeOK
<1>5. rd' = [rd EXCEPT !["poll"] = [rd["poll"] EXCEPT !.pc = "user", !.kind = "polling"]]
  BY <1>3, <1>4 DEF Call
<1> QED BY <1>2, <1>5 DEF DevRead


\* So it leaves the polling data behind and nothing else.
LEMMA PollingReadType ==
  ASSUME Inv, ReadStep("poll")
  PROVE  rd' \in [Thread -> Call] /\ Reader' = Reader /\ rd'["poll"].pc = "user"
<1>1. rd \in [Thread -> Call]
  BY DEF Inv, TypeOK, DriverTypeOK
<1>2. [rd["poll"] EXCEPT !.pc = "user", !.kind = "polling"] \in Call
  <2>1. PICK c \in Call : c = rd["poll"]
    BY <1>1
  <2>2. [c EXCEPT !.pc = "user", !.kind = "polling"] \in Call
    BY DEF Call
  <2> QED BY <2>1, <2>2
<1>3. [rd["poll"] EXCEPT !.pc = "user", !.kind = "polling"].pc = "user"
  BY <1>1 DEF Call
<1> QED BY <1>1, <1>2, <1>3, PollingRead DEF Reader

\* The reader of a window, by the step of its call.
ReaderGoes(c) == rd' = [rd EXCEPT !["main"] = c]

LEMMA ReaderIs ==
  ASSUME Inv, NEW c \in Call, ReaderGoes(c)
  PROVE  Reader' = c /\ rd'["poll"] = rd["poll"] /\ rd' \in [Thread -> Call]
BY DEF Inv, TypeOK, DriverTypeOK, ReaderGoes, Reader

LEMMA ReaderType ==
  ASSUME Inv
  PROVE  /\ Reader \in Call
         /\ \A next \in {"user", "dispatch", "status", "check", "fetch", "copy",
                         "clearActive", "clearAvailable", "enable"} :
              /\ [Reader EXCEPT !.pc = next] \in Call
              /\ Goto("main", next) => ReaderGoes([Reader EXCEPT !.pc = next])
<1>1. rd \in [Thread -> Call] /\ Reader \in Call
  BY DEF Inv, TypeOK, DriverTypeOK, Reader
<1> QED BY <1>1 DEF Reader, Call, Goto, ReaderGoes

\* While the handler reads, the mode is its mode and the polling thread is out of
\* the device.
LEMMA Alone ==
  ASSUME Inv, Reader.pc # "user"
  PROVE  handler = "reading" /\ mode = "buffer" /\ rd["poll"].pc = "user"
BY DEF Inv, ModeInv, LockInv, Inside, Polling

\* The words of a window are all there is to copy: what Copy makes of the caller's
\* memory is a call again.
CopyEnd == IF Reader.off = 0 THEN Split ELSE Words
Copied ==
  [Reader EXCEPT !.buf = [w \in 1 .. Words |->
                            IF w > Reader.off /\ w <= CopyEnd THEN kbuf[w] ELSE Reader.buf[w]],
                 !.off = CopyEnd, !.kind = "buffer",
                 !.pc = IF CopyEnd = Words THEN "clearActive" ELSE "user"]

LEMMA CopyEffect ==
  ASSUME Inv, Copy("main")
  PROVE  Copied \in Call /\ ReaderGoes(Copied)
<1>1. rd \in [Thread -> Call] /\ Reader \in Call /\ kbuf \in [1 .. Words -> Word]
  BY DEF Inv, TypeOK, DriverTypeOK, Reader
<1>2. CopyEnd \in 0 .. Words
  BY DEF CopyEnd
<1>3. [w \in 1 .. Words |-> IF w > Reader.off /\ w <= CopyEnd THEN kbuf[w] ELSE Reader.buf[w]]
        \in [1 .. Words -> Word]
  BY <1>1 DEF Call
<1>4. Copied \in Call
  BY <1>1, <1>2, <1>3 DEF Copied, Call
<1>5. ReaderGoes(Copied)
  BY <1>1 DEF Copy, Copied, CopyEnd, ReaderGoes, Reader, Call
<1> QED BY <1>4, <1>5

\* The check passes only for an active interrupt and a buffer that was ready.
Ready == irqsActive = 1 /\ bufAvailable = "available"
Checked == [Reader EXCEPT !.pc = IF Ready THEN "fetch" ELSE "copy", !.i = 0,
                          !.error = Reader.error \/ ~Ready]

LEMMA CheckEffect ==
  ASSUME Inv, Check("main")
  PROVE  Checked \in Call /\ ReaderGoes(Checked)
<1>1. rd \in [Thread -> Call] /\ Reader \in Call
  BY DEF Inv, TypeOK, DriverTypeOK, Reader
<1>2. (Reader.error \/ ~Ready) \in BOOLEAN
  OBVIOUS
<1>3. Checked \in Call
  <2>1. \A p \in {"fetch", "copy"}, e \in BOOLEAN :
          [Reader EXCEPT !.pc = p, !.i = 0, !.error = e] \in Call
    <3> SUFFICES ASSUME NEW p \in {"fetch", "copy"}, NEW e \in BOOLEAN
                 PROVE  [Reader EXCEPT !.pc = p, !.i = 0, !.error = e] \in Call
      OBVIOUS
    <3>1. [Reader EXCEPT !.pc = p] \in Call
      BY <1>1 DEF Call
    <3>2. \A c \in Call : [c EXCEPT !.i = 0] \in Call
      BY DEF Call
    <3>3. \A c \in Call : [c EXCEPT !.error = e] \in Call
      BY DEF Call
    <3> QED BY <3>1, <3>2, <3>3
  <2>2. (IF Ready THEN "fetch" ELSE "copy") \in {"fetch", "copy"}
    OBVIOUS
  <2> QED BY <1>2, <2>1, <2>2 DEF Checked
<1>4. ReaderGoes(Checked)
  BY <1>1 DEF Check, Checked, Ready, ReaderGoes, Reader, Call
<1> QED BY <1>3, <1>4

\* A word fetched is the next word of the sealed window, a word of the last shock.
Fetched == [Reader EXCEPT !.i = Reader.i + 1,
                          !.pc = IF Reader.i + 1 = Words THEN "copy" ELSE "fetch"]

LEMMA FetchEffect ==
  ASSUME Inv, Fetch("main")
  PROVE  /\ Fetched \in Call /\ ReaderGoes(Fetched)
         /\ BufferTypeOK' /\ UNCHANGED <<state, capture, shock>>
         /\ taken' = taken + 1 /\ (avail' <=> taken' < Words)
         /\ kbuf' = [kbuf EXCEPT ![Reader.i + 1] = shock]
<1>1. rd \in [Thread -> Call] /\ Reader \in Call /\ BufferTypeOK /\ BufferInv
  BY DEF Inv, TypeOK, DriverTypeOK, Reader
<1>2. Reader.pc = "fetch"
  BY DEF Fetch, Reader
<1>3. capture = "sealed" /\ taken = Reader.i /\ Reader.i < Words
  BY <1>2 DEF Inv, FetchInv
<1>4. Access("Read")
  BY DEF Fetch
<1>5. /\ BufferTypeOK' /\ UNCHANGED <<state, capture, shock>>
      /\ avail /\ taken' = taken + 1 /\ (avail' <=> taken' < Words)
  BY <1>1, <1>3, <1>4, ReadEffect
<1>6. Fetched \in Call
  <2>1. Reader.i + 1 \in 0 .. Words
    BY <1>1, <1>3 DEF Call
  <2>2. \A p \in {"fetch", "copy"}, n \in 0 .. Words : [Reader EXCEPT !.i = n, !.pc = p] \in Call
    BY <1>1 DEF Call
  <2> QED BY <2>1, <2>2 DEF Fetched
<1>7. ReaderGoes(Fetched)
  BY <1>1 DEF Fetch, Fetched, ReaderGoes, Reader, Call
<1>8. kbuf' = [kbuf EXCEPT ![Reader.i + 1] = shock]
  BY <1>3, <1>5 DEF Fetch, Reader
<1> QED BY <1>5, <1>6, <1>7, <1>8


-----------------------------------------------------------------------------
(* The steps of a read of the handler.                                     *)

\* What such a step leaves alone: a step of the reader that keeps the parts of the
\* invariant about the buffer and the reader keeps all of it.
LEMMA ReaderStepInv ==
  ASSUME Inv, Reader.pc # "user", UNCHANGED <<appVars, mode, pid, irqPc, foreign>>,
         NEW c \in Call, ReaderGoes(c),
         BufferTypeOK', irqsActive' \in {0, 1}, bufAvailable' \in Status,
         kbuf' \in [1 .. Words -> Word], shock' \in {shock, shock + 1},
         BufferInv', OffsetInv', FetchInv', ReadInv'
  PROVE  Inv'
<1> USE DEF appVars
<1>1. handler = "reading" /\ mode = "buffer" /\ rd["poll"].pc = "user"
  BY Alone
<1>2. rd' \in [Thread -> Call] /\ rd'["poll"].pc = "user"
  BY <1>1, ReaderIs
<1>3. DriverTypeOK'
  BY <1>2 DEF DriverTypeOK, Inv, TypeOK
<1>4. TypeOK'
  BY <1>3 DEF Inv, TypeOK
<1>5. LockInv'
  BY DEF Inv, LockInv
<1>6. ModeInv'
  BY <1>1, <1>2 DEF Inv, ModeInv
<1>7. WholeEvents'
  <2>1. shock \in Nat /\ 1 .. shock \subseteq 1 .. shock'
    BY DEF Inv, TypeOK, DriverTypeOK, BufferTypeOK
  <2> QED BY <2>1 DEF Inv, WholeEvents
<1> QED BY <1>4, <1>5, <1>6, <1>7 DEF Inv

\* Nothing about the buffer changes in a step that does not touch it.
LEMMA BufferFrame ==
  ASSUME Inv, UNCHANGED <<bufferVars, delivered>>
  PROVE  BufferTypeOK' /\ BufferInv' /\ shock' = shock
BY DEF bufferVars, BufferTypeOK, BufferInv, Unread, Inv, TypeOK, DriverTypeOK

LEMMA DevReadInv ==
  ASSUME Inv, DevRead("main"), UNCHANGED appVars
  PROVE  Inv'
<1> DEFINE next == IF Reader.off = 0 THEN "status" ELSE "copy"
<1>1. Reader.pc = "dispatch" /\ mode = "buffer" /\ Reader \in Call
  BY Alone, ReaderType DEF DevRead, Reader
<1>2. Goto("main", next)
  BY <1>1 DEF DevRead, Goto, Reader
<1>3. [Reader EXCEPT !.pc = next] \in Call /\ ReaderGoes([Reader EXCEPT !.pc = next])
  BY <1>2, ReaderType
<1>4. Reader' = [Reader EXCEPT !.pc = next]
  BY <1>3, ReaderIs
<1>5. Reader'.pc = next /\ Reader'.off = Reader.off /\ Reader'.buf = Reader.buf
      /\ Reader'.error = Reader.error
  BY <1>1, <1>4 DEF Call
<1>6. BufferTypeOK' /\ BufferInv' /\ shock' = shock /\ UNCHANGED <<kbuf, avail, state, taken>>
  BY BufferFrame DEF DevRead, appVars, bufferVars
<1>7. OffsetInv'
  BY <1>1, <1>5, Alone DEF Inv, OffsetInv, appVars
<1>8. FetchInv'
  BY <1>1, <1>5, <1>6 DEF Inv, FetchInv
<1>9. ReadInv'
  BY <1>1, <1>5, <1>6 DEF Inv, ReadInv, Holds, Unread, DevRead, bufferVars, appVars
<1>10. UNCHANGED <<mode, pid, irqsActive, bufAvailable, kbuf, irqPc, foreign>>
  BY DEF DevRead
<1> QED BY <1>1, <1>3, <1>6, <1>7, <1>8, <1>9, <1>10, ReaderStepInv
        DEF Inv, TypeOK, DriverTypeOK

\* The status says what the state of the recorder is, and that stays so until it
\* is checked if the window was ready.
LEMMA ReadStatusInv ==
  ASSUME Inv, ReadStatus("main"), UNCHANGED appVars
  PROVE  Inv'
<1>1. Reader.pc = "status" /\ Reader \in Call
  BY ReaderType DEF ReadStatus, Reader
<1>2. [Reader EXCEPT !.pc = "check"] \in Call /\ ReaderGoes([Reader EXCEPT !.pc = "check"])
  BY ReaderType DEF ReadStatus
<1>3. Reader' = [Reader EXCEPT !.pc = "check"]
  BY <1>2, ReaderIs
<1>4. Reader'.pc = "check" /\ Reader'.off = Reader.off /\ Reader'.buf = Reader.buf
      /\ Reader'.error = Reader.error
  BY <1>1, <1>3 DEF Call
<1>5. BufferTypeOK' /\ BufferInv' /\ shock' = shock /\ UNCHANGED <<kbuf, avail, state, taken>>
  BY BufferFrame DEF ReadStatus, appVars, bufferVars
<1>6. OffsetInv'
  BY <1>1, <1>4, Alone DEF Inv, OffsetInv, appVars
<1>7. bufAvailable' \in Status /\ (bufAvailable' = "available" => state = "Idle" /\ avail)
  <2>1. avail \in BOOLEAN
    BY DEF Inv, TypeOK, DriverTypeOK, BufferTypeOK
  <2> QED BY <2>1 DEF ReadStatus, Status
<1>8. FetchInv'
  BY <1>1, <1>4, <1>5, <1>7 DEF Inv, FetchInv
<1>9. ReadInv'
  BY <1>1, <1>4, <1>5 DEF Inv, ReadInv, Holds, Unread, ReadStatus, bufferVars, appVars, OffsetInv
<1>10. UNCHANGED <<mode, pid, irqsActive, kbuf, irqPc, foreign>>
  BY DEF ReadStatus
<1> QED BY <1>1, <1>2, <1>5, <1>6, <1>7, <1>8, <1>9, <1>10, ReaderStepInv
        DEF Inv, TypeOK, DriverTypeOK

\* The fetching starts at the first word of a window of which nothing was read.
LEMMA CheckInv ==
  ASSUME Inv, Check("main"), UNCHANGED appVars
  PROVE  Inv'
<1>1. Reader.pc = "check" /\ Reader \in Call
  BY ReaderType DEF Check, Reader
<1>2. Checked \in Call /\ ReaderGoes(Checked)
  BY CheckEffect
<1>3. Reader' = Checked
  BY <1>2, ReaderIs
<1>4. /\ Reader'.pc = IF Ready THEN "fetch" ELSE "copy"
      /\ Reader'.i = 0 /\ Reader'.off = Reader.off /\ Reader'.buf = Reader.buf
  BY <1>1, <1>3 DEF Call, Checked
<1>5. ~Ready => Reader'.error
  BY <1>1, <1>3 DEF Call, Checked
<1>6. BufferTypeOK' /\ BufferInv' /\ shock' = shock
      /\ UNCHANGED <<kbuf, avail, state, taken, capture, bufAvailable>>
  BY BufferFrame DEF Check, appVars, bufferVars
<1>7. OffsetInv'
  BY <1>1, <1>4, Alone DEF Inv, OffsetInv, appVars
<1>8. FetchInv'
  <2>1. Ready => capture = "sealed" /\ taken = 0
    BY <1>1 DEF Ready, Inv, FetchInv, BufferInv, TypeOK, DriverTypeOK, BufferTypeOK
  <2> QED BY <1>1, <1>4, <1>6, <2>1 DEF Inv, FetchInv
<1>9. ReadInv'
  BY <1>1, <1>4, <1>5 DEF Inv, ReadInv, OffsetInv
<1>10. UNCHANGED <<mode, pid, irqsActive, irqPc, foreign>>
  BY DEF Check
<1> QED BY <1>1, <1>2, <1>6, <1>7, <1>8, <1>9, <1>10, ReaderStepInv
        DEF Inv, TypeOK, DriverTypeOK

\* The last word fetched completes the window, and it is not unread any more.
LEMMA FetchStepInv ==
  ASSUME Inv, Fetch("main"), UNCHANGED appVars
  PROVE  Inv'
<1>1. Reader.pc = "fetch" /\ Reader \in Call
  BY ReaderType DEF Fetch, Reader
<1>2. /\ Fetched \in Call /\ ReaderGoes(Fetched)
      /\ BufferTypeOK' /\ UNCHANGED <<state, capture, shock>>
      /\ taken' = taken + 1 /\ (avail' <=> taken' < Words)
      /\ kbuf' = [kbuf EXCEPT ![Reader.i + 1] = shock]
  BY FetchEffect
<1>3. Reader' = Fetched
  BY <1>2, ReaderIs
<1>4. /\ Reader'.pc = IF Reader.i + 1 = Words THEN "copy" ELSE "fetch"
      /\ Reader'.i = Reader.i + 1 /\ Reader'.off = Reader.off
  BY <1>1, <1>3 DEF Call, Fetched
<1>5. /\ capture = "sealed" /\ taken = Reader.i /\ Reader.i \in 0 .. Words - 1
      /\ \A w \in 1 .. Reader.i : kbuf[w] = shock
      /\ Reader.off = 0 /\ shock \in 1 .. MaxShock /\ delivered < shock /\ delivered \in Nat
  <2>1. /\ capture = "sealed" /\ taken = Reader.i /\ Reader.i < Words
        /\ \A w \in 1 .. Reader.i : kbuf[w] = shock
    BY <1>1 DEF Inv, FetchInv
  <2>2. Reader.off = 0
    BY <1>1 DEF Inv, OffsetInv
  <2>3. shock \in 1 .. MaxShock /\ delivered < shock /\ delivered \in Nat
    BY <2>1 DEF Inv, BufferInv, Unread, TypeOK, DriverTypeOK, BufferTypeOK
  <2> QED BY <1>1, <2>1, <2>2, <2>3 DEF Call
<1>6. kbuf' \in [1 .. Words -> Word]
  <2>1. kbuf \in [1 .. Words -> Word]
    BY DEF Inv, TypeOK, DriverTypeOK
  <2>2. shock \in Word
    BY <1>5 DEF Word
  <2> QED BY <1>2, <2>1, <2>2
<1>7. \A w \in 1 .. Reader.i + 1 : kbuf'[w] = shock
  BY <1>2, <1>5 DEF Inv, TypeOK, DriverTypeOK
<1>8. UNCHANGED <<main, handler, delivered, mode, pid, irqsActive, bufAvailable, irqPc, foreign>>
  BY DEF Fetch, appVars
<1>9. BufferInv'
  BY <1>2, <1>5, <1>8 DEF Inv, BufferInv, Unread, TypeOK
<1>10. OffsetInv'
  BY <1>1, <1>4, <1>5, <1>8, Alone DEF Inv, OffsetInv
<1>11. FetchInv'
  BY <1>2, <1>4, <1>5, <1>7 DEF FetchInv
<1>12. ReadInv'
  <2>1. CASE Reader'.pc # "copy"
    BY <1>4, <1>5, <2>1 DEF ReadInv
  <2>2. CASE Reader'.pc = "copy"
    <3>1. Reader.i + 1 = Words
      BY <1>4, <2>2
    <3>2. kbuf' = [w \in 1 .. Words |-> shock]
      BY <1>6, <1>7, <3>1
    <3>3. ~Unread'
      BY <1>2, <1>5, <3>1 DEF Unread
    <3>4. Holds(shock)'
      <4>1. delivered' < shock' /\ kbuf' = [w \in 1 .. Words |-> shock']
        BY <1>2, <1>5, <1>8, <3>2
      <4>2. Reader'.off = 0
        BY <1>4, <1>5
      <4> QED BY <4>1, <4>2, <3>3 DEF Holds
    <3> QED BY <1>2, <1>5, <3>4 DEF ReadInv
  <2> QED BY <2>1, <2>2
<1> QED BY <1>1, <1>2, <1>6, <1>8, <1>9, <1>10, <1>11, <1>12, ReaderStepInv
        DEF Inv, TypeOK, DriverTypeOK


\* The first read of a window copies it up to Split, the second one the rest, and
\* both from the same content of the driver's buffer.
LEMMA CopyInv ==
  ASSUME Inv, Copy("main"), UNCHANGED appVars
  PROVE  Inv'
<1>1. Reader.pc = "copy" /\ Reader \in Call /\ Reader.off \in {0, Split}
  <2>1. Reader.pc = "copy" /\ Reader \in Call
    BY ReaderType DEF Copy, Reader
  <2> QED BY <2>1 DEF Inv, OffsetInv
<1>2. Copied \in Call /\ ReaderGoes(Copied)
  BY CopyEffect
<1>3. Reader' = Copied
  BY <1>2, ReaderIs
<1>4. /\ Reader'.pc = IF CopyEnd = Words THEN "clearActive" ELSE "user"
      /\ Reader'.off = CopyEnd /\ Reader'.error = Reader.error
      /\ Reader'.buf = [w \in 1 .. Words |->
                          IF w > Reader.off /\ w <= CopyEnd THEN kbuf[w] ELSE Reader.buf[w]]
  BY <1>1, <1>3 DEF Call, Copied
<1>5. CopyEnd = Split \/ CopyEnd = Words
  BY DEF CopyEnd
<1>6. BufferTypeOK' /\ BufferInv' /\ shock' = shock
      /\ UNCHANGED <<kbuf, avail, state, taken, capture, bufAvailable, delivered, handler>>
  BY BufferFrame DEF Copy, appVars, bufferVars
<1>7. OffsetInv'
  BY <1>1, <1>4, <1>5, <1>6, Alone DEF Inv, OffsetInv
<1>8. FetchInv'
  BY <1>1, <1>4, <1>6 DEF Inv, FetchInv
<1>9. ReadInv'
  <2> SUFFICES ASSUME ~Reader.error
               PROVE  \E s \in 1 .. shock : Holds(s)'
    BY <1>4, <1>6 DEF ReadInv
  <2>1. PICK s \in 1 .. shock : Holds(s)
    BY <1>1, Alone DEF Inv, ReadInv
  <2>2. /\ delivered < s /\ (Unread => s < shock)
        /\ kbuf = [w \in 1 .. Words |-> s]
        /\ \A w \in 1 .. Reader.off : Reader.buf[w] = s
    BY <1>1, <2>1 DEF Holds
  <2>3. \A w \in 1 .. CopyEnd : Reader'.buf[w] = s
    BY <1>1, <1>4, <1>5, <2>2
  <2>4. delivered' < s /\ (Unread' => s < shock') /\ kbuf' = kbuf
    BY <1>6, <2>2 DEF Unread
  <2>5. Holds(s)'
    BY <1>4, <2>2, <2>3, <2>4 DEF Holds
  <2> QED BY <2>5
<1>10. UNCHANGED <<mode, pid, irqsActive, irqPc, foreign>>
  BY DEF Copy
<1> QED BY <1>1, <1>2, <1>6, <1>7, <1>8, <1>9, <1>10, ReaderStepInv
        DEF Inv, TypeOK, DriverTypeOK

\* The two fields of the driver are cleared after the last word.
LEMMA ClearInv ==
  ASSUME Inv, ClearActive("main") \/ ClearAvailable("main"), UNCHANGED appVars
  PROVE  Inv'
<1> DEFINE next == IF Reader.pc = "clearActive" THEN "clearAvailable" ELSE "enable"
<1>1. Reader.pc \in {"clearActive", "clearAvailable"} /\ Reader \in Call
  BY ReaderType DEF ClearActive, ClearAvailable, Reader
<1>2. Goto("main", next)
  BY <1>1 DEF ClearActive, ClearAvailable, Reader
<1>3. [Reader EXCEPT !.pc = next] \in Call /\ ReaderGoes([Reader EXCEPT !.pc = next])
  BY <1>2, ReaderType
<1>4. Reader' = [Reader EXCEPT !.pc = next]
  BY <1>3, ReaderIs
<1>5. Reader'.pc = next /\ Reader'.off = Reader.off /\ Reader'.buf = Reader.buf
      /\ Reader'.error = Reader.error
  BY <1>1, <1>4 DEF Call
<1>6. UNCHANGED <<bufferVars, mode, pid, kbuf, irqPc, foreign>>
      /\ irqsActive' \in {0, 1} /\ bufAvailable' \in Status
  BY DEF ClearActive, ClearAvailable, Inv, TypeOK, DriverTypeOK, Status
<1>7. BufferTypeOK' /\ BufferInv' /\ shock' = shock /\ UNCHANGED <<avail, state, taken, capture>>
  BY <1>6, BufferFrame DEF appVars, bufferVars
<1>8. OffsetInv'
  BY <1>1, <1>5, Alone DEF Inv, OffsetInv, appVars
<1>9. FetchInv'
  BY <1>1, <1>5, <1>7 DEF Inv, FetchInv
<1>10. ReadInv'
  BY <1>1, <1>5, <1>6, <1>7 DEF Inv, ReadInv, Holds, Unread, appVars
<1> QED BY <1>1, <1>3, <1>6, <1>7, <1>8, <1>9, <1>10, ReaderStepInv
        DEF Inv, TypeOK, DriverTypeOK

\* The buffer is enabled when the whole window was copied: what comes is newer.
LEMMA EnableAgainInv ==
  ASSUME Inv, EnableAgain("main"), UNCHANGED appVars
  PROVE  Inv'
<1>1. Reader.pc = "enable" /\ Reader \in Call /\ Reader.off = Words
  <2>1. Reader.pc = "enable" /\ Reader \in Call
    BY ReaderType DEF EnableAgain, Reader
  <2> QED BY <2>1 DEF Inv, OffsetInv
<1>2. [Reader EXCEPT !.pc = "user"] \in Call /\ ReaderGoes([Reader EXCEPT !.pc = "user"])
  BY ReaderType DEF EnableAgain
<1>3. Reader' = [Reader EXCEPT !.pc = "user"]
  BY <1>2, ReaderIs
<1>4. Reader'.pc = "user" /\ Reader'.off = Reader.off /\ Reader'.buf = Reader.buf
      /\ Reader'.error = Reader.error
  BY <1>1, <1>3 DEF Call
<1>5. BufferTypeOK' /\ Armed
  BY EnableEffect DEF EnableAgain, Inv, TypeOK, DriverTypeOK
<1>6. UNCHANGED <<mode, pid, irqsActive, bufAvailable, kbuf, irqPc, foreign, delivered, handler>>
  BY DEF EnableAgain, appVars
<1>7. delivered \in Nat /\ shock \in Nat /\ delivered <= shock
  BY DEF Inv, BufferInv, TypeOK, DriverTypeOK, BufferTypeOK
<1>8. BufferInv'
  BY <1>5, <1>6, <1>7 DEF Armed, BufferInv, Unread
<1>9. OffsetInv'
  BY <1>1, <1>4, <1>6, Alone DEF Inv, OffsetInv
<1>10. FetchInv'
  BY <1>4, <1>5 DEF FetchInv, Armed
<1>11. ReadInv'
  <2> SUFFICES ASSUME ~Reader.error
               PROVE  \E s \in 1 .. shock' : Holds(s)'
    BY <1>4 DEF ReadInv
  <2>1. PICK s \in 1 .. shock : Holds(s)
    BY <1>1, Alone DEF Inv, ReadInv
  <2>2. delivered' < s /\ ~Unread' /\ s \in 1 .. shock'
    BY <1>5, <1>6, <1>7, <2>1 DEF Holds, Armed, Unread
  <2>3. Reader'.off = Words /\ \A w \in 1 .. Reader'.off : Reader'.buf[w] = s
    BY <1>1, <1>4, <2>1 DEF Holds
  <2> QED BY <2>2, <2>3 DEF Holds
<1> QED BY <1>1, <1>2, <1>5, <1>6, <1>8, <1>9, <1>10, <1>11, ReaderStepInv
        DEF Inv, TypeOK, DriverTypeOK, Armed

\* Every step of a read.
LEMMA KernelReadInv ==
  ASSUME Inv, KernelRead
  PROVE  Inv'
<1>1. UNCHANGED appVars /\ (ReadStep("main") \/ ReadStep("poll"))
  BY DEF KernelRead
<1>2. CASE ReadStep("main")
  BY <1>1, <1>2, DevReadInv, ReadStatusInv, CheckInv, FetchStepInv, CopyInv, ClearInv,
     EnableAgainInv DEF ReadStep
<1>3. CASE ReadStep("poll")
  <2>1. UNCHANGED <<mode, pid, irqsActive, bufAvailable, kbuf, irqPc, foreign, bufferVars>>
        /\ rd' \in [Thread -> Call] /\ Reader' = Reader /\ rd'["poll"].pc = "user"
    BY <1>3, PollingRead, PollingReadType
  <2>2. BufferTypeOK' /\ BufferInv' /\ shock' = shock
    BY <1>1, <2>1, BufferFrame DEF appVars
  <2>3. TypeOK' /\ LockInv' /\ WholeEvents'
    <3>1. DriverTypeOK'
      BY <2>1, <2>2 DEF Inv, TypeOK, DriverTypeOK
    <3> QED BY <1>1, <2>1, <2>2, <3>1 DEF Inv, TypeOK, LockInv, WholeEvents, appVars
  <2>4. ModeInv' /\ OffsetInv'
    BY <1>1, <2>1 DEF Inv, ModeInv, OffsetInv, appVars
  <2>5. FetchInv' /\ ReadInv'
    BY <1>1, <2>1 DEF Inv, FetchInv, ReadInv, Holds, Unread, appVars, bufferVars
  <2> QED BY <2>2, <2>3, <2>4, <2>5 DEF Inv
<1> QED BY <1>1, <1>2, <1>3


-----------------------------------------------------------------------------
(* The steps of the recorder and of the interrupt handler.                 *)

\* Neither disturbs a reader: what the recorder adds while a window is being read
\* is not the window that is read.
LEMMA InterruptInv ==
  ASSUME Inv, HardwareStep \/ IrqStep \/ ForeignInterrupt
  PROVE  Inv'
<1>1. /\ BufferTypeOK' /\ (Kept \/ Detected \/ Completed)
      /\ UNCHANGED <<mode, pid, bufAvailable, kbuf, rd, main, handler, poll, lock,
                     starts, faults, failed, event, delivered>>
      /\ irqsActive' \in {0, 1} /\ foreign' \in 0 .. MaxForeign
      /\ irqPc' \in {"idle", "entered", "clear", "signal"}
      /\ sigPending' \in BOOLEAN
  BY InterruptType
<1>2. shock \in Nat /\ delivered \in Nat /\ avail \in BOOLEAN /\ taken \in 0 .. Words
  BY DEF Inv, TypeOK, DriverTypeOK, BufferTypeOK
<1>3. TypeOK'
  <2>1. DriverTypeOK'
    BY <1>1 DEF Inv, TypeOK, DriverTypeOK
  <2> QED BY <1>1, <2>1 DEF Inv, TypeOK
<1>4. LockInv' /\ ModeInv' /\ OffsetInv' /\ Reader' = Reader
  BY <1>1 DEF Inv, LockInv, ModeInv, OffsetInv, Reader
<1>5. BufferInv'
  <2>1. CASE Kept
    BY <1>1, <2>1 DEF Kept, Inv, BufferInv, Unread
  <2>2. CASE Detected
    BY <1>1, <1>2, <2>2 DEF Detected, Inv, BufferInv, Unread
  <2>3. CASE Completed
    BY <1>1, <1>2, <2>3 DEF Completed, Inv, BufferInv, Unread
  <2> QED BY <1>1, <2>1, <2>2, <2>3
<1>6. FetchInv'
  <2>1. CASE Kept
    BY <1>1, <1>4, <2>1 DEF Kept, Inv, FetchInv
  <2>2. CASE Detected \/ Completed
    <3>1. capture # "sealed" /\ state # "Idle" /\ taken' = 0
      BY <2>2 DEF Detected, Completed, Inv, BufferInv
    <3> QED BY <1>1, <1>4, <3>1 DEF Inv, FetchInv
  <2> QED BY <1>1, <2>1, <2>2
<1>7. ReadInv'
  <2> SUFFICES ASSUME handler \in {"read", "reading", "store"}, ~Reader.error,
                      Reader.off # 0 \/ Reader.pc = "copy"
               PROVE  \E s \in 1 .. shock' : Holds(s)'
    BY <1>1, <1>4 DEF ReadInv
  <2>1. PICK s \in 1 .. shock : Holds(s)
    BY DEF Inv, ReadInv
  <2>2. s \in 1 .. shock' /\ (Unread' => s < shock')
    <3>1. CASE Kept
      BY <2>1, <3>1 DEF Kept, Holds, Unread
    <3>2. CASE Detected
      BY <1>2, <3>2 DEF Detected
    <3>3. CASE Completed
      BY <1>2, <2>1, <3>3 DEF Completed, Holds, Unread, Inv, BufferInv
    <3> QED BY <1>1, <3>1, <3>2, <3>3
  <2>3. Holds(s)'
    BY <1>1, <1>4, <2>1, <2>2 DEF Holds
  <2> QED BY <2>2, <2>3
<1>8. WholeEvents'
  <2>1. shock' \in {shock, shock + 1}
    BY <1>1 DEF Kept, Detected, Completed
  <2>2. 1 .. shock \subseteq 1 .. shock'
    BY <1>2, <2>1
  <2> QED BY <1>1, <2>2 DEF Inv, WholeEvents
<1> QED BY <1>3, <1>4, <1>5, <1>6, <1>7, <1>8 DEF Inv

-----------------------------------------------------------------------------
(* The steps of the application.                                           *)

\* A step that touches neither the device nor the reader, and after which the
\* handler stands where nothing is known of a read, or where it stood before.
LEMMA AppFrame ==
  ASSUME Inv, UNCHANGED <<bufferVars, kbuf, bufAvailable, Reader, delivered>>,
         handler' = handler \/ handler' \in {"none", "lock", "open", "toPolling"}
  PROVE  /\ BufferTypeOK' /\ BufferInv' /\ FetchInv' /\ ReadInv'
         /\ (Reader.pc = "user" => OffsetInv') /\ (handler' = handler => OffsetInv')
<1>1. BufferTypeOK' /\ BufferInv'
  BY BufferFrame
<1>2. FetchInv'
  BY DEF bufferVars, Inv, FetchInv
<1>3. ReadInv'
  <2>1. CASE handler' = handler
    BY <2>1 DEF bufferVars, Inv, ReadInv, Holds, Unread
  <2>2. CASE handler' \in {"none", "lock", "open", "toPolling"}
    BY <2>2 DEF ReadInv
  <2> QED BY <2>1, <2>2
<1>4. (Reader.pc = "user" => OffsetInv') /\ (handler' = handler => OffsetInv')
  BY DEF Inv, OffsetInv
<1> QED BY <1>1, <1>2, <1>3, <1>4

\* The steps that leave the device alone.
LEMMA AppInv ==
  ASSUME Inv,
         \/ Start \/ InstallHandler \/ ConstructorFails \/ EnterEvents \/ LeaveEvents
         \/ Kill \/ DefaultAction \/ Deliver \/ HandlerLock \/ HandlerFails
         \/ PollDone \/ PollFails
  PROVE  Inv'
<1> DEFINE Step1 == \/ Start \/ InstallHandler \/ ConstructorFails \/ EnterEvents
                    \/ LeaveEvents \/ Die \/ Deliver \/ HandlerLock \/ HandlerFails
                    \/ PollDone \/ PollFails
<1>1. Step1
  BY DEF Kill, DefaultAction
<1>2. UNCHANGED <<bufferVars, driverVars, delivered>>
  BY <1>1 DEF Start, InstallHandler, ConstructorFails, EnterEvents, LeaveEvents, Die,
     Deliver, HandlerLock, HandlerFails, PollDone, PollFails
<1>3. UNCHANGED <<mode, pid, irqsActive, bufAvailable, kbuf, irqPc, foreign, rd, Reader>>
  BY <1>2 DEF driverVars, Reader
<1>4. handler' = handler \/ handler' \in {"none", "lock", "open", "toPolling"}
  BY <1>1 DEF Start, InstallHandler, ConstructorFails, EnterEvents, LeaveEvents, Die,
     Deliver, HandlerLock, HandlerFails, PollDone, PollFails, Handler
<1>5. Reader.pc # "user" => handler' = handler
  <2>1. Die => Reader.pc = "user"
    BY DEF Die, InRead, Reader
  <2>2. Reader.pc # "user" => handler = "reading"
    BY Alone
  <2> QED BY <1>1, <2>1, <2>2 DEF Start, InstallHandler, ConstructorFails, EnterEvents,
     LeaveEvents, Deliver, HandlerLock, HandlerFails, PollDone, PollFails, Handler
<1>6. BufferTypeOK' /\ BufferInv' /\ FetchInv' /\ ReadInv' /\ OffsetInv'
  BY <1>2, <1>3, <1>4, <1>5, AppFrame
<1>7. TypeOK'
  <2>1. DriverTypeOK' /\ pid' \in 0 .. MaxStarts /\ delivered' \in Shock
    BY <1>2, <1>3, <1>6 DEF Inv, TypeOK, DriverTypeOK
  <2> USE DEF Inv, TypeOK, Start, InstallHandler, ConstructorFails, EnterEvents, LeaveEvents, Die,
     Deliver, HandlerLock, HandlerFails, PollDone, PollFails, Handler
  <2>2. main' \in {"dead", "setPid", "sigaction", "run", "inEvents", "bare"}
    BY <1>1
  <2>3. handler' \in {"none", "lock", "open", "toBuffer", "read", "reading", "store", "toPolling"}
    BY <1>1
  <2>4. poll' \in {"none", "sleep", "toPolling", "read", "reading"}
        /\ lock' \in Thread \cup {"none"}
    BY <1>1
  <2>5. sigPending' \in BOOLEAN
    BY <1>1
  <2>6. failed' \in BOOLEAN
    BY <1>1
  <2>7. starts' \in 0 .. MaxStarts /\ faults' \in 0 .. MaxFaults
    BY <1>1
  <2>8. event' \in [words : [1 .. Words -> Word], error : BOOLEAN, happened : BOOLEAN]
    <3>1. NoEvent \in [words : [1 .. Words -> Word], error : BOOLEAN, happened : BOOLEAN]
      BY DEF NoEvent, Word
    <3>2. [event EXCEPT !.happened = FALSE]
            \in [words : [1 .. Words -> Word], error : BOOLEAN, happened : BOOLEAN]
      OBVIOUS
    <3> QED BY <1>1, <3>1, <3>2
  <2> QED BY <2>1, <2>2, <2>3, <2>4, <2>5, <2>6, <2>7, <2>8 DEF TypeOK
<1>8. LockInv'
  BY <1>1 DEF Inv, TypeOK, LockInv, Inside, Polling, Handler, Start, InstallHandler,
     ConstructorFails, EnterEvents, LeaveEvents, Die, Deliver, HandlerLock, HandlerFails,
     PollDone, PollFails
<1>9. ModeInv'
  <2>1. Die => Reader.pc = "user" /\ rd["poll"].pc = "user"
    BY DEF Die, InRead, Reader
  <2>2. PollDone => rd["poll"].pc = "user"
    BY DEF PollDone
  <2> QED BY <1>1, <1>3, <1>4, <1>5, <2>1, <2>2 DEF Inv, TypeOK, LockInv, ModeInv, Inside,
     Polling, Handler, Start, InstallHandler, ConstructorFails, EnterEvents, LeaveEvents, Die,
     Deliver, HandlerLock, HandlerFails, PollDone, PollFails
<1>10. WholeEvents'
  <2>1. event' = event \/ event'.happened = FALSE
    <3>1. Start => event'.happened = FALSE
      BY DEF Start, NoEvent
    <3>2. LeaveEvents => event'.happened = FALSE
      BY DEF LeaveEvents, Inv, TypeOK
    <3> QED BY <1>1, <3>1, <3>2 DEF InstallHandler, ConstructorFails, EnterEvents, Die,
       Deliver, HandlerLock, HandlerFails, PollDone, PollFails
  <2> QED BY <1>2, <2>1 DEF Inv, WholeEvents, bufferVars
<1> QED BY <1>6, <1>7, <1>8, <1>9, <1>10 DEF Inv


\* The registration enables the buffer: no handler runs yet, and what was not
\* delivered before is given up.
LEMMA RegisterPidInv ==
  ASSUME Inv, RegisterPid
  PROVE  Inv'
<1>1. UNCHANGED <<mode, irqsActive, bufAvailable, kbuf, irqPc, foreign, rd, Reader, handler,
                  poll, lock, sigPending, starts, faults, failed, event, delivered>>
      /\ pid' = starts /\ main = "setPid" /\ main' = "sigaction" /\ Access("Enable")
  BY DEF RegisterPid, SetPid, Reader
<1>2. handler = "none" /\ Reader.pc = "user" /\ poll = "none"
  BY <1>1 DEF Inv, LockInv, ModeInv
<1>3. BufferTypeOK' /\ Armed
  BY <1>1, EnableEffect DEF Inv, TypeOK, DriverTypeOK
<1>4. shock \in Nat /\ delivered \in Nat /\ delivered <= shock
  BY DEF Inv, BufferInv, TypeOK, DriverTypeOK, BufferTypeOK
<1>5. TypeOK'
  <2>1. DriverTypeOK'
    BY <1>1, <1>3 DEF Inv, TypeOK, DriverTypeOK
  <2> QED BY <1>1, <2>1 DEF Inv, TypeOK
<1>6. LockInv' /\ ModeInv' /\ OffsetInv'
  BY <1>1, <1>2 DEF Inv, LockInv, ModeInv, OffsetInv
<1>7. BufferInv' /\ FetchInv' /\ ReadInv'
  <2>1. BufferInv'
    BY <1>1, <1>3, <1>4 DEF BufferInv, Unread, Armed
  <2>2. FetchInv'
    BY <1>1, <1>2, <1>3 DEF FetchInv, Armed
  <2> QED BY <1>1, <1>2, <2>1, <2>2 DEF ReadInv
<1>8. WholeEvents'
  <2>1. 1 .. shock \subseteq 1 .. shock'
    BY <1>3, <1>4 DEF Armed
  <2> QED BY <1>1, <2>1 DEF Inv, WholeEvents
<1> QED BY <1>5, <1>6, <1>7, <1>8 DEF Inv

\* Opening and setting the mode, by the handler and by the polling thread.  Each
\* changes the mode only while it holds the lock, so never under a reader.
LEMMA DeviceInv ==
  ASSUME Inv,
         HandlerOpen \/ HandlerToBuffer \/ HandlerToPolling \/ PollLock \/ PollToPolling
  PROVE  Inv'
<1> USE DEF HandlerOpen, HandlerToBuffer, HandlerToPolling, PollLock, PollToPolling, Handler
<1>1. /\ UNCHANGED <<pid, irqsActive, bufAvailable, kbuf, irqPc, foreign, bufferVars,
                     main, starts, faults, failed, event, delivered, sigPending>>
      /\ mode' \in {"polling", "buffer"}
  BY DEF Open, SetMode, Inv, TypeOK, DriverTypeOK
<1>2. BufferTypeOK' /\ BufferInv' /\ shock' = shock /\ delivered' = delivered
  BY <1>1, BufferFrame
<1>3. handler # "reading" /\ Reader.pc = "user" /\ rd["poll"].pc = "user"
  BY DEF Inv, LockInv, ModeInv, Inside, Polling
<1>4. NoCall \in Call /\ NoCall.pc = "user" /\ NoCall.off = 0
  BY DEF NoCall, Call, Word
<1>5. rd \in [Thread -> Call]
  BY DEF Inv, TypeOK, DriverTypeOK
<1>6. /\ rd' \in [Thread -> Call] /\ rd'["main"].pc = "user" /\ rd'["poll"].pc = "user"
      /\ rd'["main"] = IF HandlerOpen THEN NoCall ELSE rd["main"]
  <2>1. CASE HandlerOpen
    BY <1>3, <1>4, <1>5, <2>1 DEF Open, Reader
  <2>2. CASE PollLock /\ ~HandlerOpen
    BY <1>3, <1>4, <1>5, <2>2 DEF Open, Reader
  <2>3. CASE HandlerToBuffer \/ HandlerToPolling \/ PollToPolling
    <3>1. rd' = rd /\ ~HandlerOpen
      BY <2>3 DEF SetMode
    <3> QED BY <1>3, <1>5, <3>1 DEF Reader
  <2> QED BY <2>1, <2>2, <2>3
<1>7. TypeOK'
  <2>1. DriverTypeOK'
    BY <1>1, <1>2, <1>6 DEF Inv, TypeOK, DriverTypeOK
  <2> QED BY <1>1, <2>1 DEF Inv, TypeOK
<1>8. LockInv'
  BY <1>1 DEF Inv, LockInv, Inside, Polling
<1>9. ModeInv'
  BY <1>6 DEF SetMode, Open, Inv, TypeOK, LockInv, ModeInv, Inside, Polling, Reader
<1>10. OffsetInv'
  BY <1>3, <1>4, <1>6 DEF Inv, OffsetInv, Reader
<1>11. FetchInv'
  BY <1>1, <1>3, <1>6 DEF bufferVars, Inv, FetchInv, Reader
<1>12. ReadInv'
  <2>1. CASE HandlerOpen \/ HandlerToBuffer
    <3>1. Reader'.off = 0 /\ Reader'.pc = "user"
      BY <1>4, <1>6, <2>1 DEF Inv, OffsetInv, Reader
    <3> QED BY <3>1 DEF ReadInv
  <2>2. CASE HandlerToPolling
    BY <2>2 DEF ReadInv
  <2>3. CASE PollLock \/ PollToPolling
    <3>1. ~HandlerOpen /\ handler' = handler
      BY <2>3
    <3>2. Reader' = Reader
      BY <1>6, <3>1 DEF Reader
    <3> QED BY <1>1, <3>1, <3>2 DEF Inv, ReadInv, Holds, Unread, bufferVars
  <2> QED BY <2>1, <2>2, <2>3
<1>13. WholeEvents'
  BY <1>1, <1>2 DEF Inv, WholeEvents
<1> QED BY <1>2, <1>7, <1>8, <1>9, <1>10, <1>11, <1>12, <1>13 DEF Inv

\* The two threads call read, each in the mode it set.
LEMMA ReadCallInv ==
  ASSUME Inv, HandlerRead \/ PollRead
  PROVE  Inv'
<1> USE DEF HandlerRead, PollRead, Handler
<1>1. UNCHANGED <<mode, pid, irqsActive, bufAvailable, kbuf, irqPc, foreign, bufferVars,
                  main, lock, starts, faults, failed, event, delivered, sigPending>>
  BY DEF ReadCall
<1>2. BufferTypeOK' /\ BufferInv' /\ shock' = shock /\ delivered' = delivered
  BY <1>1, BufferFrame
<1>3. rd \in [Thread -> Call] /\ Reader \in Call /\ Reader = rd["main"]
  BY DEF Inv, TypeOK, DriverTypeOK, Reader
<1>4. /\ rd' \in [Thread -> Call] /\ UNCHANGED <<rd["main"].off, rd["main"].buf, rd["main"].error>>
      /\ HandlerRead => rd'["main"].pc = "dispatch" /\ rd'["poll"] = rd["poll"]
      /\ PollRead => rd'["poll"].pc = "dispatch" /\ rd'["main"] = rd["main"]
  <2>1. CASE HandlerRead
    <3>1. ReaderGoes([Reader EXCEPT !.pc = "dispatch"]) /\ [Reader EXCEPT !.pc = "dispatch"] \in Call
      BY <2>1, ReaderType DEF ReadCall
    <3>2. Reader' = [Reader EXCEPT !.pc = "dispatch"] /\ rd'["poll"] = rd["poll"]
          /\ rd' \in [Thread -> Call]
      BY <3>1, ReaderIs
    <3>3. handler # "none" /\ ~PollRead
      BY <2>1, <3>2, <1>1 DEF Inv, LockInv, Inside, Polling
    <3> QED BY <1>3, <3>2, <3>3 DEF Call, Reader
  <2>2. CASE PollRead
    <3>1. rd' = [rd EXCEPT !["poll"] = [rd["poll"] EXCEPT !.pc = "dispatch"]]
      BY <1>3, <2>2 DEF ReadCall, Goto, Call
    <3>2. [rd["poll"] EXCEPT !.pc = "dispatch"] \in Call
          /\ [rd["poll"] EXCEPT !.pc = "dispatch"].pc = "dispatch"
      BY <1>3 DEF Call
    <3>3. ~HandlerRead
      BY <2>2 DEF Inv, LockInv, Inside, Polling
    <3> QED BY <1>3, <3>1, <3>2, <3>3
  <2> QED BY <2>1, <2>2
<1>5. TypeOK'
  <2>1. DriverTypeOK'
    BY <1>1, <1>2, <1>4 DEF Inv, TypeOK, DriverTypeOK
  <2> QED BY <1>1, <2>1 DEF Inv, TypeOK
<1>6. LockInv' /\ ModeInv'
  BY <1>1, <1>3, <1>4 DEF Inv, LockInv, ModeInv, Inside, Polling, Reader
<1>7. OffsetInv' /\ FetchInv'
  BY <1>1, <1>3, <1>4 DEF Inv, OffsetInv, FetchInv, Reader, bufferVars, ReadCall
<1>8. ReadInv'
  BY <1>1, <1>3, <1>4 DEF Inv, ReadInv, Holds, Unread, Reader, bufferVars
<1>9. WholeEvents'
  BY <1>1, <1>2 DEF Inv, WholeEvents
<1> QED BY <1>2, <1>5, <1>6, <1>7, <1>8, <1>9 DEF Inv

\* The handler goes on reading until the window is complete.
LEMMA HandlerGotInv ==
  ASSUME Inv, HandlerGot
  PROVE  Inv'
<1>1. /\ UNCHANGED <<bufferVars, driverVars, main, poll, lock, sigPending, starts, faults,
                     failed, event, delivered>>
      /\ handler = "reading" /\ Reader.pc = "user"
      /\ handler' = CASE Reader.kind = "buffer" /\ Reader.off < Words -> "read"
                      [] Reader.kind = "buffer" /\ Reader.off = Words -> "store"
                      [] Reader.kind # "buffer" -> "toPolling"
  BY DEF HandlerGot, Reader
<1>2. Reader \in Call /\ Reader' = Reader
  BY <1>1, ReaderType DEF driverVars, Reader
<1>3. \/ handler' = "read" /\ Reader.off < Words
      \/ handler' = "store" /\ Reader.off = Words
      \/ handler' = "toPolling"
  BY <1>1, <1>2 DEF Call
<1>4. UNCHANGED <<mode, pid, irqsActive, bufAvailable, kbuf, irqPc, foreign, rd>>
  BY <1>1 DEF driverVars
<1>5. BufferTypeOK' /\ BufferInv' /\ shock' = shock
  BY <1>1, BufferFrame
<1>6. TypeOK'
  <2>1. DriverTypeOK'
    BY <1>4, <1>5 DEF Inv, TypeOK, DriverTypeOK
  <2>2. handler' \in {"read", "store", "toPolling"}
    BY <1>3
  <2>3. UNCHANGED <<pid, main, poll, lock, sigPending, failed, starts, faults, event, delivered>>
    BY <1>1, <1>4
  <2> QED BY <2>1, <2>2, <2>3 DEF Inv, TypeOK
<1>7. LockInv' /\ ModeInv'
  BY <1>1, <1>2, <1>3, <1>4 DEF Inv, LockInv, ModeInv, Inside
<1>8. OffsetInv' /\ FetchInv'
  BY <1>1, <1>2, <1>3, <1>4 DEF Inv, OffsetInv, FetchInv, bufferVars
<1>9. ReadInv'
  BY <1>1, <1>2, <1>4 DEF Inv, ReadInv, Holds, Unread, bufferVars
<1>10. WholeEvents'
  BY <1>1, <1>5 DEF Inv, WholeEvents
<1> QED BY <1>5, <1>6, <1>7, <1>8, <1>9, <1>10 DEF Inv

\* What the handler stores is a window newer than the one stored before.
LEMMA HandlerStoreInv ==
  ASSUME Inv, HandlerStore
  PROVE  /\ Inv'
         /\ ~Reader.error => delivered' > delivered
<1>1. /\ UNCHANGED <<bufferVars, driverVars, main, poll, lock, sigPending, starts, faults, failed>>
      /\ handler = "store" /\ handler' = "toPolling"
      /\ event' = [words |-> Reader.buf, error |-> Reader.error, happened |-> TRUE]
      /\ delivered' = IF Reader.error THEN delivered ELSE Reader.buf[Words]
  BY DEF HandlerStore, Handler, Reader
<1>2. Reader \in Call /\ Reader' = Reader /\ Reader.off = Words
  BY <1>1, ReaderType DEF driverVars, Reader, Inv, OffsetInv
<1>3. UNCHANGED <<mode, pid, irqsActive, bufAvailable, kbuf, irqPc, foreign, rd>>
  BY <1>1 DEF driverVars
<1>4. shock \in Nat /\ delivered \in Nat /\ Reader.buf \in [1 .. Words -> Word]
      /\ Reader.error \in BOOLEAN /\ BufferTypeOK
  BY <1>2 DEF Inv, TypeOK, DriverTypeOK, BufferTypeOK, Call
<1>5. ASSUME ~Reader.error
      PROVE  \E s \in 1 .. shock :
                /\ Reader.buf = [w \in 1 .. Words |-> s] /\ delivered' = s
                /\ delivered < s /\ (Unread => s < shock)
  <2>1. PICK s \in 1 .. shock : Holds(s)
    BY <1>1, <1>2, <1>5 DEF Inv, ReadInv
  <2>2. Reader.buf = [w \in 1 .. Words |-> s]
    BY <1>2, <1>4, <2>1 DEF Holds
  <2>3. Reader.buf[Words] = s
    BY <2>2
  <2> QED BY <1>1, <1>5, <2>1, <2>2, <2>3 DEF Holds
<1>6. ~Reader.error => delivered' > delivered
  BY <1>4, <1>5
<1>7. delivered' <= shock /\ (Unread => delivered' < shock) /\ delivered' \in Shock
  <2>1. delivered \in Shock /\ delivered <= shock /\ (Unread => delivered < shock) /\ shock \in Shock
    BY DEF Inv, BufferInv, TypeOK, DriverTypeOK, BufferTypeOK
  <2>2. CASE Reader.error
    BY <1>1, <2>1, <2>2
  <2>3. CASE ~Reader.error
    BY <1>5, <2>1, <2>3
  <2> QED BY <2>2, <2>3
<1>8. BufferTypeOK' /\ BufferInv' /\ shock' = shock
  BY <1>1, <1>4, <1>7 DEF bufferVars, BufferTypeOK, Inv, BufferInv, Unread
<1>9. TypeOK'
  <2>1. DriverTypeOK'
    BY <1>3, <1>8 DEF Inv, TypeOK, DriverTypeOK
  <2>2. event' \in [words : [1 .. Words -> Word], error : BOOLEAN, happened : BOOLEAN]
    BY <1>1, <1>4
  <2> QED BY <1>1, <1>3, <1>7, <2>1, <2>2 DEF Inv, TypeOK
<1>10. LockInv' /\ ModeInv'
  BY <1>1, <1>2, <1>3 DEF Inv, LockInv, ModeInv, Inside
<1>11. OffsetInv' /\ FetchInv' /\ ReadInv'
  BY <1>1, <1>2, <1>3 DEF Inv, OffsetInv, FetchInv, ReadInv, bufferVars
<1>12. WholeEvents'
  BY <1>1, <1>5, <1>8 DEF WholeEvents
<1> QED BY <1>6, <1>8, <1>9, <1>10, <1>11, <1>12 DEF Inv

-----------------------------------------------------------------------------
LEMMA StepInv == Inv /\ [Next]_vars => Inv'
<1> SUFFICES ASSUME Inv, [Next]_vars PROVE Inv'
  OBVIOUS
<1>1. CASE HardwareStep \/ IrqStep \/ ForeignInterrupt
  BY <1>1, InterruptInv
<1>2. CASE KernelRead
  BY <1>2, KernelReadInv
<1>3. CASE \/ Start \/ InstallHandler \/ ConstructorFails \/ EnterEvents \/ LeaveEvents
           \/ Kill \/ DefaultAction \/ Deliver \/ HandlerLock \/ HandlerFails
           \/ PollDone \/ PollFails
  BY <1>3, AppInv
<1>4. CASE RegisterPid
  BY <1>4, RegisterPidInv
<1>5. CASE HandlerOpen \/ HandlerToBuffer \/ HandlerToPolling \/ PollLock \/ PollToPolling
  BY <1>5, DeviceInv
<1>6. CASE HandlerRead \/ PollRead
  BY <1>6, ReadCallInv
<1>7. CASE HandlerGot
  BY <1>7, HandlerGotInv
<1>8. CASE HandlerStore
  BY <1>8, HandlerStoreInv
<1>9. CASE UNCHANGED vars
  BY <1>9 DEF vars, appVars, driverVars, bufferVars, Inv, TypeOK, DriverTypeOK, BufferTypeOK,
     LockInv, ModeInv, BufferInv, OffsetInv, FetchInv, ReadInv, Holds, Unread, Reader, WholeEvents
<1> QED BY <1>1, <1>2, <1>3, <1>4, <1>5, <1>6, <1>7, <1>8, <1>9 DEF Next, HandlerStep, PollStep

\* The invariant holds in every state of every behaviour.
LEMMA Invariant == Spec => []Inv
BY InitInv, StepInv, PTL DEF Spec

\* Every variable of the driver and the application keeps its type: the driver
\* never fetches more words than the window has.
THEOREM TypeCorrect == Spec => []TypeOK
<1>1. Inv => TypeOK
  BY DEF Inv
<1> QED BY Invariant, <1>1, PTL

\* The lock keeps the mode, which all callers share, the one the reader asked for.
THEOREM ReadsInRequestedMode == Spec => []ReadInRequestedMode
<1>1. Inv => ReadInRequestedMode
  BY DEF Inv, ModeInv, ReadInRequestedMode, Reader
<1> QED BY Invariant, <1>1, PTL

\* What the application takes for an event is one whole window of one shock.
THEOREM EventsAreWhole == Spec => []WholeEvents
<1>1. Inv => WholeEvents
  BY DEF Inv
<1> QED BY Invariant, <1>1, PTL

\* Shocks reach the application in order, and no shock twice.
THEOREM ShocksInOrder == Spec => DeliveredOnce
<1>1. Inv /\ [Next]_vars =>
        [handler = "store" /\ handler' = "toPolling" /\ ~rd["main"].error
           => delivered' > delivered]_vars
  <2> SUFFICES ASSUME Inv, Next, handler = "store", handler' = "toPolling", ~rd["main"].error
               PROVE  delivered' > delivered
    OBVIOUS
  <2>1. HandlerStore
    <3>1. handler' # handler
      OBVIOUS
    <3> QED BY <3>1 DEF Next, HardwareStep, IrqStep, SendSignal, ForeignInterrupt, KernelRead,
         Start, RegisterPid, InstallHandler, ConstructorFails, EnterEvents, LeaveEvents, Kill,
         DefaultAction, Die, HandlerLock, HandlerFails, HandlerStep, Deliver, HandlerOpen,
         HandlerToBuffer, HandlerRead, HandlerGot, HandlerToPolling, Handler, PollLock,
         PollFails, PollStep, PollToPolling, PollRead, PollDone, appVars
  <2> QED BY <2>1, HandlerStoreInv DEF Reader
<1> QED BY Invariant, <1>1, PTL DEF Spec, DeliveredOnce

=============================================================================
