------------------------------ MODULE Compress ------------------------------
(***************************************************************************)
(* compressMemory of user/event_sensors: deflate writes into a temporary   *)
(* buffer of fixed size, which is moved to the result when it is full.     *)
(*                                                                         *)
(* deflate belongs to zlib and is modelled by its contract: it goes on     *)
(* until its input is used up or its output space is, keeps what it has    *)
(* not written yet, and fails when it is called without output space.  A   *)
(* unit of the compressed stream is its number.                            *)
(***************************************************************************)
EXTENDS Naturals, Sequences

CONSTANTS
  BufSize,  \* BUFSIZE
  Inputs,   \* in_data_size, the possible ones
  Trailer   \* bound: units Z_FINISH adds to the stream

ASSUME SizesAssumption ==
  BufSize \in Nat \ {0} /\ Inputs \subseteq Nat /\ Trailer \in Nat \ {0}

VARIABLES
  pc,        \* feed, feedDrain, finishDrain, finish, finished, done or failed
  availIn,   \* strm.avail_in
  temp,      \* temp_buffer up to strm.next_out
  buffer,    \* the result
  produced,  \* units deflate has written
  held,      \* units it has still to write
  ended      \* it has been told that the input ends

vars == <<pc, availIn, temp, buffer, produced, held, ended>>

AvailOut == BufSize - Len(temp)
Units(from, to) == [i \in 1 .. to - from |-> from + i]

Init ==
  /\ availIn \in Inputs
  /\ pc = IF availIn = 0 THEN "finishDrain" ELSE "feed"
  /\ temp = <<>> /\ buffer = <<>> /\ produced = 0 /\ held = 0 /\ ended = FALSE

\* deflate writes n units of those it has.
Write(n, all) ==
  /\ n <= all /\ n <= AvailOut
  /\ temp' = temp \o Units(produced, produced + n)
  /\ produced' = produced + n /\ held' = all - n

\* deflate(Z_NO_FLUSH): a unit of input adds a unit to the stream at most.
Feed ==
  /\ pc = "feed"
  /\ \/ AvailOut = 0 /\ pc' = "failed" /\ UNCHANGED <<availIn, temp, produced, held>>
     \/ /\ AvailOut > 0 /\ pc' = "feedDrain"
        /\ \E used \in 0 .. availIn : \E gain \in 0 .. used, n \in 0 .. AvailOut :
             /\ Write(n, held + gain) /\ availIn' = availIn - used
             /\ used = availIn \/ n = AvailOut
  /\ UNCHANGED <<buffer, ended>>

DrainWithoutReset(from, to) ==  \* mutant of Drain: next_out is not set back
  /\ pc = from /\ pc' = to
  /\ IF AvailOut = 0 THEN buffer' = buffer \o temp /\ temp' = temp
                     ELSE UNCHANGED <<buffer, temp>>
  /\ UNCHANGED <<availIn, produced, held, ended>>

\* Moves a full temporary buffer to the result.
Drain(from, to) ==
  /\ pc = from /\ pc' = to
  /\ IF AvailOut = 0 THEN buffer' = buffer \o temp /\ temp' = <<>>
                     ELSE UNCHANGED <<buffer, temp>>
  /\ UNCHANGED <<availIn, produced, held, ended>>

AfterFeed == Drain("feedDrain", IF availIn # 0 THEN "feed" ELSE "finishDrain")
BeforeFinish == Drain("finishDrain", "finish")

\* deflate(Z_FINISH): Z_OK as long as the space does not suffice; when the stream fits
\* exactly, perhaps once more.
FinishOnce ==                   \* mutant of Finish: Z_OK ends the loop as well
  /\ pc = "finish"
  /\ \/ AvailOut = 0 /\ pc' = "failed" /\ UNCHANGED <<temp, produced, held, ended>>
     \/ /\ AvailOut > 0 /\ ended' = TRUE
        /\ \E t \in IF ended THEN {0} ELSE 1 .. Trailer, n \in 0 .. AvailOut :
             Write(n, held + t) /\ (held' = 0 \/ n = AvailOut)
        /\ pc' = "finished"
  /\ UNCHANGED <<availIn, buffer>>

Finish ==
  /\ pc = "finish"
  /\ \/ AvailOut = 0 /\ pc' = "failed" /\ UNCHANGED <<temp, produced, held, ended>>
     \/ /\ AvailOut > 0 /\ ended' = TRUE
        /\ \E t \in IF ended THEN {0} ELSE 1 .. Trailer, n \in 0 .. AvailOut :
             /\ Write(n, held + t)
             /\ \/ held' = 0 /\ pc' = "finished"
                \/ n = AvailOut /\ pc' = "finishDrain"
  /\ UNCHANGED <<availIn, buffer>>

\* The rest, however much it is, and the end.
Rest ==
  /\ pc = "finished" /\ pc' = "done"
  /\ buffer' = buffer \o temp
  /\ UNCHANGED <<availIn, temp, produced, held, ended>>

Next == Feed \/ AfterFeed \/ BeforeFinish \/ Finish \/ Rest

Spec == Init /\ [][Next]_vars
FairSpec == Spec /\ WF_vars(Next)

-----------------------------------------------------------------------------
(* Properties.                                                             *)

\* The result is the whole stream in its order, none of it lost or twice, wherever
\* it meets the end of the temporary buffer; the assertions on deflate's results hold.
WholeStream ==
  /\ pc # "failed"
  /\ pc = "done" => ended /\ availIn = 0 /\ held = 0 /\ buffer = Units(0, produced)

\* Both loops end.
Ends == <>(pc = "done")

=============================================================================
