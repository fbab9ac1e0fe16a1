----------------------------- MODULE InputQueue -----------------------------
(***************************************************************************)
(* What the readers of the keyboard count on: a bounded queue of bytes in  *)
(* the order they were typed.  A reader copies a prefix of the queue and   *)
(* then removes exactly what it copied; bytes typed in between stay.  The  *)
(* shell may decide to throw away what was typed ahead, and only then does *)
(* a byte leave the queue without being read.                              *)
(***************************************************************************)
EXTENDS Sequences, Naturals

CONSTANTS Bytes, Size

VARIABLES queue,          \* what was typed and not yet read, oldest first
          got,            \* what the last read copied
          phase           \* "Idle", "Taking" (copied, not yet removed), "Discarding"

vars == <<queue, got, phase>>

Init == queue = <<>> /\ got = <<>> /\ phase = "Discarding"

\* A key is typed.  The device may also lose it, which changes nothing.
Type(b) ==
  /\ Len(queue) < Size
  /\ queue' = Append(queue, b)
  /\ UNCHANGED <<got, phase>>

Copy(k) ==
  /\ phase = "Idle" /\ phase' = "Taking"
  /\ got' = SubSeq(queue, 1, k)
  /\ UNCHANGED queue

Remove ==
  /\ phase = "Taking" /\ phase' = "Idle"
  /\ queue' = SubSeq(queue, Len(got) + 1, Len(queue))
  /\ UNCHANGED got

Discard ==
  /\ phase = "Idle" /\ phase' = "Discarding"
  /\ UNCHANGED <<queue, got>>

Clear ==
  /\ phase = "Discarding" /\ phase' = "Idle"
  /\ queue' = <<>>
  /\ UNCHANGED got

Next ==
  \/ \E b \in Bytes : Type(b)
  \/ \E k \in 1 .. Len(queue) : Copy(k)
  \/ Remove
  \/ Discard
  \/ Clear

Spec == Init /\ [][Next]_vars
=============================================================================
