----------------------------- MODULE InputProofs ----------------------------
(***************************************************************************)
(* The ring buffer implements the queue of InputQueue, for a buffer of any *)
(* size and reads of any length, as long as no more than one interrupt of  *)
(* the keyboard falls into one operation on the buffer.                    *)
(*                                                                         *)
(* The bound is needed: of two interrupts between PopElements's new tail   *)
(* and its reset of isFull the second can fill the buffer, and the reset   *)
(* then makes it look empty.  The invariant keeps the account of this: how *)
(* much room is left there for the interrupts yet to come.                 *)
(*                                                                         *)
(* What the interrupt puts there is right as well: the handler of Keyboard *)
(* prints what the keys meant, in the second part of this module.          *)
(***************************************************************************)
EXTENDS Input, Keyboard, SequenceTheorems, TLAPS

OneInterrupt == Burst <= 1

Filled == Length(head, tail, isFull)

TypeOK ==
  /\ buffer \in [0 .. Size - 1 -> Bytes]
  /\ head \in 0 .. Size - 1 /\ tail \in 0 .. Size - 1 /\ isFull \in BOOLEAN
  /\ pc \in Places /\ wanted \in Nat \ {0} /\ elements \in Nat /\ burst \in 0 .. Burst

\* isFull is stale only between the steps that move tail and those that reset it.
FullIsFull == pc \notin {"Reset", "ClearTail", "ClearFull"} /\ isFull => head = tail

\* A reader that found something still does, and takes no more than there is.
ReaderFinds == pc \in {"Count", "Span", "Copy", "Advance"} => head # tail \/ isFull
ReaderTakes == pc \in {"Copy", "Advance"} => elements \in 1 .. Filled
ReaderTook  == pc = "Advance" => Len(out) = elements

\* Before the reset isFull is what it was before tail moved, and an interrupt
\* yet to come cannot fill the buffer.
ResetInTime ==
  pc = "Reset" =>
    /\ elements \in 1 .. Size
    /\ isFull /\ head = tail <=> elements = Size
    /\ ~isFull => Length(head, tail, FALSE) + (Burst - burst) <= Size - 1

\* What came since head was cleared.
Cleared ==
  /\ pc \in {"ClearTail", "ClearFull"} => head <= burst
  /\ pc = "ClearFull" => tail = 0

Inv == TypeOK /\ FullIsFull /\ ReaderFinds /\ ReaderTakes /\ ReaderTook /\ ResetInTime /\ Cleared

-----------------------------------------------------------------------------
(* Slots, and the length of what lies between two of them.                 *)

LEMMA SizeIsPositive == Size \in Nat /\ Size >= 1 /\ LineSize \in Nat \ {0} /\ MaxRead \in Nat \ {0} /\ Burst \in Nat
  BY InputAssumption

LEMMA Wrap ==
  ASSUME NEW x \in 0 .. 2 * Size - 1
  PROVE  x % Size = IF x < Size THEN x ELSE x - Size
  BY SizeIsPositive

LEMMA Lengths ==
  ASSUME NEW h \in 0 .. Size - 1, NEW t \in 0 .. Size - 1, NEW full \in BOOLEAN, full => h = t
  PROVE  /\ Length(h, t, full) \in 0 .. Size
         /\ full <=> Length(h, t, full) = Size
         /\ (h # t \/ full) <=> Length(h, t, full) >= 1
         /\ (t + Length(h, t, full)) % Size = h
         /\ h = IF t + Length(h, t, full) < Size THEN t + Length(h, t, full)
                                                ELSE t + Length(h, t, full) - Size
  <1>1. CASE h > t
    BY <1>1, SizeIsPositive, Wrap DEF Length
  <1>2. CASE h = t /\ ~full
    BY <1>2, SizeIsPositive, Wrap DEF Length
  <1>3. CASE h = t /\ full
    BY <1>3, SizeIsPositive, Wrap DEF Length
  <1>4. CASE h < t
    BY <1>4, SizeIsPositive, Wrap DEF Length
  <1> QED
    BY <1>1, <1>2, <1>3, <1>4, SizeIsPositive

LEMMA Pushed ==
  ASSUME NEW h \in 0 .. Size - 1, NEW t \in 0 .. Size - 1, NEW h2, h2 = (h + 1) % Size
  PROVE  /\ h2 \in 0 .. Size - 1 /\ Length(h, t, FALSE) <= Size - 1
         /\ h2 = t => Length(h2, t, TRUE) = Length(h, t, FALSE) + 1
         /\ h2 # t => Length(h2, t, FALSE) = Length(h, t, FALSE) + 1
         /\ h2 = t <=> Length(h, t, FALSE) = Size - 1
  <1>1. h2 = IF h + 1 < Size THEN h + 1 ELSE h + 1 - Size
    BY SizeIsPositive, Wrap
  <1> QED
    BY <1>1, SizeIsPositive DEF Length

LEMMA Advanced ==
  ASSUME head \in 0 .. Size - 1, tail \in 0 .. Size - 1, isFull \in BOOLEAN, isFull => head = tail,
         elements \in 1 .. Filled, NEW t2, t2 = (tail + elements) % Size
  PROVE  /\ t2 \in 0 .. Size - 1 /\ elements \in 1 .. Size
         /\ Length(head, t2, FALSE) = Filled - elements
         /\ head # t2 => Length(head, t2, isFull) = Filled - elements
         /\ isFull => (head = t2 <=> elements = Size)
         /\ ~isFull => elements # Size
  <1>1. Filled \in 0 .. Size
    BY Lengths DEF Filled
  <1>2. t2 = IF tail + elements < Size THEN tail + elements ELSE tail + elements - Size
    <2>1. elements \in 1 .. Size
      BY <1>1, SizeIsPositive
    <2>2. PICK x : x = tail + elements
      OBVIOUS
    <2>3. x \in 0 .. 2 * Size - 1
      BY <2>1, <2>2, SizeIsPositive
    <2>4. x % Size = IF x < Size THEN x ELSE x - Size
      BY <2>3, Wrap
    <2>5. t2 = x % Size
      BY <2>2
    <2>6. t2 = IF x < Size THEN x ELSE x - Size
      BY <2>4, <2>5
    <2> QED
      BY <2>1, <2>2, <2>6, SizeIsPositive
  <1>3. CASE isFull
    BY <1>1, <1>2, <1>3, SizeIsPositive DEF Length, Filled
  <1>4. CASE ~isFull
    BY <1>1, <1>2, <1>4, SizeIsPositive DEF Length, Filled
  <1> QED
    BY <1>3, <1>4

-----------------------------------------------------------------------------
(* The invariant.                                                          *)

LEMMA InitInv == Init => Inv
  <1> SUFFICES ASSUME Init PROVE Inv
    OBVIOUS
  <1>1. TypeOK
    BY SizeIsPositive DEF Init, TypeOK, Bytes, Places, Clearing
  <1>2. FullIsFull /\ ReaderFinds /\ ReaderTakes /\ ReaderTook /\ ResetInTime /\ Cleared
    BY DEF Init, FullIsFull, ReaderFinds, ReaderTakes, ReaderTook, ResetInTime, Cleared
  <1> QED
    BY <1>1, <1>2 DEF Inv

LEMMA InterruptKeepsInv ==
  ASSUME Inv, NEW byte \in Bytes, InsertInput(byte), OneInterrupt
  PROVE  Inv'
  <1>1. /\ pc \in Operation => burst < Burst
        /\ pc' = IF pc = "Halted" THEN "TestFull" ELSE pc
        /\ burst' = IF pc \in Operation THEN burst + 1 ELSE 0
        /\ UNCHANGED <<wanted, elements, out>>
    BY DEF InsertInput, Interrupted
  <1>2. /\ pc' \in Places /\ wanted' \in Nat \ {0} /\ elements' \in Nat /\ burst' \in 0 .. Burst
    BY <1>1, SizeIsPositive DEF Inv, TypeOK, Places, Popping
  <1>3. CASE isFull /\ UNCHANGED ring
    <2>1. TypeOK'
      BY <1>2, <1>3 DEF Inv, TypeOK, ring
    <2>2. FullIsFull' /\ ReaderFinds' /\ ReaderTakes' /\ ReaderTook'
      BY <1>1, <1>3 DEF Inv, FullIsFull, ReaderFinds, ReaderTakes, ReaderTook, Filled, ring
    <2>3. ResetInTime'
      BY <1>1, <1>3 DEF Inv, ResetInTime, ring
    <2>4. Cleared'
      BY <1>1, <1>3 DEF Inv, TypeOK, Cleared, ring, Operation, Clearing
    <2> QED
      BY <2>1, <2>2, <2>3, <2>4 DEF Inv
  <1>4. CASE /\ ~isFull /\ buffer' = [buffer EXCEPT ![head] = byte]
             /\ head' = (head + 1) % Size /\ isFull' = (head' = tail) /\ UNCHANGED tail
    <2>0. head \in 0 .. Size - 1 /\ tail \in 0 .. Size - 1
      BY DEF Inv, TypeOK
    <2>1. /\ head' \in 0 .. Size - 1 /\ Length(head, tail, FALSE) <= Size - 1
          /\ head' = tail => Length(head', tail, TRUE) = Length(head, tail, FALSE) + 1
          /\ head' # tail => Length(head', tail, FALSE) = Length(head, tail, FALSE) + 1
          /\ head' = tail <=> Length(head, tail, FALSE) = Size - 1
      BY <1>4, <2>0, Pushed
    <2>2. Length(head, tail, isFull) = Length(head, tail, FALSE)
      BY <1>4 DEF Length
    <2>3. Length(head', tail', isFull') = Length(head, tail, FALSE) + 1
      <3>1. CASE head' = tail
        BY <1>4, <2>1, <3>1 DEF Length
      <3>2. CASE head' # tail
        BY <1>4, <2>1, <3>2 DEF Length
      <3> QED
        BY <3>1, <3>2
    <2>4. TypeOK'
      BY <1>2, <1>4, <2>1 DEF Inv, TypeOK
    <2>5. FullIsFull' /\ ReaderTook'
      BY <1>1, <1>4 DEF Inv, FullIsFull, ReaderTook
    <2>6. Length(head, tail, FALSE) \in 0 .. Size
      BY <2>0, Lengths
    <2>7. ReaderTakes'
      <3>1. PICK n : n = Length(head, tail, FALSE)
        OBVIOUS
      <3>a. Filled = n
        BY <2>2, <3>1 DEF Filled
      <3>b. Filled' = n + 1
        BY <2>3, <3>1 DEF Filled
      <3>c. n \in Nat
        <4>1. n \in 0 .. Size
          BY <2>6, <3>1
        <4> QED
          BY <4>1, SizeIsPositive
      <3>2. Filled = n /\ Filled' = n + 1 /\ n \in Nat
        BY <3>a, <3>b, <3>c
      <3>3. pc' \in {"Copy", "Advance"} => elements \in 1 .. n
        BY <1>1, <3>2 DEF Inv, ReaderTakes
      <3>4. pc' \in {"Copy", "Advance"} => elements' \in 1 .. n + 1
        BY <1>1, <3>2, <3>3
      <3> QED
        BY <3>2, <3>4 DEF ReaderTakes
    <2>8. ReaderFinds'
      <3>1. head' = tail' => isFull'
        BY <1>4
      <3> QED
        BY <3>1 DEF ReaderFinds
    <2>9. ResetInTime'
      <3>1. SUFFICES ASSUME pc' = "Reset"
                     PROVE  /\ elements' \in 1 .. Size
                            /\ isFull' /\ head' = tail' <=> elements' = Size
                            /\ ~isFull' => Length(head', tail', FALSE) + (Burst - burst') <= Size - 1
        BY DEF ResetInTime
      <3>2. pc = "Reset" /\ pc \in Operation /\ burst < Burst /\ burst' = burst + 1
        BY <1>1, <3>1 DEF Operation, Popping
      <3>3. /\ elements \in 1 .. Size /\ elements # Size
            /\ Length(head, tail, FALSE) + (Burst - burst) <= Size - 1
        BY <1>4, <3>2 DEF Inv, ResetInTime
      <3>4. Burst = 1 /\ burst = 0
        BY <3>2, SizeIsPositive DEF OneInterrupt, Inv, TypeOK
      <3>a. PICK n : n = Length(head, tail, FALSE)
        OBVIOUS
      <3>b. n \in 0 .. Size /\ n + (1 - 0) <= Size - 1
        BY <2>6, <3>3, <3>4, <3>a
      <3>5. n # Size - 1 /\ n + 1 + (1 - 1) <= Size - 1
        BY <3>b, SizeIsPositive
      <3>6. head' # tail /\ ~isFull'
        BY <1>4, <2>1, <3>5, <3>a
      <3>c. Length(head', tail', FALSE) = n + 1 /\ burst' = 1
        <4>1. Length(head', tail, FALSE) = n + 1
          BY <2>1, <3>6, <3>a
        <4>2. burst' = 1
          BY <3>2, <3>4
        <4> QED
          BY <1>4, <4>1, <4>2
      <3>7. Length(head', tail', FALSE) + (Burst - burst') <= Size - 1
        BY <3>4, <3>5, <3>c
      <3> QED
        BY <1>1, <1>4, <3>3, <3>6, <3>7
    <2>10. Cleared'
      <3>1. ASSUME pc' \in {"ClearTail", "ClearFull"} PROVE head' <= burst'
        <4>1. pc \in {"ClearTail", "ClearFull"} /\ pc \in Operation
          BY <1>1, <3>1 DEF Operation, Clearing
        <4>2. head <= burst /\ burst' = burst + 1 /\ burst \in Nat
          BY <1>1, <4>1, SizeIsPositive DEF Inv, Cleared, TypeOK
        <4>3. head' <= head + 1
          BY <1>4, <2>0, SizeIsPositive, Wrap
        <4> QED
          BY <2>0, <2>1, <4>2, <4>3, SizeIsPositive
      <3>2. pc' = "ClearFull" => tail' = 0
        BY <1>1, <1>4 DEF Inv, Cleared
      <3> QED
        BY <3>1, <3>2 DEF Cleared
    <2> QED
      BY <2>4, <2>5, <2>7, <2>8, <2>9, <2>10 DEF Inv
  <1> QED
    BY <1>3, <1>4 DEF InsertInput, Push

LEMMA ReleaseKeepsInv ==
  ASSUME Inv, ReleaseInterrupt
  PROVE  Inv'
  <1>1. /\ pc \in Operation => burst < Burst
        /\ pc' = IF pc = "Halted" THEN "TestFull" ELSE pc
        /\ burst' = IF pc \in Operation THEN burst + 1 ELSE 0
        /\ UNCHANGED <<wanted, elements, out>> /\ UNCHANGED ring
    BY DEF ReleaseInterrupt, Interrupted
  <1>2. TypeOK'
    BY <1>1, SizeIsPositive DEF Inv, TypeOK, Places, Popping, ring
  <1>3. FullIsFull' /\ ReaderFinds' /\ ReaderTakes' /\ ReaderTook'
    BY <1>1 DEF Inv, FullIsFull, ReaderFinds, ReaderTakes, ReaderTook, Filled, ring
  <1>4. ResetInTime'
    <2>1. SUFFICES ASSUME pc' = "Reset"
                   PROVE  /\ elements' \in 1 .. Size
                          /\ isFull' /\ head' = tail' <=> elements' = Size
                          /\ ~isFull' => Length(head', tail', FALSE) + (Burst - burst') <= Size - 1
      BY DEF ResetInTime
    <2>2. pc = "Reset" /\ burst' = burst + 1 /\ UNCHANGED <<head, tail, isFull, elements>>
      BY <1>1, <2>1 DEF Operation, Popping, ring
    <2>3. /\ elements \in 1 .. Size
          /\ isFull /\ head = tail <=> elements = Size
          /\ ~isFull => Length(head, tail, FALSE) + (Burst - burst) <= Size - 1
      BY <2>2 DEF Inv, ResetInTime
    <2>4. PICK n : n = Length(head, tail, FALSE)
      OBVIOUS
    <2>5. n \in 0 .. Size
      BY <2>4, Lengths DEF Inv, TypeOK
    <2>6. n + (Burst - burst) <= Size - 1 => n + (Burst - (burst + 1)) <= Size - 1
      BY <2>5, SizeIsPositive DEF Inv, TypeOK
    <2> QED
      BY <2>2, <2>3, <2>4, <2>6
  <1>5. Cleared'
    BY <1>1 DEF Inv, TypeOK, Cleared, ring, Operation, Clearing
  <1> QED
    BY <1>2, <1>3, <1>4, <1>5 DEF Inv

\* A step to a place where nothing is claimed beyond FullIsFull.
Quiet == Places \ {"Count", "Span", "Copy", "Advance", "Reset", "ClearTail", "ClearFull"}

LEMMA QuietStep ==
  ASSUME TypeOK', pc' \in Quiet, isFull' => head' = tail'
  PROVE  Inv'
  BY DEF Inv, Quiet, FullIsFull, ReaderFinds, ReaderTakes, ReaderTook, ResetInTime, Cleared

LEMMA LookKeepsInv ==
  ASSUME Inv, TestFull \/ TestEmpty
  PROVE  Inv'
  <1>1. /\ pc \in {"TestFull", "TestEmpty"} /\ UNCHANGED <<buffer, head, tail, isFull, wanted, elements, burst>>
        /\ pc' \in {"TestEmpty", "Sti", "Count"}
        /\ pc' = "Count" => head # tail \/ isFull
    BY DEF TestFull, TestEmpty, Goto, ring
  <1>2. TypeOK'
    BY <1>1 DEF Inv, TypeOK, Places, Popping, Waiting
  <1>3. isFull' => head' = tail'
    BY <1>1 DEF Inv, FullIsFull
  <1>4. CASE pc' = "Count"
    BY <1>1, <1>2, <1>3, <1>4 DEF Inv, FullIsFull, ReaderFinds, ReaderTakes, ReaderTook, ResetInTime, Cleared
  <1>5. CASE pc' # "Count"
    BY <1>1, <1>2, <1>3, <1>5, QuietStep DEF Quiet, Places, Popping, Waiting
  <1> QED
    BY <1>4, <1>5

LEMMA CountKeepsInv ==
  ASSUME Inv, Count \/ Span
  PROVE  Inv'
  <1>1. /\ pc \in {"Count", "Span"} /\ UNCHANGED <<buffer, head, tail, isFull, wanted, burst>>
        /\ pc' \in {"Copy", "Span"}
        /\ pc' = "Span" => elements' = elements
    BY DEF Count, Span, Goto, ring
  <1>2. /\ head \in 0 .. Size - 1 /\ tail \in 0 .. Size - 1 /\ isFull \in BOOLEAN /\ (isFull => head = tail)
        /\ (head # tail \/ isFull) /\ wanted \in Nat \ {0}
    BY <1>1 DEF Inv, TypeOK, FullIsFull, ReaderFinds
  <1>3. PICK n : n = Length(head, tail, isFull)
    OBVIOUS
  <1>4. n \in 1 .. Size
    <2>1. n \in 0 .. Size /\ n >= 1
      BY <1>2, <1>3, Lengths
    <2> QED
      BY <2>1, SizeIsPositive
  <1>5. pc' = "Copy" => elements' = AtMost(n)
    <2>1. CASE Count
      <3>1. isFull => n = Size
        BY <1>2, <1>3, Lengths
      <3> QED
        BY <2>1, <3>1 DEF Count, Goto
    <2>2. CASE Span
      <3>1. n = IF head > tail THEN head - tail ELSE Size - tail + head
        BY <1>2, <1>3 DEF Length
      <3> QED
        BY <2>2, <3>1 DEF Span
    <2> QED
      BY <2>1, <2>2
  <1>6. AtMost(n) \in 1 .. n /\ AtMost(n) \in Nat
    BY <1>2, <1>4, SizeIsPositive DEF AtMost
  <1>7. TypeOK'
    BY <1>1, <1>5, <1>6 DEF Inv, TypeOK, Places, Popping
  <1>8. ReaderTakes'
    <2>1. Filled' = n
      BY <1>1, <1>3 DEF Filled
    <2> QED
      BY <1>1, <1>5, <1>6, <2>1 DEF ReaderTakes
  <1> QED
    BY <1>1, <1>2, <1>7, <1>8 DEF Inv, FullIsFull, ReaderFinds, ReaderTook, ResetInTime, Cleared

\* What Copy copies, and how much.
LEMMA CopiedLength == ASSUME elements \in Nat PROVE Len(Copied) = elements /\ DOMAIN Copied = 1 .. elements
  BY DEF Copied

LEMMA CopyKeepsInv ==
  ASSUME Inv, Copy
  PROVE  Inv'
  <1>1. /\ pc = "Copy" /\ UNCHANGED <<buffer, head, tail, isFull, wanted, elements, burst>>
        /\ pc' = "Advance" /\ out' = Copied
    BY DEF Copy, Goto, ring
  <1>2. TypeOK'
    BY <1>1 DEF Inv, TypeOK, Places, Popping
  <1>3. ReaderTook'
    BY <1>1, CopiedLength DEF Inv, TypeOK, ReaderTook
  <1> QED
    BY <1>1, <1>2, <1>3 DEF Inv, FullIsFull, ReaderFinds, ReaderTakes, Filled, ResetInTime, Cleared

LEMMA AdvanceKeepsInv ==
  ASSUME Inv, Advance, OneInterrupt
  PROVE  Inv'
  <1>1. /\ pc = "Advance" /\ UNCHANGED <<buffer, head, isFull, wanted, elements, burst>>
        /\ pc' = "Reset" /\ tail' = (tail + elements) % Size
    BY DEF Advance, Goto
  <1>2. /\ head \in 0 .. Size - 1 /\ tail \in 0 .. Size - 1 /\ isFull \in BOOLEAN /\ (isFull => head = tail)
        /\ elements \in 1 .. Length(head, tail, isFull)
    BY <1>1 DEF Inv, TypeOK, FullIsFull, ReaderTakes, Filled
  <1>3. PICK n : n = Length(head, tail, isFull)
    OBVIOUS
  <1>4. n \in 0 .. Size /\ (isFull <=> n = Size) /\ elements \in 1 .. n
    BY <1>2, <1>3, Lengths
  <1>5. /\ tail' \in 0 .. Size - 1 /\ elements \in 1 .. Size
        /\ Length(head, tail', FALSE) = n - elements
        /\ isFull => (head = tail' <=> elements = Size)
        /\ ~isFull => elements # Size
    <2>1. /\ tail' \in 0 .. Size - 1 /\ elements \in 1 .. Size
          /\ Length(head, tail', FALSE) = Filled - elements
          /\ isFull => (head = tail' <=> elements = Size)
          /\ ~isFull => elements # Size
      <3>1. elements \in 1 .. Filled
        BY <1>2 DEF Filled
      <3> QED
        BY <1>1, <1>2, <3>1, Advanced
    <2> QED
      BY <1>3, <2>1 DEF Filled
  <1>6. TypeOK'
    BY <1>1, <1>5 DEF Inv, TypeOK, Places, Popping
  <1>7. ResetInTime'
    <2>1. isFull' /\ head' = tail' <=> elements' = Size
      BY <1>1, <1>5
    <2>2. ~isFull => n - elements + (Burst - burst) <= Size - 1
      <3>1. ~isFull => n <= Size - 1 /\ elements >= 1
        BY <1>4, SizeIsPositive
      <3>2. burst \in Nat /\ Burst \in Nat /\ Burst <= 1
        BY SizeIsPositive DEF OneInterrupt, Inv, TypeOK
      <3> QED
        BY <1>4, <3>1, <3>2, SizeIsPositive
    <2>3. ~isFull' => Length(head', tail', FALSE) + (Burst - burst') <= Size - 1
      BY <1>1, <1>5, <2>2
    <2> QED
      BY <1>1, <1>5, <2>1, <2>3 DEF ResetInTime
  <1> QED
    BY <1>1, <1>6, <1>7 DEF Inv, FullIsFull, ReaderFinds, ReaderTakes, ReaderTook, Cleared

LEMMA ClearKeepsInv ==
  ASSUME Inv, ClearHead \/ ClearTail
  PROVE  Inv'
  <1>1. /\ pc \in {"ClearHead", "ClearTail"} /\ UNCHANGED <<buffer, isFull, wanted, elements, burst>>
        /\ pc = "ClearHead" => pc' = "ClearTail" /\ head' = 0 /\ tail' = tail
        /\ pc = "ClearTail" => pc' = "ClearFull" /\ tail' = 0 /\ head' = head
    BY DEF ClearHead, ClearTail, Goto
  <1>2. TypeOK'
    BY <1>1, SizeIsPositive DEF Inv, TypeOK, Places, Clearing
  <1>3. Cleared'
    BY <1>1, SizeIsPositive DEF Inv, TypeOK, Cleared
  <1> QED
    BY <1>1, <1>2, <1>3 DEF Inv, FullIsFull, ReaderFinds, ReaderTakes, ReaderTook, ResetInTime

\* The steps after which the reader's place says nothing of the ring.
LEMMA RestKeepsInv ==
  ASSUME Inv, Reset \/ Sti \/ Hlt \/ ClearFull \/ ShellGot \/ ProgramGot \/ ProgramRead \/ ProgramExit
  PROVE  Inv'
  <1>1. pc' \in Quiet
    BY DEF Reset, Sti, Hlt, ClearFull, ShellGot, ProgramGot, ProgramRead, ProgramExit, Goto,
           Quiet, Places, Popping, Waiting, Clearing
  <1>2. UNCHANGED <<buffer, head, tail, elements>>
    BY DEF Reset, Sti, Hlt, ClearFull, ShellGot, ProgramGot, ProgramRead, ProgramExit, Goto, ring
  <1>3. wanted' \in Nat \ {0}
    <2>1. \A count \in 1 .. MaxRead : count \in Nat \ {0}
      BY SizeIsPositive
    <2> QED
      BY <2>1, SizeIsPositive DEF Inv, TypeOK, Reset, Sti, Hlt, ClearFull, ShellGot, ProgramGot,
           ProgramRead, ProgramExit, Goto
  <1>4. burst' = burst \/ burst' = 0
    BY DEF Reset, Sti, Hlt, ClearFull, ShellGot, ProgramGot, ProgramRead, ProgramExit, Goto
  <1>5. burst' \in 0 .. Burst
    BY <1>4, SizeIsPositive DEF Inv, TypeOK
  <1>6. isFull' \in BOOLEAN /\ (isFull' => isFull /\ pc \notin {"Reset", "ClearTail", "ClearFull"})
    <2>1. isFull' = FALSE \/ (isFull' = isFull /\ pc \notin {"Reset", "ClearTail", "ClearFull"})
      BY DEF Reset, Sti, Hlt, ClearFull, ShellGot, ProgramGot, ProgramRead, ProgramExit, Goto, ring
    <2>2. isFull \in BOOLEAN
      BY DEF Inv, TypeOK
    <2>3. CASE isFull' = FALSE
      BY <2>3
    <2>4. CASE isFull' = isFull /\ pc \notin {"Reset", "ClearTail", "ClearFull"}
      BY <2>2, <2>4
    <2> QED
      BY <2>1, <2>3, <2>4
  <1>7. isFull' => head' = tail'
    BY <1>2, <1>6 DEF Inv, FullIsFull
  <1>8. TypeOK'
    BY <1>1, <1>2, <1>3, <1>5, <1>6 DEF Inv, TypeOK, Quiet
  <1> QED
    BY <1>1, <1>7, <1>8, QuietStep

LEMMA NextKeepsInv == ASSUME OneInterrupt, Inv, [Next]_vars PROVE Inv'
  <1>1. CASE UNCHANGED vars
    BY <1>1 DEF vars, ring, Inv, TypeOK, FullIsFull, ReaderFinds, ReaderTakes, ReaderTook, Filled, ResetInTime, Cleared
  <1>2. CASE Next
    BY <1>2, InterruptKeepsInv, ReleaseKeepsInv, LookKeepsInv, CountKeepsInv, CopyKeepsInv, AdvanceKeepsInv,
       ClearKeepsInv, RestKeepsInv DEF Next, Mainline, PopElements
  <1> QED
    BY <1>1, <1>2

LEMMA AlwaysInv == ASSUME OneInterrupt PROVE Spec => []Inv
  BY InitInv, NextKeepsInv, PTL DEF Spec

-----------------------------------------------------------------------------
(* Runs of slots.                                                          *)

Slot(first, i) == (first + i - 1) % Size
Slots(b, first, n) == [i \in 1 .. n |-> b[Slot(first, i)]]

LEMMA SlotIs ==
  ASSUME NEW first \in 0 .. Size - 1, NEW i \in 1 .. Size
  PROVE  /\ Slot(first, i) = IF first + i - 1 < Size THEN first + i - 1 ELSE first + i - 1 - Size
         /\ Slot(first, i) \in 0 .. Size - 1
  <1>1. PICK x : x = first + i - 1
    OBVIOUS
  <1>2. x \in 0 .. 2 * Size - 1
    BY <1>1, SizeIsPositive
  <1>3. x % Size = IF x < Size THEN x ELSE x - Size
    BY <1>2, Wrap
  <1> QED
    BY <1>1, <1>2, <1>3, SizeIsPositive DEF Slot

LEMMA SlotsAre ==
  ASSUME NEW b \in [0 .. Size - 1 -> Bytes], NEW first \in 0 .. Size - 1, NEW n \in 0 .. Size
  PROVE  /\ Slots(b, first, n) \in Seq(Bytes) /\ Len(Slots(b, first, n)) = n
         /\ \A i \in 1 .. n : Slots(b, first, n)[i] = b[Slot(first, i)] /\ b[Slot(first, i)] \in Bytes
  <1>1. n \in Nat /\ \A i \in 1 .. n : i \in 1 .. Size
    BY SizeIsPositive
  <1>2. \A i \in 1 .. n : b[Slot(first, i)] \in Bytes
    BY <1>1, SlotIs
  <1> QED
    BY <1>1, <1>2 DEF Slots

\* A byte is pushed into the slot after the last.
LEMMA SlotsPushed ==
  ASSUME NEW byte \in Bytes, buffer \in [0 .. Size - 1 -> Bytes], head \in 0 .. Size - 1,
         buffer' = [buffer EXCEPT ![head] = byte],
         NEW first \in 0 .. Size - 1, NEW n \in 0 .. Size - 1,
         head = IF first + n < Size THEN first + n ELSE first + n - Size
  PROVE  Slots(buffer', first, n + 1) = Append(Slots(buffer, first, n), byte)
  <1>a. PICK b, b2, h : b = buffer /\ b2 = buffer' /\ h = head
    OBVIOUS
  <1>b. /\ b \in [0 .. Size - 1 -> Bytes] /\ b2 \in [0 .. Size - 1 -> Bytes] /\ b2[h] = byte
        /\ \A j \in 0 .. Size - 1 : j # h => b2[j] = b[j]
    BY <1>a
  <1>c. h = IF first + n < Size THEN first + n ELSE first + n - Size
    BY <1>a
  <1>1. n \in 0 .. Size /\ n + 1 \in 0 .. Size /\ n \in Nat /\ h \in 0 .. Size - 1
    BY <1>c, SizeIsPositive
  <1>3. PICK s, t : s = Slots(b, first, n) /\ t = Slots(b2, first, n + 1)
    OBVIOUS
  <1>4. s \in Seq(Bytes) /\ Len(s) = n /\ \A i \in 1 .. n : s[i] = b[Slot(first, i)]
    BY <1>1, <1>3, <1>b, SlotsAre
  <1>5. t \in Seq(Bytes) /\ Len(t) = n + 1 /\ \A i \in 1 .. n + 1 : t[i] = b2[Slot(first, i)]
    <2>1. PICK m \in 0 .. Size : m = n + 1
      BY <1>1
    <2>a. t = Slots(b2, first, m)
      BY <1>3, <2>1
    <2>2. t \in Seq(Bytes) /\ Len(t) = m /\ \A i \in 1 .. m : t[i] = b2[Slot(first, i)]
      BY <1>b, <2>a, SlotsAre
    <2> QED
      BY <2>1, <2>2
  <1>6. ASSUME NEW i \in 1 .. n PROVE Slot(first, i) \in 0 .. Size - 1 /\ Slot(first, i) # h
    <2>1. i \in 1 .. Size
      BY SizeIsPositive
    <2>2. /\ Slot(first, i) = IF first + i - 1 < Size THEN first + i - 1 ELSE first + i - 1 - Size
          /\ Slot(first, i) \in 0 .. Size - 1
      BY <2>1, SlotIs
    <2> QED
      BY <1>c, <2>2, SizeIsPositive
  <1>7. Slot(first, n + 1) = h
    <2>1. n + 1 \in 1 .. Size /\ first + (n + 1) - 1 = first + n
      BY SizeIsPositive
    <2>2. Slot(first, n + 1) = IF first + (n + 1) - 1 < Size THEN first + (n + 1) - 1 ELSE first + (n + 1) - 1 - Size
      BY <2>1, SlotIs
    <2> QED
      BY <1>c, <2>1, <2>2
  <1>8. PICK a : a = Append(s, byte)
    OBVIOUS
  <1>9. a \in Seq(Bytes) /\ Len(a) = n + 1 /\ a[n + 1] = byte /\ \A i \in 1 .. n : a[i] = s[i]
    BY <1>1, <1>4, <1>8
  <1>10. ASSUME NEW i \in 1 .. n PROVE t[i] = a[i]
    <2>1. i \in 1 .. n + 1
      BY <1>1
    <2>2. t[i] = b2[Slot(first, i)] /\ a[i] = b[Slot(first, i)]
      BY <1>4, <1>5, <1>9, <2>1
    <2>3. b2[Slot(first, i)] = b[Slot(first, i)]
      BY <1>6, <1>b
    <2> QED
      BY <2>2, <2>3
  <1>11. t[n + 1] = a[n + 1]
    BY <1>1, <1>5, <1>7, <1>9, <1>b
  <1>12. \A i \in 1 .. n + 1 : t[i] = a[i]
    BY <1>1, <1>10, <1>11
  <1> QED
    BY <1>3, <1>5, <1>8, <1>9, <1>12, <1>a, SeqEqual

\* The first k are taken out.
LEMMA SlotsDropped ==
  ASSUME NEW b \in [0 .. Size - 1 -> Bytes], NEW first \in 0 .. Size - 1, NEW n \in 0 .. Size, NEW k \in 1 .. n,
         NEW f2, f2 = IF first + k < Size THEN first + k ELSE first + k - Size
  PROVE  Slots(b, f2, n - k) = SubSeq(Slots(b, first, n), k + 1, n)
  <1>1. /\ n - k \in 0 .. Size /\ f2 \in 0 .. Size - 1 /\ n \in Nat /\ k \in Nat /\ k + 1 \in Int /\ n \in Int
        /\ k <= n
    BY SizeIsPositive
  <1>2. PICK s, t : s = Slots(b, first, n) /\ t = Slots(b, f2, n - k)
    OBVIOUS
  <1>3. s \in Seq(Bytes) /\ Len(s) = n /\ \A i \in 1 .. n : s[i] = b[Slot(first, i)] /\ b[Slot(first, i)] \in Bytes
    BY <1>1, <1>2, SlotsAre
  <1>4. t \in Seq(Bytes) /\ Len(t) = n - k /\ \A i \in 1 .. n - k : t[i] = b[Slot(f2, i)]
    BY <1>1, <1>2, SlotsAre
  <1>5. PICK u : u = SubSeq(s, k + 1, n)
    OBVIOUS
  <1>6. \A i \in k + 1 .. n : s[i] \in Bytes
    BY <1>1, <1>3
  <1>7. /\ u \in Seq(Bytes) /\ Len(u) = IF k + 1 <= n THEN n - (k + 1) + 1 ELSE 0
        /\ \A i \in 1 .. n - (k + 1) + 1 : u[i] = s[(k + 1) + i - 1]
    BY <1>1, <1>5, <1>6, SubSeqProperties
  <1>8. Len(u) = n - k
    BY <1>1, <1>7
  <1>9. ASSUME NEW i \in 1 .. n - k PROVE t[i] = u[i]
    <2>1. i \in 1 .. n - (k + 1) + 1 /\ (k + 1) + i - 1 = k + i /\ k + i \in 1 .. n /\ k + i \in 1 .. Size /\ i \in 1 .. Size
      BY <1>1, SizeIsPositive
    <2>2. u[i] = b[Slot(first, k + i)] /\ t[i] = b[Slot(f2, i)]
      BY <1>3, <1>4, <1>7, <2>1
    <2>3. Slot(first, k + i) = IF first + (k + i) - 1 < Size THEN first + (k + i) - 1 ELSE first + (k + i) - 1 - Size
      BY <2>1, SlotIs
    <2>4. Slot(f2, i) = IF f2 + i - 1 < Size THEN f2 + i - 1 ELSE f2 + i - 1 - Size
      BY <1>1, <2>1, SlotIs
    <2>5. Slot(first, k + i) = Slot(f2, i)
      BY <1>1, <2>1, <2>3, <2>4, SizeIsPositive
    <2> QED
      BY <2>2, <2>5
  <1>10. \A i \in 1 .. Len(t) : t[i] = u[i]
    BY <1>4, <1>9
  <1> QED
    BY <1>2, <1>4, <1>5, <1>7, <1>8, <1>10, SeqEqual

-----------------------------------------------------------------------------
(* What the ring holds, by where the reader is.                            *)

LEMMA ContentsAre == Contents = Slots(buffer, FirstSlot, Held)
  BY DEF Contents, Slots, Slot

LEMMA HeldWhileClearing ==
  ASSUME pc \in {"ClearTail", "ClearFull"}
  PROVE  Held = head /\ FirstSlot = 0
  BY DEF Held, FirstSlot

LEMMA HeldOtherwise ==
  ASSUME Inv, pc \notin {"ClearTail", "ClearFull"}
  PROVE  /\ FirstSlot = tail /\ Held \in 0 .. Size
         /\ pc # "Reset" => Held = Filled
         /\ Held = IF pc = "Reset" THEN Length(head, tail, FALSE) ELSE Filled
  <1>1. FirstSlot = tail
    BY DEF FirstSlot
  <1>2. /\ head \in 0 .. Size - 1 /\ tail \in 0 .. Size - 1 /\ isFull \in BOOLEAN
        /\ pc # "Reset" /\ isFull => head = tail
    BY DEF Inv, TypeOK, FullIsFull
  <1>3. CASE pc # "Reset"
    <2>1. Held = Filled
      BY <1>3 DEF Held, Filled
    <2>2. Filled \in 0 .. Size
      BY <1>2, <1>3, Lengths DEF Filled
    <2> QED
      BY <1>1, <1>3, <2>1, <2>2
  <1>4. CASE pc = "Reset"
    <2>1. isFull /\ head = tail <=> elements = Size
      BY <1>4 DEF Inv, ResetInTime
    <2>2. Held = IF elements = Size /\ head = tail THEN 0 ELSE Length(head, tail, isFull)
      BY <1>4 DEF Held
    <2>3. Held = Length(head, tail, FALSE)
      BY <1>2, <2>1, <2>2 DEF Length
    <2>4. Length(head, tail, FALSE) \in 0 .. Size
      BY <1>2, Lengths
    <2> QED
      BY <1>1, <1>4, <2>3, <2>4
  <1> QED
    BY <1>3, <1>4

\* The queue is one, of at most Size bytes.
LEMMA ContentsLength ==
  ASSUME Inv
  PROVE  Held \in 0 .. Size /\ FirstSlot \in 0 .. Size - 1 /\ Contents \in Seq(Bytes) /\ Len(Contents) = Held
  <1>1. Held \in 0 .. Size /\ FirstSlot \in 0 .. Size - 1
    <2>1. CASE pc \in {"ClearTail", "ClearFull"}
      BY <2>1, HeldWhileClearing, SizeIsPositive DEF Inv, TypeOK
    <2>2. CASE pc \notin {"ClearTail", "ClearFull"}
      BY <2>2, HeldOtherwise DEF Inv, TypeOK
    <2> QED
      BY <2>1, <2>2
  <1>2. buffer \in [0 .. Size - 1 -> Bytes]
    BY DEF Inv, TypeOK
  <1> QED
    BY <1>1, <1>2, ContentsAre, SlotsAre

\* A step that leaves the ring alone, or only its stale flag, leaves the queue.
LEMMA SameContents ==
  ASSUME buffer' = buffer, FirstSlot' = FirstSlot, Held' = Held
  PROVE  Contents' = Contents
  BY DEF Contents

-----------------------------------------------------------------------------
(* Step by step.                                                           *)

LEMMA InitRefined == Init => Abstract!Init
  <1> SUFFICES ASSUME Init PROVE Abstract!Init
    OBVIOUS
  <1>1. Held = 0
    BY DEF Init, Held, Length
  <1>2. Contents = <<>>
    BY <1>1 DEF Contents
  <1>3. out = <<>> /\ Phase = "Discarding"
    BY DEF Init, Phase
  <1> QED
    BY <1>2, <1>3 DEF Abstract!Init

\* Typing, at any point of the reader's.
LEMMA TypeRefined ==
  ASSUME Inv, Inv', NEW byte \in Bytes, InsertInput(byte), OneInterrupt
  PROVE  Abstract!Type(byte) \/ UNCHANGED Abstract!vars
  <1>1. /\ pc' = IF pc = "Halted" THEN "TestFull" ELSE pc
        /\ UNCHANGED <<elements, out>> /\ (pc \in Operation => burst < Burst)
    BY DEF InsertInput, Interrupted
  <1>2. Phase' = Phase /\ out' = out
    BY <1>1 DEF Phase
  <1>3. CASE isFull /\ UNCHANGED ring
    <2>1. FirstSlot' = FirstSlot /\ Held' = Held
      BY <1>1, <1>3 DEF FirstSlot, Held, ring
    <2> QED
      BY <1>2, <1>3, <2>1, SameContents DEF ring, Abstract!vars
  <1>4. CASE /\ ~isFull /\ buffer' = [buffer EXCEPT ![head] = byte]
             /\ head' = (head + 1) % Size /\ isFull' = (head' = tail) /\ UNCHANGED tail
    <2>0. /\ head \in 0 .. Size - 1 /\ tail \in 0 .. Size - 1 /\ buffer \in [0 .. Size - 1 -> Bytes]
          /\ isFull \in BOOLEAN
      BY DEF Inv, TypeOK
    <2>1. CASE pc \in {"ClearTail", "ClearFull"}
      <3>1. head = 0
        BY <1>1, <2>0, <2>1, SizeIsPositive DEF Operation, Clearing, OneInterrupt, Inv, TypeOK, Cleared
      <3>2. Held = 0 /\ FirstSlot = 0 /\ Held' = head' /\ FirstSlot' = 0
        BY <1>1, <2>1, <3>1 DEF Held, FirstSlot
      <3>3. head' = IF Size = 1 THEN 0 ELSE 1
        BY <1>4, <3>1, SizeIsPositive, Wrap
      <3>4. CASE Size = 1
        <4>1. Contents = <<>> /\ Contents' = <<>>
          BY <3>2, <3>3, <3>4 DEF Contents
        <4> QED
          BY <1>2, <4>1 DEF Abstract!vars
      <3>5. CASE Size # 1
        <4>1. Slots(buffer', 0, 0 + 1) = Append(Slots(buffer, 0, 0), byte)
          <5>1. 0 \in 0 .. Size - 1 /\ head = IF 0 + 0 < Size THEN 0 + 0 ELSE 0 + 0 - Size
            BY <3>1, SizeIsPositive
          <5> QED
            BY <1>4, <2>0, <5>1, SlotsPushed
        <4>2. Contents = Slots(buffer, 0, 0)
          BY <3>2, ContentsAre
        <4>3. Contents' = Slots(buffer', 0, 1)
          BY <3>2, <3>3, <3>5, ContentsAre DEF Contents, Slots, Slot
        <4>4. Contents' = Append(Contents, byte)
          BY <4>1, <4>2, <4>3
        <4>5. Len(Contents) < Size
          BY <3>2, ContentsLength, SizeIsPositive
        <4> QED
          BY <1>2, <4>4, <4>5 DEF Abstract!Type
      <3> QED
        BY <3>4, <3>5
    <2>2. CASE pc \notin {"ClearTail", "ClearFull"}
      <3>1. PICK n : n = Length(head, tail, FALSE)
        OBVIOUS
      <3>2. /\ n \in 0 .. Size - 1 /\ head = IF tail + n < Size THEN tail + n ELSE tail + n - Size
        <4>1. n \in 0 .. Size /\ (FALSE <=> n = Size)
          BY <2>0, <3>1, Lengths
        <4>2. head = IF tail + n < Size THEN tail + n ELSE tail + n - Size
          BY <2>0, <3>1, Lengths
        <4> QED
          BY <4>1, <4>2, SizeIsPositive
      <3>3. FirstSlot = tail /\ Held = n
        <4>1. Filled = n
          BY <1>4, <3>1 DEF Filled, Length
        <4> QED
          BY <2>2, <3>1, <4>1, HeldOtherwise
      <3>4. FirstSlot' = tail /\ Held' = n + 1
        <4>1. pc' \notin {"ClearTail", "ClearFull"} /\ (pc' = "Reset" <=> pc = "Reset")
          BY <1>1, <2>2
        <4>2. /\ head' = tail => Length(head', tail, TRUE) = n + 1
              /\ head' # tail => Length(head', tail, FALSE) = n + 1
          BY <1>4, <2>0, <3>1, Pushed
        <4>3. Length(head', tail', isFull') = n + 1
          BY <1>4, <4>2 DEF Length
        <4>4. Held' = Length(head', tail', isFull')
          <5>1. CASE pc' # "Reset"
            BY <4>1, <5>1 DEF Held
          <5>2. CASE pc' = "Reset"
            <6>1. elements' # Size
              BY <1>1, <1>4, <4>1, <5>2 DEF Inv, ResetInTime
            <6> QED
              BY <4>1, <5>2, <6>1 DEF Held
          <5> QED
            BY <5>1, <5>2
        <4> QED
          BY <1>4, <4>1, <4>3, <4>4 DEF FirstSlot
      <3>5. Slots(buffer', tail, n + 1) = Append(Slots(buffer, tail, n), byte)
        BY <1>4, <2>0, <3>2, SlotsPushed
      <3>6. Contents = Slots(buffer, tail, n)
        BY <3>3, ContentsAre
      <3>7. Contents' = Slots(buffer', tail, n + 1)
        BY <3>4 DEF Contents, Slots, Slot
      <3>8. Len(Contents) < Size
        BY <3>2, <3>3, ContentsLength, SizeIsPositive
      <3> QED
        BY <1>2, <3>5, <3>6, <3>7, <3>8 DEF Abstract!Type
    <2> QED
      BY <2>1, <2>2
  <1> QED
    BY <1>3, <1>4 DEF InsertInput, Push

\* The first k of them.
LEMMA SlotsTaken ==
  ASSUME NEW b \in [0 .. Size - 1 -> Bytes], NEW first \in 0 .. Size - 1, NEW n \in 0 .. Size, NEW k \in 1 .. n
  PROVE  Slots(b, first, k) = SubSeq(Slots(b, first, n), 1, k)
  <1>1. k \in 0 .. Size /\ k \in Int /\ 1 \in Int /\ n \in Int /\ \A i \in 1 .. k : i \in 1 .. n
    BY SizeIsPositive
  <1>2. PICK s, t : s = Slots(b, first, n) /\ t = Slots(b, first, k)
    OBVIOUS
  <1>3. s \in Seq(Bytes) /\ Len(s) = n /\ \A i \in 1 .. n : s[i] = b[Slot(first, i)] /\ b[Slot(first, i)] \in Bytes
    BY <1>2, SlotsAre
  <1>4. t \in Seq(Bytes) /\ Len(t) = k /\ \A i \in 1 .. k : t[i] = b[Slot(first, i)]
    BY <1>1, <1>2, SlotsAre
  <1>5. PICK u : u = SubSeq(s, 1, k)
    OBVIOUS
  <1>6. \A i \in 1 .. k : s[i] \in Bytes
    BY <1>1, <1>3
  <1>7. /\ u \in Seq(Bytes) /\ Len(u) = IF 1 <= k THEN k - 1 + 1 ELSE 0
        /\ \A i \in 1 .. k - 1 + 1 : u[i] = s[1 + i - 1]
    BY <1>1, <1>5, <1>6, SubSeqProperties
  <1>8. Len(u) = k
    BY <1>1, <1>7
  <1>9. ASSUME NEW i \in 1 .. k PROVE t[i] = u[i]
    <2>1. i \in 1 .. k - 1 + 1 /\ 1 + i - 1 = i /\ i \in 1 .. n
      BY <1>1
    <2> QED
      BY <1>3, <1>4, <1>7, <2>1
  <1>10. \A i \in 1 .. Len(t) : t[i] = u[i]
    BY <1>4, <1>9
  <1> QED
    BY <1>2, <1>4, <1>5, <1>7, <1>8, <1>10, SeqEqual

\* The two runs PopElements copies are the oldest bytes, wherever head lies.
LEMMA CopiedIs ==
  ASSUME Inv, pc = "Copy"
  PROVE  Copied = Slots(buffer, tail, elements)
  <1>1. /\ head \in 0 .. Size - 1 /\ tail \in 0 .. Size - 1 /\ isFull \in BOOLEAN /\ (isFull => head = tail)
        /\ elements \in 1 .. Length(head, tail, isFull)
    BY DEF Inv, TypeOK, FullIsFull, ReaderTakes, Filled
  <1>2. PICK n : n = Length(head, tail, isFull)
    OBVIOUS
  <1>3. n \in 0 .. Size /\ elements \in 1 .. n
    BY <1>1, <1>2, Lengths
  <1>4. ASSUME NEW i \in 1 .. elements
        PROVE  /\ i \in 1 .. Size
               /\ Slot(tail, i) = IF tail + i - 1 < Size THEN tail + i - 1 ELSE tail + i - 1 - Size
    <2>1. i \in 1 .. Size
      BY <1>3, SizeIsPositive
    <2> QED
      BY <1>1, <2>1, SlotIs
  <1>5. CASE head > tail
    <2>1. n = head - tail
      BY <1>2, <1>5 DEF Length
    <2>2. ASSUME NEW i \in 1 .. elements PROVE buffer[tail + i - 1] = buffer[Slot(tail, i)]
      <3>1. tail + i - 1 < Size
        BY <1>1, <1>3, <2>1, SizeIsPositive
      <3> QED
        BY <1>4, <3>1
    <2>3. Copied = [i \in 1 .. elements |-> buffer[tail + i - 1]]
      BY <1>5 DEF Copied
    <2> QED
      BY <2>2, <2>3 DEF Slots
  <1>6. CASE ~(head > tail)
    <2> DEFINE firstPart == IF Size - tail > elements THEN elements ELSE Size - tail
    <2>2. ASSUME NEW i \in 1 .. elements
          PROVE  (IF i <= firstPart THEN buffer[tail + i - 1] ELSE buffer[i - firstPart - 1]) = buffer[Slot(tail, i)]
      <3>1. i <= firstPart => Slot(tail, i) = tail + i - 1
        BY <1>1, <1>3, <1>4, SizeIsPositive
      <3>2. ~(i <= firstPart) => Slot(tail, i) = i - firstPart - 1
        BY <1>1, <1>3, <1>4, SizeIsPositive
      <3> QED
        BY <3>1, <3>2
    <2>3. Copied = [i \in 1 .. elements |->
                      IF i <= firstPart THEN buffer[tail + i - 1] ELSE buffer[i - firstPart - 1]]
      BY <1>6 DEF Copied
    <2> HIDE DEF firstPart
    <2> QED
      BY <2>2, <2>3 DEF Slots
  <1> QED
    BY <1>5, <1>6

LEMMA CopyRefined ==
  ASSUME Inv, Copy
  PROVE  \E k \in 1 .. Len(Contents) : Abstract!Copy(k)
  <1>1. /\ pc = "Copy" /\ pc' = "Advance" /\ out' = Copied
        /\ UNCHANGED <<buffer, head, tail, isFull, elements>>
    BY DEF Copy, Goto, ring
  <1>2. FirstSlot = tail /\ Held = Filled /\ Held \in 0 .. Size
    BY <1>1, HeldOtherwise
  <1>3. elements \in 1 .. Held /\ buffer \in [0 .. Size - 1 -> Bytes] /\ tail \in 0 .. Size - 1
    BY <1>1, <1>2 DEF Inv, TypeOK, ReaderTakes
  <1>4. Contents = Slots(buffer, tail, Held)
    BY <1>2, ContentsAre
  <1>5. out' = SubSeq(Contents, 1, elements)
    <2>1. PICK n : n = Held
      OBVIOUS
    <2>2. n \in 0 .. Size /\ elements \in 1 .. n
      BY <1>2, <1>3, <2>1
    <2>3. Slots(buffer, tail, elements) = SubSeq(Slots(buffer, tail, n), 1, elements)
      BY <1>3, <2>2, SlotsTaken
    <2> QED
      BY <1>1, <1>4, <2>1, <2>3, CopiedIs
  <1>6. Contents' = Contents
    <2>1. FirstSlot' = FirstSlot /\ Held' = Held
      BY <1>1 DEF FirstSlot, Held
    <2> QED
      BY <1>1, <2>1, SameContents
  <1>7. Phase = "Idle" /\ Phase' = "Taking"
    BY <1>1 DEF Phase
  <1>8. elements \in 1 .. Len(Contents)
    BY <1>3, ContentsLength
  <1>9. Abstract!Copy(elements)
    BY <1>5, <1>6, <1>7 DEF Abstract!Copy
  <1> QED
    BY <1>8, <1>9

LEMMA AdvanceRefined ==
  ASSUME Inv, Inv', Advance
  PROVE  Abstract!Remove
  <1>1. /\ pc = "Advance" /\ pc' = "Reset" /\ tail' = (tail + elements) % Size
        /\ UNCHANGED <<buffer, head, isFull, elements, out>>
    BY DEF Advance, Goto
  <1>2. FirstSlot = tail /\ Held = Filled /\ Held \in 0 .. Size
    BY <1>1, HeldOtherwise
  <1>3. /\ elements \in 1 .. Held /\ buffer \in [0 .. Size - 1 -> Bytes] /\ tail \in 0 .. Size - 1
        /\ head \in 0 .. Size - 1 /\ isFull \in BOOLEAN /\ (isFull => head = tail) /\ Len(out) = elements
    BY <1>1, <1>2 DEF Inv, TypeOK, FullIsFull, ReaderTakes, ReaderTook
  <1>4. PICK n : n = Held
    OBVIOUS
  <1>5. n \in 0 .. Size /\ elements \in 1 .. n
    BY <1>2, <1>3, <1>4
  <1>6. tail' = IF tail + elements < Size THEN tail + elements ELSE tail + elements - Size
    <2>1. PICK x : x = tail + elements
      OBVIOUS
    <2>2. x \in 0 .. 2 * Size - 1
      BY <1>3, <1>5, <2>1, SizeIsPositive
    <2>3. x % Size = IF x < Size THEN x ELSE x - Size
      BY <2>2, Wrap
    <2>4. tail' = x % Size
      BY <1>1, <2>1
    <2>5. tail' = IF x < Size THEN x ELSE x - Size
      BY <2>3, <2>4
    <2> QED
      BY <1>3, <1>5, <2>1, <2>2, <2>5, SizeIsPositive
  <1>7. Length(head, tail', FALSE) = n - elements
    <2>1. elements \in 1 .. Filled
      BY <1>2, <1>3
    <2>2. Length(head, tail', FALSE) = Filled - elements
      BY <1>1, <1>3, <2>1, Advanced
    <2> QED
      BY <1>2, <1>4, <2>2
  <1>8. FirstSlot' = tail' /\ Held' = n - elements
    <2>1. FirstSlot' = tail'
      BY <1>1 DEF FirstSlot
    <2>2. isFull /\ head = tail' <=> elements = Size
      BY <1>1 DEF Inv, ResetInTime
    <2>3. Held' = IF elements = Size /\ head = tail' THEN 0 ELSE Length(head, tail', isFull)
      BY <1>1 DEF Held
    <2>4. Held' = Length(head, tail', FALSE)
      BY <1>3, <2>2, <2>3 DEF Length
    <2> QED
      BY <1>7, <2>1, <2>4
  <1>9. Slots(buffer, tail', n - elements) = SubSeq(Slots(buffer, tail, n), elements + 1, n)
    <2>1. PICK f2 : f2 = tail'
      OBVIOUS
    <2>2. f2 = IF tail + elements < Size THEN tail + elements ELSE tail + elements - Size
      BY <1>6, <2>1
    <2>3. Slots(buffer, f2, n - elements) = SubSeq(Slots(buffer, tail, n), elements + 1, n)
      BY <1>3, <1>5, <2>2, SlotsDropped
    <2> QED
      BY <2>1, <2>3
  <1>10. Contents' = Slots(buffer, tail', n - elements)
    BY <1>1, <1>8 DEF Contents, Slots, Slot
  <1>11. Contents = Slots(buffer, tail, n) /\ Len(Contents) = n
    BY <1>2, <1>4, ContentsAre, ContentsLength
  <1>12. Contents' = SubSeq(Contents, Len(out) + 1, Len(Contents))
    BY <1>3, <1>9, <1>10, <1>11
  <1>13. Phase = "Taking" /\ Phase' = "Idle"
    BY <1>1 DEF Phase
  <1> QED
    BY <1>1, <1>12, <1>13 DEF Abstract!Remove

LEMMA ClearRefined ==
  ASSUME Inv, ClearHead
  PROVE  Abstract!Clear
  <1>1. pc = "ClearHead" /\ pc' = "ClearTail" /\ head' = 0 /\ UNCHANGED out
    BY DEF ClearHead, Goto
  <1>2. Held' = 0
    BY <1>1 DEF Held
  <1>3. Contents' = <<>>
    BY <1>2 DEF Contents
  <1>4. Phase = "Discarding" /\ Phase' = "Idle"
    BY <1>1 DEF Phase
  <1> QED
    BY <1>1, <1>3, <1>4 DEF Abstract!Clear

\* Steps between two places at which the same slots are counted.
Between == Places \ {"ClearTail", "ClearFull", "Reset", "Advance", "ClearHead"}

LEMMA StutterRefined ==
  ASSUME UNCHANGED <<buffer, head, tail, isFull, out>>, pc \in Between, pc' \in Between
  PROVE  UNCHANGED Abstract!vars
  <1>1. FirstSlot' = FirstSlot /\ Held' = Held
    BY DEF FirstSlot, Held, Between
  <1>2. Phase = "Idle" /\ Phase' = "Idle"
    BY DEF Phase, Between
  <1> QED
    BY <1>1, <1>2, SameContents DEF Abstract!vars

LEMMA DiscardRefined ==
  ASSUME UNCHANGED <<buffer, head, tail, isFull, out>>, pc \in Between, pc' = "ClearHead"
  PROVE  Abstract!Discard
  <1>1. FirstSlot' = FirstSlot /\ Held' = Held
    BY DEF FirstSlot, Held, Between
  <1>2. Phase = "Idle" /\ Phase' = "Discarding"
    BY DEF Phase, Between
  <1> QED
    BY <1>1, <1>2, SameContents DEF Abstract!Discard

\* isFull, reset, is what it should have been.
LEMMA ResetRefined ==
  ASSUME Inv, Inv', Reset
  PROVE  UNCHANGED Abstract!vars
  <1>1. /\ pc = "Reset" /\ pc' = "Got" /\ isFull' = FALSE
        /\ UNCHANGED <<buffer, head, tail, elements, out>>
    BY DEF Reset, Goto
  <1>2. FirstSlot = tail /\ Held = Length(head, tail, FALSE)
    BY <1>1, HeldOtherwise
  <1>3. FirstSlot' = tail /\ Held' = Length(head, tail, FALSE)
    BY <1>1 DEF FirstSlot, Held
  <1>4. Phase = "Idle" /\ Phase' = "Idle"
    BY <1>1 DEF Phase
  <1> QED
    BY <1>1, <1>2, <1>3, <1>4, SameContents DEF Abstract!vars

\* Nothing was typed that a later part of ClearInput removes.
LEMMA ClearingRefined ==
  ASSUME Inv, ClearTail \/ ClearFull
  PROVE  UNCHANGED Abstract!vars
  <1>1. UNCHANGED <<buffer, head, out>> /\ pc \in {"ClearTail", "ClearFull"}
    BY DEF ClearTail, ClearFull, Goto
  <1>2. FirstSlot = 0 /\ Held = head
    BY <1>1, HeldWhileClearing
  <1>3. Phase = "Idle" /\ Phase' = "Idle"
    BY DEF Phase, ClearTail, ClearFull, Goto
  <1>4. FirstSlot' = 0 /\ Held' = head
    <2>1. CASE ClearTail
      BY <2>1 DEF ClearTail, Goto, FirstSlot, Held
    <2>2. CASE ClearFull
      <3>1. tail = 0 /\ tail' = 0 /\ head' = head /\ isFull' = FALSE /\ pc' \in {"User", "TestFull"}
        BY <2>2 DEF ClearFull, Inv, Cleared
      <3>2. head \in 0 .. Size - 1
        BY DEF Inv, TypeOK
      <3>3. Length(head, 0, FALSE) = head
        BY <3>2, SizeIsPositive DEF Length
      <3>4. Held' = Length(head', tail', isFull')
        BY <3>1 DEF Held
      <3> QED
        BY <3>1, <3>3, <3>4 DEF FirstSlot
    <2> QED
      BY <2>1, <2>2
  <1> QED
    BY <1>1, <1>2, <1>3, <1>4, SameContents DEF Abstract!vars

LEMMA ReleaseRefined ==
  ASSUME ReleaseInterrupt
  PROVE  UNCHANGED Abstract!vars
  <1>1. /\ pc' = IF pc = "Halted" THEN "TestFull" ELSE pc
        /\ UNCHANGED <<buffer, head, tail, isFull, elements, out>>
    BY DEF ReleaseInterrupt, Interrupted, ring
  <1>2. FirstSlot' = FirstSlot /\ Held' = Held /\ Phase' = Phase
    BY <1>1 DEF FirstSlot, Held, Phase
  <1> QED
    BY <1>1, <1>2, SameContents DEF Abstract!vars

\* Everything else moves the reader only.
LEMMA ReaderRefined ==
  ASSUME TestFull \/ TestEmpty \/ Count \/ Span \/ Sti \/ Hlt \/ ShellGot \/ ProgramGot \/ ProgramRead \/ ProgramExit
  PROVE  Abstract!Discard \/ UNCHANGED Abstract!vars
  <1>1. UNCHANGED <<buffer, head, tail, isFull, out>>
    BY DEF TestFull, TestEmpty, Count, Span, Sti, Hlt, ShellGot, ProgramGot, ProgramRead, ProgramExit, Goto, ring
  <1>2. pc \in Between
    BY DEF TestFull, TestEmpty, Count, Span, Sti, Hlt, ShellGot, ProgramGot, ProgramRead, ProgramExit,
           Between, Places, Popping, Clearing, Waiting
  <1>3. pc' \in Between \/ pc' = "ClearHead"
    BY DEF TestFull, TestEmpty, Count, Span, Sti, Hlt, ShellGot, ProgramGot, ProgramRead, ProgramExit, Goto,
           Between, Places, Popping, Clearing, Waiting
  <1> QED
    BY <1>1, <1>2, <1>3, StutterRefined, DiscardRefined

LEMMA StepRefined ==
  ASSUME OneInterrupt, Inv, Inv', [Next]_vars
  PROVE  [Abstract!Next]_(Abstract!vars)
  <1>1. CASE UNCHANGED vars
    <2>1. UNCHANGED <<buffer, head, tail, isFull, elements, out, pc>>
      BY <1>1 DEF vars, ring
    <2>2. FirstSlot' = FirstSlot /\ Held' = Held /\ Phase' = Phase
      BY <2>1 DEF FirstSlot, Held, Phase
    <2> QED
      BY <2>1, <2>2, SameContents DEF Abstract!vars
  <1>2. CASE \E byte \in Bytes : InsertInput(byte)
    BY <1>2, TypeRefined DEF Abstract!Next
  <1>3. CASE ReleaseInterrupt
    BY <1>3, ReleaseRefined
  <1>4. CASE Mainline \/ ProgramRead \/ ProgramExit
    BY <1>4, CopyRefined, AdvanceRefined, ResetRefined, ClearRefined, ClearingRefined, ReaderRefined
       DEF Mainline, PopElements, Abstract!Next
  <1> QED
    BY <1>1, <1>2, <1>3, <1>4 DEF Next

\* RingBuffer without a lock is a queue to its readers: however the keyboard's
\* interrupts fall between the steps of PopElements and ClearInput, if no two
\* fall into one of them, the bytes typed are read in order, none twice, and none
\* is lost but those Push refuses and those ClearInput throws away.
THEOREM RingIsQueue == ASSUME OneInterrupt PROVE Spec => ImplementsInputQueue
  <1>1. Init => Abstract!Init
    BY InitRefined
  <1>2. Inv /\ Inv' /\ [Next]_vars => [Abstract!Next]_(Abstract!vars)
    BY StepRefined
  <1> QED
    BY <1>1, <1>2, AlwaysInv, PTL DEF Spec, ImplementsInputQueue, Abstract!Spec

-----------------------------------------------------------------------------
(* The keyboard, whose text goes to the buffer (Keyboard.tla).             *)

Keys == {"A", "ShiftLeft", "ShiftRight", "ControlLeft", "ControlRight", "Alt",
         "AltGr", "Home"}
LastBytes == {"1E", "2A", "36", "1D", "38", "47"}

\* What the table says of each key.
LEMMA KeyTableFacts ==
  /\ DOMAIN KeyTable = Keys
  /\ KeyTable["A"].extended = FALSE /\ KeyTable["A"].code = "1E"
  /\ KeyTable["ShiftLeft"].extended = FALSE /\ KeyTable["ShiftLeft"].code = "2A"
  /\ KeyTable["ShiftRight"].extended = FALSE /\ KeyTable["ShiftRight"].code = "36"
  /\ KeyTable["ControlLeft"].extended = FALSE /\ KeyTable["ControlLeft"].code = "1D"
  /\ KeyTable["ControlRight"].extended = TRUE /\ KeyTable["ControlRight"].code = "1D"
  /\ KeyTable["Alt"].extended = FALSE /\ KeyTable["Alt"].code = "38"
  /\ KeyTable["AltGr"].extended = TRUE /\ KeyTable["AltGr"].code = "38"
  /\ KeyTable["Home"].extended = TRUE /\ KeyTable["Home"].code = "47"
BY DEF KeyTable, Keys

\* The last bytes there are.
LEMMA CodesFact == Codes = LastBytes
BY KeyTableFacts DEF Codes, Keys, LastBytes

Texts == {Nothing} \cup Columns
KeyBytes == [code : LastBytes \cup {"E0"}, released : BOOLEAN, means : Texts]
KeyStates == [standard : [LastBytes -> BOOLEAN], extended1 : [LastBytes -> BOOLEAN],
              prefix : BOOLEAN]

Now == [standard |-> Standard, extended1 |-> Extended1, prefix |-> ExtendedKeyState]

\* The state the handler leaves after a byte, and the column it prints from,
\* when what it reads for the right control key is FALSE.
After(s, b) ==
  IF b.code = "E0"
  THEN [standard |-> s.standard, extended1 |-> s.extended1, prefix |-> TRUE]
  ELSE [standard |-> IF s.prefix THEN s.standard
                     ELSE [s.standard EXCEPT ![b.code] = ~b.released],
        extended1 |-> IF s.prefix THEN [s.extended1 EXCEPT ![b.code] = ~b.released]
                      ELSE s.extended1,
        prefix |-> FALSE]

Prints(s, b) ==
  LET t == After(s, b)
      shift == t.standard["2A"] \/ t.standard["36"]
      altGr == t.extended1["38"]
  IN  IF b.released \/ s.prefix \/ b.code # "1E" THEN Nothing
      ELSE IF t.standard["1D"] \/ t.standard["38"] THEN Nothing
      ELSE IF shift /\ altGr THEN "ShiftAltGr"
      ELSE IF shift THEN "Shift"
      ELSE IF altGr THEN "AltGr" ELSE "Standard"

\* A keyboard without the right control key, where the read past the end of
\* Standard that stands for it finds 0.
NoRightControl == "ControlRight" \notin KeysUsed /\ BeyondStandard = {FALSE}

Right(s, b) == NoRightControl /\ b.code # "E0" => b.means = Prints(s, b)

\* Handling the bytes of w one after the other takes the handler from s to t,
\* by the states of run.
Path(run, s, w, t) ==
  /\ run \in [1 .. Len(w) + 1 -> KeyStates]
  /\ run[1] = s /\ run[Len(w) + 1] = t
  /\ \A j \in 1 .. Len(w) : run[j + 1] = After(run[j], w[j]) /\ Right(run[j], w[j])

Leads(s, w, t) == \E run : Path(run, s, w, t)

\* A byte takes a state to a state.
LEMMA AfterType ==
  ASSUME NEW s \in KeyStates, NEW b \in KeyBytes
  PROVE  After(s, b) \in KeyStates
<1>1. CASE b.code = "E0"
  BY <1>1 DEF After, KeyStates
<1>2. CASE b.code # "E0"
  <2>1. b.code \in LastBytes /\ b.released \in BOOLEAN
    BY <1>2 DEF KeyBytes
  <2>2. [s.standard EXCEPT ![b.code] = ~b.released] \in [LastBytes -> BOOLEAN]
    BY <2>1 DEF KeyStates
  <2>3. [s.extended1 EXCEPT ![b.code] = ~b.released] \in [LastBytes -> BOOLEAN]
    BY <2>1 DEF KeyStates
  <2>4. s.standard \in [LastBytes -> BOOLEAN] /\ s.extended1 \in [LastBytes -> BOOLEAN]
    BY DEF KeyStates
  <2> QED
    BY <1>2, <2>2, <2>3, <2>4 DEF After, KeyStates
<1> QED
  BY <1>1, <1>2

\* No byte, no change.
LEMMA LeadsNowhere ==
  ASSUME NEW s \in KeyStates, NEW t
  PROVE  Leads(s, <<>>, t) <=> s = t
<1>1. Leads(s, <<>>, t) => s = t
  BY DEF Leads, Path
<1>2. ASSUME s = t PROVE Leads(s, <<>>, t)
  <2>1. Path([j \in 1 .. 1 |-> s], s, <<>>, t)
    BY <1>2 DEF Path
  <2> QED
    BY <2>1 DEF Leads
<1> QED
  BY <1>1, <1>2

\* One byte more at the end.
LEMMA LeadsAppend ==
  ASSUME NEW s, NEW w \in Seq(KeyBytes), NEW t, NEW b \in KeyBytes,
         Leads(s, w, t), Right(t, b)
  PROVE  Leads(s, Append(w, b), After(t, b))
<1>1. PICK run : Path(run, s, w, t)
  BY DEF Leads
<1>2. PICK n \in Nat : n = Len(w)
  BY LenProperties
<1>3. PICK v \in Seq(KeyBytes) : v = Append(w, b)
  BY AppendProperties
<1>4. Len(v) = n + 1 /\ (\A j \in 1 .. n : v[j] = w[j]) /\ v[n + 1] = b
  BY <1>2, <1>3, AppendProperties
<1>5. t \in KeyStates /\ After(t, b) \in KeyStates
  BY <1>1, <1>2, AfterType DEF Path
<1> DEFINE longer == [j \in 1 .. n + 2 |-> IF j = n + 2 THEN After(t, b) ELSE run[j]]
<1>6. longer \in [1 .. Len(v) + 1 -> KeyStates]
  BY <1>1, <1>2, <1>4, <1>5 DEF Path
<1>7. longer[1] = s /\ longer[Len(v) + 1] = After(t, b)
  BY <1>1, <1>2, <1>4 DEF Path
<1>8. ASSUME NEW j \in 1 .. Len(v)
      PROVE  longer[j + 1] = After(longer[j], v[j]) /\ Right(longer[j], v[j])
  <2>1. CASE j = n + 1
    BY <2>1, <1>1, <1>2, <1>4 DEF Path
  <2>2. CASE j \in 1 .. n
    BY <2>2, <1>1, <1>2, <1>4 DEF Path
  <2> QED
    BY <1>2, <1>4, <2>1, <2>2
<1>9. Path(longer, s, v, After(t, b))
  <2> HIDE DEF longer
  <2> QED
    BY <1>6, <1>7, <1>8 DEF Path
<1> QED
  BY <1>3, <1>9 DEF Leads

\* The first byte handled.
LEMMA LeadsTail ==
  ASSUME NEW s, NEW w \in Seq(KeyBytes), NEW t, Leads(s, w, t), w # <<>>
  PROVE  /\ s \in KeyStates /\ Head(w) \in KeyBytes /\ Right(s, Head(w))
         /\ Tail(w) \in Seq(KeyBytes) /\ Leads(After(s, Head(w)), Tail(w), t)
<1>1. PICK run : Path(run, s, w, t)
  BY DEF Leads
<1>2. PICK n \in Nat : n = Len(w)
  BY LenProperties
<1>3. PICK v \in Seq(KeyBytes) : v = Tail(w)
  BY HeadTailProperties
<1>4. n >= 1 /\ Len(v) = n - 1 /\ (\A j \in 1 .. n - 1 : v[j] = w[j + 1])
  BY <1>2, <1>3, HeadTailProperties, EmptySeq
<1>5. Head(w) = w[1] /\ w[1] \in KeyBytes
  BY HeadTailProperties
<1>6. s \in KeyStates /\ run[1] = s /\ run[2] = After(s, w[1]) /\ Right(s, w[1])
  BY <1>1, <1>2, <1>4 DEF Path
<1> DEFINE shorter == [j \in 1 .. n |-> run[j + 1]]
<1>7. shorter \in [1 .. Len(v) + 1 -> KeyStates]
  BY <1>1, <1>2, <1>4 DEF Path
<1>8. shorter[1] = After(s, w[1]) /\ shorter[Len(v) + 1] = t
  BY <1>1, <1>2, <1>4, <1>6 DEF Path
<1>9. \A j \in 1 .. Len(v) :
        shorter[j + 1] = After(shorter[j], v[j]) /\ Right(shorter[j], v[j])
  BY <1>1, <1>2, <1>4 DEF Path
<1>10. Path(shorter, After(s, w[1]), v, t)
  <2> HIDE DEF shorter
  <2> QED
    BY <1>7, <1>8, <1>9 DEF Path
<1> QED
  BY <1>3, <1>5, <1>6, <1>10 DEF Leads

-----------------------------------------------------------------------------
(* What the bytes of a key do to its slot, and to no other.                *)

KeySlot(t, k) == IF KeyTable[k].extended THEN t.extended1[KeyTable[k].code]
                                           ELSE t.standard[KeyTable[k].code]

\* The state of the handler shows the keys of down, and awaits a first byte.
Agrees(t, down) == t.prefix = FALSE /\ \A k \in Keys : KeySlot(t, k) <=> k \in down

\* No two keys share prefix and last byte, and none has the shift after E0.
LEMMA SlotsDistinct ==
  /\ \A k \in Keys : KeyTable[k].code \in LastBytes /\ KeyTable[k].extended \in BOOLEAN
  /\ \A k \in Keys, l \in Keys :
        /\ KeyTable[k].code = KeyTable[l].code
        /\ KeyTable[k].extended = KeyTable[l].extended
        => k = l
  /\ \A k \in Keys : ~(KeyTable[k].extended /\ KeyTable[k].code = "2A")
<1>1. ASSUME NEW k \in Keys
      PROVE  KeyTable[k].code \in LastBytes
  BY KeyTableFacts DEF Keys, LastBytes
<1>2. ASSUME NEW k \in Keys
      PROVE  KeyTable[k].extended \in BOOLEAN
  BY KeyTableFacts DEF Keys
<1>3. ASSUME NEW k \in Keys
      PROVE  ~(KeyTable[k].extended /\ KeyTable[k].code = "2A")
  BY KeyTableFacts DEF Keys
<1>4. ASSUME NEW k \in Keys, NEW l \in Keys,
             KeyTable[k].code = KeyTable[l].code,
             KeyTable[k].extended = KeyTable[l].extended
      PROVE  k = l
  BY <1>4, KeyTableFacts DEF Keys
<1> QED
  BY <1>1, <1>2, <1>3, <1>4

\* A key's last byte sets its slot, and leaves those of the other keys.
LEMMA SlotSet ==
  ASSUME NEW t \in KeyStates, NEW k \in Keys, NEW b \in KeyBytes,
         b.code = KeyTable[k].code, t.prefix = KeyTable[k].extended
  PROVE  /\ After(t, b).prefix = FALSE
         /\ \A l \in Keys : KeySlot(After(t, b), l) <=> IF l = k THEN ~b.released ELSE KeySlot(t, l)
<1>1. b.code \in LastBytes /\ b.code # "E0" /\ b.released \in BOOLEAN
  BY SlotsDistinct DEF LastBytes, KeyBytes
<1>2. PICK std \in [LastBytes -> BOOLEAN], ext \in [LastBytes -> BOOLEAN] :
         std = t.standard /\ ext = t.extended1
  BY DEF KeyStates
<1>3. After(t, b).prefix = FALSE
  BY <1>1 DEF After
<1>4. CASE t.prefix
  <2>1. After(t, b).standard = std
    BY <1>1, <1>2, <1>4 DEF After
  <2>2. After(t, b).extended1 = [ext EXCEPT ![b.code] = ~b.released]
    BY <1>1, <1>2, <1>4 DEF After
  <2>3. ASSUME NEW l \in Keys
        PROVE  KeySlot(After(t, b), l) <=> IF l = k THEN ~b.released ELSE KeySlot(t, l)
    <3>1. CASE l = k
      BY <1>1, <1>2, <1>4, <2>1, <2>2, <3>1 DEF KeySlot
    <3>2. CASE l # k
      <4>1. KeyTable[l].code \in LastBytes
        BY SlotsDistinct
      <4>2. CASE KeyTable[l].extended = t.prefix
        <5>1. KeyTable[l].code # b.code
          BY <3>2, <4>2, SlotsDistinct
        <5> QED
          BY <1>1, <1>2, <1>4, <2>1, <2>2, <3>2, <4>1, <4>2, <5>1 DEF KeySlot
      <4>3. CASE KeyTable[l].extended # t.prefix
        <5>1. KeyTable[l].extended = ~t.prefix
          BY <1>4, <4>3, SlotsDistinct DEF KeyStates
        <5> QED
          BY <1>2, <1>4, <2>1, <2>2, <3>2, <5>1 DEF KeySlot
      <4> QED
        BY <4>2, <4>3
    <3> QED
      BY <3>1, <3>2
  <2> QED
    BY <1>3, <2>3
<1>5. CASE ~t.prefix
  <2>1. After(t, b).standard = [std EXCEPT ![b.code] = ~b.released]
    BY <1>1, <1>2, <1>5 DEF After
  <2>2. After(t, b).extended1 = ext
    BY <1>1, <1>2, <1>5 DEF After
  <2>3. ASSUME NEW l \in Keys
        PROVE  KeySlot(After(t, b), l) <=> IF l = k THEN ~b.released ELSE KeySlot(t, l)
    <3>1. CASE l = k
      BY <1>1, <1>2, <1>5, <2>1, <2>2, <3>1 DEF KeySlot
    <3>2. CASE l # k
      <4>1. KeyTable[l].code \in LastBytes
        BY SlotsDistinct
      <4>2. CASE KeyTable[l].extended = t.prefix
        <5>1. KeyTable[l].code # b.code
          BY <3>2, <4>2, SlotsDistinct
        <5> QED
          BY <1>1, <1>2, <1>5, <2>1, <2>2, <3>2, <4>1, <4>2, <5>1 DEF KeySlot
      <4>3. CASE KeyTable[l].extended # t.prefix
        <5>1. KeyTable[l].extended = ~t.prefix
          BY <1>5, <4>3, SlotsDistinct DEF KeyStates
        <5> QED
          BY <1>2, <1>5, <2>1, <2>2, <3>2, <5>1 DEF KeySlot
      <4> QED
        BY <4>2, <4>3
    <3> QED
      BY <3>1, <3>2
  <2> QED
    BY <1>3, <2>3
<1> QED
  BY <1>4, <1>5

\* The prefix only makes the next byte an extended one.
LEMMA SlotPrefix ==
  ASSUME NEW t \in KeyStates
  PROVE  /\ Prefix \in KeyBytes /\ Right(t, Prefix)
         /\ After(t, Prefix) \in KeyStates /\ After(t, Prefix).prefix = TRUE
         /\ \A l \in Keys : KeySlot(After(t, Prefix), l) <=> KeySlot(t, l)
<1>1. Prefix \in KeyBytes
  BY DEF Prefix, KeyBytes, Texts
<1>2. Prefix.code = "E0"
  BY DEF Prefix
<1> QED
  BY <1>1, <1>2, AfterType DEF Right, After, KeySlot

\* The shift of nobody's changes no key's slot.
LEMMA SlotFake ==
  ASSUME NEW t \in KeyStates, t.prefix, NEW b \in KeyBytes, b.code = "2A"
  PROVE  /\ After(t, b).prefix = FALSE
         /\ \A l \in Keys : KeySlot(After(t, b), l) <=> KeySlot(t, l)
<1>1. b.code \in LastBytes /\ b.code # "E0" /\ b.released \in BOOLEAN
  BY DEF LastBytes, KeyBytes
<1>2. PICK std \in [LastBytes -> BOOLEAN], ext \in [LastBytes -> BOOLEAN] :
         std = t.standard /\ ext = t.extended1
  BY DEF KeyStates
<1>3. /\ After(t, b).prefix = FALSE /\ After(t, b).standard = std
      /\ After(t, b).extended1 = [ext EXCEPT ![b.code] = ~b.released]
  BY <1>1, <1>2 DEF After
<1> QED
  BY <1>1, <1>2, <1>3, SlotsDistinct DEF KeySlot

\* What a key prints: the columns are those of what it means.
LEMMA PrintsMeaning ==
  ASSUME NEW t \in KeyStates, NEW down, Agrees(t, down), NoRightControl, down \subseteq KeysUsed,
         NEW b \in KeyBytes, b.code = "1E", ~b.released
  PROVE  Prints(t, b) = Meaning(down)
<1>1. PICK std \in [LastBytes -> BOOLEAN], ext \in [LastBytes -> BOOLEAN] :
         std = t.standard /\ ext = t.extended1
  BY DEF KeyStates
<1>2. t.prefix = FALSE /\ b.code # "E0"
  BY DEF Agrees
<1>3. /\ After(t, b).standard = [std EXCEPT !["1E"] = ~b.released]
      /\ After(t, b).extended1 = ext
  BY <1>1, <1>2 DEF After
<1>4. /\ After(t, b).standard["2A"] = std["2A"] /\ After(t, b).standard["36"] = std["36"]
      /\ After(t, b).standard["1D"] = std["1D"] /\ After(t, b).standard["38"] = std["38"]
      /\ After(t, b).extended1["38"] = ext["38"]
  BY <1>3 DEF LastBytes
<1>5. /\ std["2A"] <=> "ShiftLeft" \in down
      /\ std["36"] <=> "ShiftRight" \in down
      /\ std["1D"] <=> "ControlLeft" \in down
      /\ std["38"] <=> "Alt" \in down
      /\ ext["38"] <=> "AltGr" \in down
  BY <1>1, KeyTableFacts DEF Agrees, KeySlot, Keys
<1>6. "ControlRight" \notin down
  BY DEF NoRightControl
<1>7. /\ down \cap {"ShiftLeft", "ShiftRight"} # {} <=> std["2A"] \/ std["36"]
      /\ down \cap {"ControlLeft", "ControlRight", "Alt"} # {} <=> std["1D"] \/ std["38"]
  BY <1>5, <1>6
<1> QED
  BY <1>2, <1>4, <1>5, <1>7 DEF Prints, Meaning

\* A byte that is no press of A without a prefix means nothing, and prints nothing.
LEMMA PrintsNothing ==
  ASSUME NEW t, NEW b, b.means = Nothing, b.released \/ t.prefix \/ b.code # "1E"
  PROVE  Right(t, b)
BY DEF Right, Prints

-----------------------------------------------------------------------------
(* What the keyboard sends for a key, appended to what it has sent.        *)

\* From w the handler comes to t; with more bytes, to a state where the key k
\* is as down says and the others are as they were.
Continues(s, w, k, down, t) ==
  \E u \in KeyStates :
    /\ Leads(s, w, u) /\ u.prefix = FALSE
    /\ \A l \in Keys : KeySlot(u, l) <=> IF l = k THEN down ELSE KeySlot(t, l)

\* A last byte that is right for what it means.
Apt(t, k, released, means) ==
  IF k = "A" /\ ~released
  THEN NoRightControl => \A b \in KeyBytes : b.code = "1E" /\ ~b.released => means = Prints(t, b)
  ELSE means = Nothing

\* Concatenation, byte by byte.
LEMMA ConcatBytes ==
  ASSUME NEW w \in Seq(KeyBytes), NEW b \in KeyBytes, NEW c \in KeyBytes
  PROVE  /\ w \o <<>> = w
         /\ w \o <<b>> = Append(w, b) /\ w \o <<b, c>> = Append(Append(w, b), c)
         /\ <<b>> \o <<c>> = <<b, c>>
         /\ Append(w, b) \in Seq(KeyBytes) /\ Append(Append(w, b), c) \in Seq(KeyBytes)
<1>1. w \o <<>> = w
  BY ConcatEmptySeq
<1>2. <<b>> \o <<c>> = <<b, c>>
  <2>1. <<b>> \in Seq(KeyBytes) /\ Len(<<b>>) = 1 /\ <<b>>[1] = b
    OBVIOUS
  <2>2. PICK one \in Seq(KeyBytes) : one = <<b>> /\ Len(one) = 1 /\ one[1] = b
    BY <2>1, Zenon
  <2>3. PICK v \in Seq(KeyBytes) : v = Append(one, c)
    BY AppendProperties
  <2>4. Len(v) = 2 /\ v[1] = b /\ v[2] = c
    BY <2>2, <2>3, AppendProperties
  <2>5. /\ <<b, c>> \in Seq(KeyBytes) /\ Len(<<b, c>>) = 2
        /\ <<b, c>>[1] = b /\ <<b, c>>[2] = c
    OBVIOUS
  <2>6. PICK two \in Seq(KeyBytes) : two = <<b, c>> /\ Len(two) = 2 /\ two[1] = b /\ two[2] = c
    BY <2>5, Zenon
  <2>7. \A i \in 1 .. Len(v) : v[i] = two[i]
    BY <2>4, <2>6
  <2>8. v = two
    BY <2>4, <2>6, <2>7, SeqEqual
  <2>9. Append(one, c) = one \o <<c>>
    BY AppendIsConcat
  <2> QED
    BY <2>2, <2>3, <2>6, <2>8, <2>9
<1>3. w \o <<b>> = Append(w, b)
  OBVIOUS
<1>4. Append(w, b) \in Seq(KeyBytes) /\ Append(Append(w, b), c) \in Seq(KeyBytes)
  BY AppendProperties
<1>5. w \o <<b, c>> = Append(Append(w, b), c)
  OBVIOUS
<1> QED
  BY <1>1, <1>2, <1>3, <1>4, <1>5

\* The bytes of a key.
LEMMA LeadsSent ==
  ASSUME NEW s, NEW w \in Seq(KeyBytes), NEW t \in KeyStates, Leads(s, w, t),
         t.prefix = FALSE, NEW k \in Keys, NEW released \in BOOLEAN, NEW means \in Texts,
         Apt(t, k, released, means)
  PROVE  /\ Sent(k, released, means) \in Seq(KeyBytes)
         /\ w \o Sent(k, released, means) \in Seq(KeyBytes)
         /\ Continues(s, w \o Sent(k, released, means), k, ~released, t)
<1> DEFINE last == [code |-> KeyTable[k].code, released |-> released, means |-> means]
<1>1. PICK b \in KeyBytes : b = last
  BY SlotsDistinct DEF KeyBytes
<1>2. b.code = KeyTable[k].code /\ b.released = released /\ b.means = means
  BY <1>1
<1> HIDE DEF last
<1>3. CASE ~KeyTable[k].extended
  <2>1. Sent(k, released, means) = <<b>>
    <3>1. Sent(k, released, means) = <<>> \o <<b>>
      BY <1>1, <1>3 DEF Sent, last
    <3> QED
      BY <3>1
  <2>2. Right(t, b)
    <3>1. CASE k = "A" /\ ~released
      BY <1>2, <3>1, KeyTableFacts DEF Apt, Right
    <3>2. CASE ~(k = "A" /\ ~released)
      <4>1. b.means = Nothing
        BY <1>2, <3>2 DEF Apt
      <4>2. b.released \/ b.code # "1E"
        <5>1. CASE released
          BY <5>1, <1>2
        <5>2. CASE k # "A"
          BY <5>2, <1>2, <1>3, SlotsDistinct, KeyTableFacts DEF Keys
        <5> QED
          BY <5>1, <5>2, <3>2
      <4> QED
        BY <4>1, <4>2, PrintsNothing
    <3> QED
      BY <3>1, <3>2
  <2>3. Leads(s, Append(w, b), After(t, b)) /\ After(t, b) \in KeyStates
    BY <2>2, LeadsAppend, AfterType
  <2>4. t.prefix = KeyTable[k].extended
    BY <1>3, SlotsDistinct
  <2>5. /\ After(t, b).prefix = FALSE
        /\ \A l \in Keys : KeySlot(After(t, b), l) <=> IF l = k THEN ~b.released ELSE KeySlot(t, l)
    BY <1>2, <2>4, SlotSet
  <2>6. Continues(s, Append(w, b), k, ~released, t)
    BY <1>2, <2>3, <2>5 DEF Continues
  <2>7. <<b>> \in Seq(KeyBytes)
    OBVIOUS
  <2> QED
    BY <2>1, <2>6, <2>7, ConcatBytes
<1>4. CASE KeyTable[k].extended
  <2>1. Sent(k, released, means) = <<Prefix>> \o <<b>>
    BY <1>1, <1>4 DEF Sent, last
  <2>2. PICK u : u = After(t, Prefix)
    OBVIOUS
  <2>3. /\ Prefix \in KeyBytes /\ Right(t, Prefix) /\ u \in KeyStates
        /\ u.prefix = TRUE /\ \A l \in Keys : KeySlot(u, l) <=> KeySlot(t, l)
    BY <2>2, SlotPrefix
  <2>4. Leads(s, Append(w, Prefix), u) /\ Append(w, Prefix) \in Seq(KeyBytes)
    BY <2>2, <2>3, LeadsAppend, AppendProperties
  <2>5. k # "A"
    BY <1>4, KeyTableFacts
  <2>6. b.means = Nothing
    BY <1>2, <2>5 DEF Apt
  <2>7. Right(u, b)
    BY <2>3, <2>6, PrintsNothing
  <2>8. Leads(s, Append(Append(w, Prefix), b), After(u, b)) /\ After(u, b) \in KeyStates
    BY <2>3, <2>4, <2>7, LeadsAppend, AfterType
  <2>9. u.prefix = KeyTable[k].extended
    BY <1>4, <2>3, SlotsDistinct
  <2>10. /\ After(u, b).prefix = FALSE
         /\ \A l \in Keys : KeySlot(After(u, b), l) <=> IF l = k THEN ~b.released ELSE KeySlot(u, l)
    BY <1>2, <2>3, <2>9, SlotSet
  <2>11. Continues(s, Append(Append(w, Prefix), b), k, ~released, t)
    BY <1>2, <2>3, <2>8, <2>10 DEF Continues
  <2>12. <<Prefix, b>> \in Seq(KeyBytes)
    BY <2>3
  <2>13. <<Prefix>> \o <<b>> = <<Prefix, b>>
    BY <2>3, ConcatBytes
  <2>14. /\ w \o <<Prefix, b>> = Append(Append(w, Prefix), b)
         /\ Append(Append(w, Prefix), b) \in Seq(KeyBytes)
    BY <2>3, ConcatBytes
  <2> QED
    BY <2>1, <2>11, <2>12, <2>13, <2>14
<1> QED
  BY <1>3, <1>4

\* The shift sent around Home changes nothing the handler looks at.
LEMMA LeadsFake ==
  ASSUME NEW s, NEW w \in Seq(KeyBytes), NEW t \in KeyStates, Leads(s, w, t),
         t.prefix = FALSE, NEW k, NEW released \in BOOLEAN
  PROVE  /\ FakeShift(k, released) \in Seq(KeyBytes)
         /\ w \o FakeShift(k, released) \in Seq(KeyBytes)
         /\ \E u \in KeyStates :
              /\ Leads(s, w \o FakeShift(k, released), u) /\ u.prefix = FALSE
              /\ \A l \in Keys : KeySlot(u, l) <=> KeySlot(t, l)
<1>1. CASE FakeShift(k, released) = <<>>
  <2>1. <<>> \in Seq(KeyBytes)
    OBVIOUS
  <2>2. w \o <<>> = w
    BY ConcatEmptySeq
  <2> QED
    BY <1>1, <2>1, <2>2
<1>2. CASE FakeShift(k, released) # <<>>
  <2>1. PICK b \in KeyBytes : b = [code |-> "2A", released |-> released, means |-> Nothing]
    BY DEF KeyBytes, LastBytes, Texts
  <2>2. b.code = "2A" /\ b.means = Nothing
    BY <2>1
  <2>3. FakeShift(k, released) = <<Prefix, b>>
    BY <1>2, <2>1 DEF FakeShift
  <2>4. PICK u : u = After(t, Prefix)
    OBVIOUS
  <2>5. /\ Prefix \in KeyBytes /\ Right(t, Prefix) /\ u \in KeyStates
        /\ u.prefix = TRUE /\ \A l \in Keys : KeySlot(u, l) <=> KeySlot(t, l)
    BY <2>4, SlotPrefix
  <2>6. Leads(s, Append(w, Prefix), u) /\ Append(w, Prefix) \in Seq(KeyBytes)
    BY <2>4, <2>5, LeadsAppend, AppendProperties
  <2>7. Right(u, b)
    BY <2>2, <2>5, PrintsNothing
  <2>8. Leads(s, Append(Append(w, Prefix), b), After(u, b)) /\ After(u, b) \in KeyStates
    BY <2>5, <2>6, <2>7, LeadsAppend, AfterType
  <2>9. /\ After(u, b).prefix = FALSE
        /\ \A l \in Keys : KeySlot(After(u, b), l) <=> KeySlot(u, l)
    BY <2>2, <2>5, SlotFake
  <2>10. <<Prefix, b>> \in Seq(KeyBytes)
    BY <2>5
  <2>11. /\ w \o <<Prefix, b>> = Append(Append(w, Prefix), b)
         /\ Append(Append(w, Prefix), b) \in Seq(KeyBytes)
    BY <2>5, ConcatBytes
  <2> QED
    BY <2>3, <2>5, <2>8, <2>9, <2>10, <2>11
<1> QED
  BY <1>1, <1>2

-----------------------------------------------------------------------------
(* The invariant.                                                          *)

\* Handling what is on the wire, byte by byte, ends in a state that shows the
\* keys held, and each of its bytes prints on the way what it means.
KeyInv ==
  /\ held \subseteq KeysUsed
  /\ wire \in Seq(KeyBytes)
  /\ Standard \in [LastBytes -> BOOLEAN] /\ Extended1 \in [LastBytes -> BOOLEAN]
  /\ ExtendedKeyState \in BOOLEAN /\ beyond \in BeyondStandard
  /\ \E t \in KeyStates : Leads(Now, wire, t) /\ Agrees(t, held)
  /\ NoRightControl => printed = meant

\* With no key down, and nothing sent.
LEMMA KeyInvInit == InitKeyboard => KeyInv
<1> SUFFICES ASSUME InitKeyboard PROVE KeyInv
  OBVIOUS
<1>1. /\ Standard = [c \in LastBytes |-> FALSE] /\ Extended1 = [c \in LastBytes |-> FALSE]
      /\ ExtendedKeyState = FALSE /\ held = {} /\ wire = <<>>
      /\ beyond \in BeyondStandard /\ printed = meant
  BY CodesFact DEF InitKeyboard
<1>2. Standard \in [LastBytes -> BOOLEAN] /\ Extended1 \in [LastBytes -> BOOLEAN]
  BY <1>1
<1>3. Now \in KeyStates
  BY <1>1, <1>2 DEF Now, KeyStates
<1>4. Leads(Now, wire, Now)
  BY <1>1, <1>3, LeadsNowhere
<1>5. Agrees(Now, held)
  <2>1. Now.prefix = FALSE /\ Now.standard = Standard /\ Now.extended1 = Extended1
    BY <1>1 DEF Now
  <2>2. \A k \in Keys : ~KeySlot(Now, k)
    BY <1>1, <2>1, SlotsDistinct DEF KeySlot
  <2> QED
    BY <1>1, <2>1, <2>2 DEF Agrees
<1>6. wire \in Seq(KeyBytes)
  BY <1>1
<1> QED
  BY <1>1, <1>2, <1>3, <1>4, <1>5, <1>6 DEF KeyInv

\* The handler takes a byte.
LEMMA KeyInvInterrupt ==
  ASSUME KeyInv, KeyboardInterrupt
  PROVE  KeyInv'
<1>1. PICK t \in KeyStates : Leads(Now, wire, t) /\ Agrees(t, held)
  BY DEF KeyInv
<1>2. PICK b : b = Head(wire)
  OBVIOUS
<1>3. wire # <<>> /\ wire' = Tail(wire) /\ held' = held /\ beyond' = beyond
  BY DEF KeyboardInterrupt
<1>4. wire \in Seq(KeyBytes)
  BY DEF KeyInv
<1>5. /\ Now \in KeyStates /\ b \in KeyBytes /\ Right(Now, b)
      /\ wire' \in Seq(KeyBytes) /\ Leads(After(Now, b), wire', t)
  BY <1>1, <1>2, <1>3, <1>4, LeadsTail
<1>6. /\ Now.standard = Standard /\ Now.extended1 = Extended1 /\ Now.prefix = ExtendedKeyState
      /\ Standard \in [LastBytes -> BOOLEAN] /\ Extended1 \in [LastBytes -> BOOLEAN]
      /\ ExtendedKeyState \in BOOLEAN
  BY DEF Now, KeyInv
<1>7. CASE b.code = "E0"
  <2>1. /\ ExtendedKeyState' = TRUE /\ Standard' = Standard /\ Extended1' = Extended1
        /\ printed' = printed /\ meant' = meant
    BY <1>2, <1>7 DEF KeyboardInterrupt
  <2>2. Now' = After(Now, b)
    BY <1>6, <1>7, <2>1 DEF After, Now
  <2>3. Leads(Now', wire', t) /\ Agrees(t, held')
    BY <1>1, <1>3, <1>5, <2>2
  <2> QED
    BY <1>3, <1>5, <1>6, <2>1, <2>3 DEF KeyInv
<1>8. CASE b.code # "E0"
  <2>1. b.code \in LastBytes /\ b.released \in BOOLEAN
    BY <1>5, <1>8 DEF KeyBytes
  <2>2. /\ UpdateKeyState(b) /\ ExtendedKeyState' = FALSE
        /\ printed' = GetPrintable(b, Standard', Extended1') /\ meant' = b.means
    BY <1>2, <1>8 DEF KeyboardInterrupt
  <2>3. /\ Standard' = IF ExtendedKeyState THEN Standard
                       ELSE [Standard EXCEPT ![b.code] = ~b.released]
        /\ Extended1' = IF ExtendedKeyState THEN [Extended1 EXCEPT ![b.code] = ~b.released]
                        ELSE Extended1
    BY <2>2, <1>6 DEF UpdateKeyState
  <2>4. Now' = After(Now, b)
    BY <1>6, <1>8, <2>2, <2>3 DEF After, Now
  <2>5. Leads(Now', wire', t) /\ Agrees(t, held')
    BY <1>1, <1>3, <1>5, <2>4
  <2>6. Standard' \in [LastBytes -> BOOLEAN] /\ Extended1' \in [LastBytes -> BOOLEAN]
    BY <1>6, <2>1, <2>3
  <2>7. NoRightControl => printed' = meant'
    <3>1. SUFFICES ASSUME NoRightControl PROVE printed' = meant'
      OBVIOUS
    <3>2. beyond = FALSE
      BY <3>1 DEF KeyInv, NoRightControl
    <3>3. meant' = Prints(Now, b)
      BY <1>5, <1>8, <2>2, <3>1 DEF Right
    <3>4. After(Now, b).standard = Standard' /\ After(Now, b).extended1 = Extended1'
      BY <1>6, <1>8, <2>3 DEF After
    <3>5. GetPrintable(b, Standard', Extended1') = Prints(Now, b)
      BY <1>6, <3>2, <3>4 DEF Prints, GetPrintable
    <3> QED
      BY <2>2, <3>3, <3>5
  <2> QED
    BY <1>3, <1>5, <2>2, <2>5, <2>6, <2>7 DEF KeyInv
<1> QED
  BY <1>7, <1>8

\* A key goes down: what A means then is what the bytes before it leave.
LEMMA KeyInvPress ==
  ASSUME KeyInv, NEW k \in KeysUsed, Press(k)
  PROVE  KeyInv'
<1>1. PICK t \in KeyStates : Leads(Now, wire, t) /\ Agrees(t, held)
  BY DEF KeyInv
<1>2. PICK means : means = IF k = "A" THEN Meaning(held) ELSE Nothing
  OBVIOUS
<1>3. wire' = wire \o (FakeShift(k, TRUE) \o Sent(k, FALSE, means)) /\ held' = held \cup {k}
  BY <1>2 DEF Press, Send
<1>4. /\ Standard' = Standard /\ Extended1' = Extended1 /\ beyond' = beyond
      /\ ExtendedKeyState' = ExtendedKeyState /\ printed' = printed /\ meant' = meant
  BY DEF Press, keyState
<1>5. k \in Keys
  BY KeyboardAssumption, KeyTableFacts
<1>6. wire \in Seq(KeyBytes) /\ t.prefix = FALSE /\ held \subseteq KeysUsed
  BY <1>1 DEF KeyInv, Agrees
<1>7. PICK fake : fake = FakeShift(k, TRUE)
  OBVIOUS
<1>8. /\ fake \in Seq(KeyBytes) /\ wire \o fake \in Seq(KeyBytes)
      /\ \E u \in KeyStates :
           /\ Leads(Now, wire \o fake, u) /\ u.prefix = FALSE
           /\ \A l \in Keys : KeySlot(u, l) <=> KeySlot(t, l)
  BY <1>1, <1>6, <1>7, LeadsFake
<1>9. PICK u \in KeyStates : /\ Leads(Now, wire \o fake, u) /\ u.prefix = FALSE
                             /\ \A l \in Keys : KeySlot(u, l) <=> KeySlot(t, l)
  BY <1>8
<1>10. Agrees(u, held)
  BY <1>1, <1>9 DEF Agrees
<1>11. means \in Texts
  BY <1>2 DEF Meaning, Texts, Columns
<1>12. Apt(u, k, FALSE, means)
  <2>1. CASE k = "A"
    <3>1. means = Meaning(held)
      BY <1>2, <2>1
    <3>2. ASSUME NoRightControl, NEW b \in KeyBytes, b.code = "1E", ~b.released
          PROVE  means = Prints(u, b)
      BY <1>6, <1>10, <3>1, <3>2, PrintsMeaning
    <3> QED
      BY <2>1, <3>2 DEF Apt
  <2>2. CASE k # "A"
    BY <1>2, <2>2 DEF Apt
  <2> QED
    BY <2>1, <2>2
<1>13. PICK sent : sent = Sent(k, FALSE, means)
  OBVIOUS
<1>14. /\ sent \in Seq(KeyBytes) /\ (wire \o fake) \o sent \in Seq(KeyBytes)
       /\ Continues(Now, (wire \o fake) \o sent, k, ~FALSE, u)
  BY <1>5, <1>8, <1>9, <1>11, <1>12, <1>13, LeadsSent
<1>15. (wire \o fake) \o sent = wire'
  <2>1. (wire \o fake) \o sent = wire \o (fake \o sent)
    BY <1>6, <1>8, <1>14, ConcatAssociative
  <2> QED
    BY <1>3, <1>7, <1>13, <2>1
<1>16. PICK v \in KeyStates : /\ Leads(Now, wire', v) /\ v.prefix = FALSE
                              /\ \A l \in Keys : KeySlot(v, l) <=> IF l = k THEN ~FALSE ELSE KeySlot(u, l)
  BY <1>14, <1>15 DEF Continues
<1>17. Agrees(v, held')
  BY <1>3, <1>10, <1>16 DEF Agrees
<1>18. Now' = Now
  BY <1>4 DEF Now
<1>19. \E x \in KeyStates : Leads(Now', wire', x) /\ Agrees(x, held')
  BY <1>16, <1>17, <1>18
<1> QED
  BY <1>3, <1>4, <1>6, <1>14, <1>15, <1>19 DEF KeyInv

\* A key comes up.
LEMMA KeyInvRelease ==
  ASSUME KeyInv, NEW k \in KeysUsed, Release(k)
  PROVE  KeyInv'
<1>1. PICK t \in KeyStates : Leads(Now, wire, t) /\ Agrees(t, held)
  BY DEF KeyInv
<1>2. PICK sent : sent = Sent(k, TRUE, Nothing)
  OBVIOUS
<1>3. PICK fake : fake = FakeShift(k, FALSE)
  OBVIOUS
<1>4. wire' = wire \o (sent \o fake) /\ held' = held \ {k}
  BY <1>2, <1>3 DEF Release, Send
<1>5. /\ Standard' = Standard /\ Extended1' = Extended1 /\ beyond' = beyond
      /\ ExtendedKeyState' = ExtendedKeyState /\ printed' = printed /\ meant' = meant
  BY DEF Release, keyState
<1>6. k \in Keys
  BY KeyboardAssumption, KeyTableFacts
<1>7. wire \in Seq(KeyBytes) /\ t.prefix = FALSE /\ held \subseteq KeysUsed
  BY <1>1 DEF KeyInv, Agrees
<1>8. Apt(t, k, TRUE, Nothing) /\ Nothing \in Texts
  BY DEF Apt, Texts
<1>9. /\ sent \in Seq(KeyBytes) /\ wire \o sent \in Seq(KeyBytes)
      /\ Continues(Now, wire \o sent, k, ~TRUE, t)
  BY <1>1, <1>2, <1>6, <1>7, <1>8, LeadsSent
<1>10. PICK u \in KeyStates : /\ Leads(Now, wire \o sent, u) /\ u.prefix = FALSE
                              /\ \A l \in Keys : KeySlot(u, l) <=> IF l = k THEN ~TRUE ELSE KeySlot(t, l)
  BY <1>9 DEF Continues
<1>11. Agrees(u, held')
  BY <1>1, <1>4, <1>10 DEF Agrees
<1>12. /\ fake \in Seq(KeyBytes) /\ (wire \o sent) \o fake \in Seq(KeyBytes)
       /\ \E v \in KeyStates :
            /\ Leads(Now, (wire \o sent) \o fake, v) /\ v.prefix = FALSE
            /\ \A l \in Keys : KeySlot(v, l) <=> KeySlot(u, l)
  <2>1. PICK w \in Seq(KeyBytes) : w = wire \o sent
    BY <1>9
  <2>2. Leads(Now, w, u)
    BY <1>10, <2>1
  <2>3. /\ fake \in Seq(KeyBytes) /\ w \o fake \in Seq(KeyBytes)
        /\ \E v \in KeyStates :
             /\ Leads(Now, w \o fake, v) /\ v.prefix = FALSE
             /\ \A l \in Keys : KeySlot(v, l) <=> KeySlot(u, l)
    <3>1. u.prefix = FALSE /\ u \in KeyStates
      BY <1>10
    <3>2. \A released \in BOOLEAN :
            /\ FakeShift(k, released) \in Seq(KeyBytes)
            /\ w \o FakeShift(k, released) \in Seq(KeyBytes)
            /\ \E v \in KeyStates :
                 /\ Leads(Now, w \o FakeShift(k, released), v) /\ v.prefix = FALSE
                 /\ \A l \in Keys : KeySlot(v, l) <=> KeySlot(u, l)
      BY <2>2, <3>1, LeadsFake
    <3> QED
      BY <1>3, <3>2
  <2> QED
    BY <2>1, <2>3
<1>13. (wire \o sent) \o fake = wire'
  BY <1>4, <1>7, <1>9, <1>12, ConcatAssociative
<1>14. PICK v \in KeyStates : /\ Leads(Now, wire', v) /\ v.prefix = FALSE
                              /\ \A l \in Keys : KeySlot(v, l) <=> KeySlot(u, l)
  BY <1>12, <1>13
<1>15. Agrees(v, held')
  BY <1>11, <1>14 DEF Agrees
<1>16. Now' = Now
  BY <1>5 DEF Now
<1>17. \E x \in KeyStates : Leads(Now', wire', x) /\ Agrees(x, held')
  BY <1>14, <1>15, <1>16
<1> QED
  BY <1>4, <1>5, <1>7, <1>12, <1>13, <1>17 DEF KeyInv

\* Nothing moves.
LEMMA KeyInvStutter ==
  ASSUME KeyInv, UNCHANGED keyboardVars
  PROVE  KeyInv'
<1>1. /\ held' = held /\ wire' = wire /\ Standard' = Standard /\ Extended1' = Extended1
      /\ ExtendedKeyState' = ExtendedKeyState /\ beyond' = beyond
      /\ printed' = printed /\ meant' = meant
  BY DEF keyboardVars, keyState
<1>2. Now' = Now
  BY <1>1 DEF Now
<1> QED
  BY <1>1, <1>2 DEF KeyInv

\* The invariant of the keyboard and its handler.
LEMMA KeyInvariant == KeyboardSpec => []KeyInv
<1>1. KeyInv /\ [KeyboardNext]_keyboardVars => KeyInv'
  <2> SUFFICES ASSUME KeyInv, [KeyboardNext]_keyboardVars PROVE KeyInv'
    OBVIOUS
  <2> QED
    BY KeyInvPress, KeyInvRelease, KeyInvInterrupt, KeyInvStutter DEF KeyboardNext
<1> QED
  BY <1>1, KeyInvInit, PTL DEF KeyboardSpec

\* Once KeyboardInterrupt has taken every byte, Standard and Extended1 show
\* exactly the keys that are down: for every set of keys of the keyboard and
\* however many bytes it may be ahead of the kernel.
THEOREM ModifiersFollow == KeyboardSpec => []ModifiersFollowKeys
<1>1. KeyInv => ModifiersFollowKeys
  <2> SUFFICES ASSUME KeyInv, wire = <<>>, NEW k \in KeysUsed
               PROVE  (k \in held) = IF KeyTable[k].extended
                                     THEN Extended1[KeyTable[k].code]
                                     ELSE Standard[KeyTable[k].code]
    BY DEF ModifiersFollowKeys
  <2>1. PICK t \in KeyStates : Leads(Now, <<>>, t) /\ Agrees(t, held)
    BY DEF KeyInv
  <2>2. Now \in KeyStates /\ Now.standard = Standard /\ Now.extended1 = Extended1
    BY DEF KeyInv, Now, KeyStates
  <2>3. Now = t
    BY <2>1, <2>2, LeadsNowhere
  <2>4. k \in Keys
    BY KeyboardAssumption, KeyTableFacts
  <2>5. KeySlot(Now, k) <=> k \in held
    BY <2>1, <2>3, <2>4 DEF Agrees
  <2>6. KeyTable[k].code \in LastBytes
    BY <2>4, SlotsDistinct
  <2>7. Extended1[KeyTable[k].code] \in BOOLEAN /\ Standard[KeyTable[k].code] \in BOOLEAN
    BY <2>6 DEF KeyInv
  <2> QED
    BY <2>2, <2>5, <2>7 DEF KeySlot
<1> QED
  BY <1>1, KeyInvariant, PTL

\* GetPrintable finds the column that the key meant when it went down, however
\* many bytes were ahead of its own; on a keyboard whose right control key is
\* not used, for which the kernel reads past the end of Standard.
THEOREM PrintsMeant ==
  ASSUME NoRightControl
  PROVE  KeyboardSpec => []PrintsWhatWasMeant
<1>1. KeyInv => PrintsWhatWasMeant
  BY DEF KeyInv, PrintsWhatWasMeant
<1> QED
  BY <1>1, KeyInvariant, PTL

=============================================================================
