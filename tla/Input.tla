------------------------------- MODULE Input --------------------------------
(***************************************************************************)
(* Typed bytes on their way from the keyboard interrupt through the ring   *)
(* buffer to whoever reads standard input: the shell, and the program it   *)
(* runs.  The interrupt pushes; it can come between any two accesses the   *)
(* reader makes to the buffer, which has no lock.  The reader's steps are  *)
(* split wherever the code looks at, or sets, head, tail or isFull again.  *)
(*                                                                         *)
(* Bytes are two: a newline, which makes the shell act, and any other.     *)
(***************************************************************************)
EXTENDS Naturals, Sequences

CONSTANTS Size,           \* InputBufferLength (4096)
          LineSize,       \* the shell's bufferSize (1024)
          MaxRead,        \* bound on the bytes a program asks for at once
          Burst           \* bound on the keyboard's interrupts in one operation

ASSUME InputAssumption ==
  /\ {Size, LineSize, MaxRead} \subseteq Nat \ {0}
  /\ Burst \in Nat

Newline == "Newline"
Other   == "Other"
Bytes   == {Newline, Other}

VARIABLES buffer, head, tail, isFull,  \* RingBuffer's members
          interrupts,     \* the processor's interrupt flag
          reader,         \* who is reading: "Shell" or "Program"
          pc,             \* where it is, see Places
          wanted,         \* PopElements's count
          elements,       \* PopElements's elementsCount
          out,            \* what PopElements copied last
          cursorPos,      \* the shell's
          due,            \* a key is down: at least its release is still to come
          burst           \* keyboard interrupts since the operation began

ring == <<buffer, head, tail, isFull>>
vars == <<ring, interrupts, reader, pc, wanted, elements, out, cursorPos, due, burst>>

Popping  == {"TestFull", "TestEmpty", "Count", "Span", "Copy", "Advance", "Reset"}
Clearing == {"ClearHead", "ClearTail", "ClearFull"}
Waiting  == {"Sti", "Hlt", "Halted"}
Places   == Popping \cup Clearing \cup Waiting \cup {"Got", "User", "Overrun"}

Length(h, t, full) ==
  IF h > t THEN h - t
  ELSE IF h = t /\ ~full THEN 0 ELSE Size - t + h

-----------------------------------------------------------------------------
(* The keyboard interrupt's side.                                          *)

Push(item) ==
  \/ isFull /\ UNCHANGED ring
  \/ /\ ~isFull
     /\ buffer' = [buffer EXCEPT ![head] = item]
     /\ head' = (head + 1) % Size
     /\ isFull' = (head' = tail)
     /\ UNCHANGED tail

\* An interrupt, from a keyboard that sends at most Burst bytes in the time of
\* one operation.  A hlt ends with it.
Operation == Popping \cup Clearing \cup {"Sti", "Hlt"}

Interrupted ==
  /\ interrupts /\ pc # "Overrun"
  /\ pc \in Operation => burst < Burst
  /\ pc' = IF pc = "Halted" THEN "TestFull" ELSE pc
  /\ burst' = IF pc \in Operation THEN burst + 1 ELSE 0
  /\ UNCHANGED <<interrupts, reader, wanted, elements, out, cursorPos>>

\* A key with a printable meaning goes down.
InsertInput(byte) ==
  /\ Interrupted
  /\ Push(byte)
  /\ due' = TRUE

\* A mutant: a released key raises no interrupt.
ReleaseInterruptNever == FALSE /\ UNCHANGED vars

\* It comes up again, and so may others: nothing to print, but an interrupt.
ReleaseInterrupt ==
  /\ Interrupted
  /\ due
  /\ due' = FALSE
  /\ UNCHANGED ring

-----------------------------------------------------------------------------
(* RingBuffer::PopElements, called by ReadInputNoBlocking.                 *)

Goto(place) ==
  /\ pc' = place
  /\ UNCHANGED <<interrupts, reader, wanted, cursorPos, due, burst>>

\* IsEmpty: first isFull, then head and tail.
TestFull ==
  /\ pc = "TestFull"
  /\ Goto(IF isFull THEN "Count" ELSE "TestEmpty")
  /\ UNCHANGED <<ring, elements, out>>

TestEmpty ==
  /\ pc = "TestEmpty"
  /\ Goto(IF head = tail THEN "Sti" ELSE "Count")
  /\ UNCHANGED <<ring, elements, out>>

AtMost(n) == IF wanted < n THEN wanted ELSE n

\* isFull is looked at again, and then head.
Count ==
  /\ pc = "Count"
  /\ IF isFull THEN Goto("Copy") /\ elements' = AtMost(Size)
               ELSE Goto("Span") /\ UNCHANGED elements
  /\ UNCHANGED <<ring, out>>

Span ==
  /\ pc = "Span"
  /\ Goto("Copy")
  /\ elements' = AtMost(IF head > tail THEN head - tail ELSE Size - tail + head)
  /\ UNCHANGED <<ring, out>>

\* A mutant: the second part is copied from where the first part began.
CopiedNoWrap ==
  [i \in 1 .. elements |-> buffer[IF tail + i - 1 < Size THEN tail + i - 1 ELSE tail]]

\* One or two runs of slots, as head lies after or before tail by now.
Copied ==
  IF head > tail THEN [i \in 1 .. elements |-> buffer[tail + i - 1]]
  ELSE LET firstPart == IF Size - tail > elements THEN elements ELSE Size - tail
       IN  [i \in 1 .. elements |->
              IF i <= firstPart THEN buffer[tail + i - 1] ELSE buffer[i - firstPart - 1]]

Copy ==
  /\ pc = "Copy"
  /\ Goto("Advance")
  /\ out' = Copied
  /\ UNCHANGED <<ring, elements>>

Advance ==
  /\ pc = "Advance"
  /\ Goto("Reset")
  /\ tail' = (tail + elements) % Size
  /\ UNCHANGED <<buffer, head, isFull, elements, out>>

Reset ==
  /\ pc = "Reset"
  /\ Goto("Got")
  /\ isFull' = FALSE
  /\ UNCHANGED <<buffer, head, tail, elements, out>>

PopElements ==
  TestFull \/ TestEmpty \/ Count \/ Span \/ Copy \/ Advance \/ Reset

-----------------------------------------------------------------------------
(* ReadInputBlocking: nothing was there.                                   *)

\* If interrupts were off, sti takes effect only after the hlt that follows it.
Sti ==
  /\ pc = "Sti"
  /\ pc' = IF interrupts THEN "Hlt" ELSE "Halted"
  /\ interrupts' = TRUE
  /\ UNCHANGED <<ring, reader, wanted, elements, out, cursorPos, due, burst>>

Hlt ==
  /\ pc = "Hlt"
  /\ Goto("Halted")
  /\ UNCHANGED <<ring, elements, out>>

-----------------------------------------------------------------------------
(* ClearInput, and its callers.                                            *)

ClearHead ==
  /\ pc = "ClearHead"
  /\ Goto("ClearTail")
  /\ head' = 0
  /\ UNCHANGED <<buffer, tail, isFull, elements, out>>

ClearTail ==
  /\ pc = "ClearTail"
  /\ Goto("ClearFull")
  /\ tail' = 0
  /\ UNCHANGED <<buffer, head, isFull, elements, out>>

\* The shell then runs the program it has just read the name of, or, back at
\* its prompt, starts to read a line.
ClearFull ==
  /\ pc = "ClearFull"
  /\ isFull' = FALSE
  /\ pc' = IF reader = "Program" THEN "User" ELSE "TestFull"
  /\ burst' = 0
  /\ UNCHANGED <<buffer, head, tail, interrupts, reader, wanted, elements, out, cursorPos, due>>

\* The shell asks for bufferSize bytes wherever in its buffer it is, so a long
\* line runs past the end.  A line is complete if its last byte is a newline.
ShellGot ==
  /\ pc = "Got" /\ reader = "Shell"
  /\ LET read == cursorPos + elements IN
     IF read >= LineSize
     THEN pc' = "Overrun" /\ UNCHANGED <<cursorPos, reader, wanted>>
     ELSE IF out[elements] = Newline
     THEN pc' = "ClearHead" /\ reader' = "Program" /\ cursorPos' = 0 /\ UNCHANGED wanted
     ELSE pc' = "TestFull" /\ cursorPos' = read /\ UNCHANGED <<reader, wanted>>
  /\ burst' = 0
  /\ UNCHANGED <<ring, interrupts, elements, out, due>>

\* The read system call returns to the program.
ProgramGot ==
  /\ pc = "Got" /\ reader = "Program"
  /\ pc' = "User" /\ interrupts' = TRUE
  /\ UNCHANGED <<ring, reader, wanted, elements, out, cursorPos, due, burst>>

\* A program reads standard input; the system call masks interrupts.
ProgramRead ==
  /\ pc = "User"
  /\ pc' = "TestFull" /\ interrupts' = FALSE /\ burst' = 0
  /\ \E count \in 1 .. MaxRead : wanted' = count
  /\ UNCHANGED <<ring, reader, elements, out, cursorPos, due>>

\* The program exits; ReturnToKernel restores the shell's interrupt flag.
ProgramExit ==
  /\ pc = "User"
  /\ pc' = "ClearHead" /\ reader' = "Shell" /\ wanted' = LineSize /\ burst' = 0
  /\ UNCHANGED <<ring, interrupts, elements, out, cursorPos, due>>

Mainline ==
  PopElements \/ Sti \/ Hlt \/ ClearHead \/ ClearTail \/ ClearFull \/ ShellGot \/ ProgramGot

-----------------------------------------------------------------------------
\* Shell, after InitKeyboard: the first ClearInput.
Init ==
  /\ buffer = [i \in 0 .. Size - 1 |-> Other]
  /\ head = 0 /\ tail = 0 /\ isFull = FALSE
  /\ interrupts = TRUE
  /\ reader = "Shell" /\ pc = "ClearHead" /\ wanted = LineSize
  /\ elements = 0 /\ out = <<>> /\ cursorPos = 0
  /\ due = FALSE /\ burst = 0

Next ==
  \/ \E byte \in Bytes : InsertInput(byte)
  \/ ReleaseInterrupt
  \/ Mainline
  \/ ProgramRead
  \/ ProgramExit

\* The processor runs, and a key that is down comes up.  Nobody has to type, and
\* a program need not read or exit.  No other interrupt wakes the reader: InitApic
\* masked the timer with the rest of the legacy controller, and InitKeyboard lets
\* only the keyboard through again.
Fairness == WF_vars(Mainline) /\ WF_vars(ReleaseInterrupt)

Spec == Init /\ [][Next]_vars /\ Fairness

-----------------------------------------------------------------------------
\* What the ring holds.  While isFull is yet to be reset it may be left from
\* before the read, which then emptied the buffer if it took Size bytes; while
\* tail is yet to be cleared the bytes from slot 0 on are those typed since.
Held ==
  CASE pc \in {"ClearTail", "ClearFull"} -> head
    [] pc = "Reset" /\ elements = Size /\ head = tail -> 0
    [] OTHER -> Length(head, tail, isFull)

FirstSlot == IF pc \in {"ClearTail", "ClearFull"} THEN 0 ELSE tail

Contents == [i \in 1 .. Held |-> buffer[(FirstSlot + i - 1) % Size]]

Phase == CASE pc = "Advance" -> "Taking" [] pc = "ClearHead" -> "Discarding" [] OTHER -> "Idle"

Abstract == INSTANCE InputQueue WITH queue <- Contents, got <- out, phase <- Phase

\* For every interleaving of the interrupt with the reader, in which no more
\* than Burst interrupts fall into one operation, the readers see a queue: the bytes
\* typed, in order, none twice and none lost but those the full buffer refused.
ImplementsInputQueue == Abstract!Spec

\* A reader is never left asleep on input for good.  A key can slip in between
\* ReadInputBlocking's look at the buffer and its hlt, and the reader then sleeps
\* with a byte waiting; the key's release, if it comes no earlier, wakes it.
ReaderGetsInput ==
  (pc \in {"TestFull", "TestEmpty"} \cup Waiting /\ Contents # <<>>) ~> (pc = "Advance")
=============================================================================
