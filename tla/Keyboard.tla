------------------------------ MODULE Keyboard ------------------------------
(***************************************************************************)
(* From scan codes to typed text: KeyboardInterrupt and KeyState.  The     *)
(* keyboard sends one or two bytes for every press and release of a key;   *)
(* the interrupt handler takes one byte at a time and rebuilds, from these *)
(* alone, which modifiers are down.  Keys that share their last byte are   *)
(* told apart by the prefix byte E0 before it.  A byte is a record of its  *)
(* low seven bits and its release bit; only the keys that matter to what   *)
(* is printed are kept, and Home, for which a keyboard also sends a shift  *)
(* that nobody pressed, so that it works when shift is held.               *)
(***************************************************************************)
EXTENDS Naturals, Sequences

CONSTANTS KeysUsed,       \* the keys of this keyboard
          MaxWire,        \* bound on the bytes sent and not yet handled
          BeyondStandard  \* outcomes of a read past Standard's end

\* A key's last byte, and whether E0 precedes it.
KeyTable ==
  [A           |-> [extended |-> FALSE, code |-> "1E"],
   ShiftLeft   |-> [extended |-> FALSE, code |-> "2A"],
   ShiftRight  |-> [extended |-> FALSE, code |-> "36"],
   ControlLeft |-> [extended |-> FALSE, code |-> "1D"],
   ControlRight|-> [extended |-> TRUE,  code |-> "1D"],
   Alt         |-> [extended |-> FALSE, code |-> "38"],
   AltGr       |-> [extended |-> TRUE,  code |-> "38"],
   Home        |-> [extended |-> TRUE,  code |-> "47"]]

Codes == {KeyTable[k].code : k \in DOMAIN KeyTable}

ASSUME KeyboardAssumption ==
  /\ KeysUsed \subseteq DOMAIN KeyTable
  /\ MaxWire \in Nat
  /\ BeyondStandard \subseteq BOOLEAN /\ BeyondStandard # {}

Nothing == "Nothing"      \* no key string: the handler prints nothing
Columns == {"Standard", "Shift", "AltGr", "ShiftAltGr"}  \* of the layout

VARIABLES held,           \* keys that are down
          wire,           \* bytes sent, oldest first, with the text they mean
          Standard,       \* KeyState: the keys without a prefix
          Extended1,      \* KeyState: the keys after E0
          ExtendedKeyState,  \* the last byte was E0
          beyond,         \* the byte that Standard[ControlRight] reads
          printed,        \* what the last byte handled printed
          meant           \* what it should have

keyState == <<Standard, Extended1, ExtendedKeyState, beyond>>
keyboardVars == <<held, wire, keyState, printed, meant>>

-----------------------------------------------------------------------------
(* The keyboard.                                                           *)

Prefix == [code |-> "E0", released |-> FALSE, means |-> Nothing]

\* What the key A means while the keys in down are held.
Meaning(down) ==
  LET shift == down \cap {"ShiftLeft", "ShiftRight"} # {}
      altGr == "AltGr" \in down
  IN  IF down \cap {"ControlLeft", "ControlRight", "Alt"} # {} THEN Nothing
      ELSE IF shift /\ altGr THEN "ShiftAltGr"
      ELSE IF shift THEN "Shift"
      ELSE IF altGr THEN "AltGr" ELSE "Standard"

Sent(k, released, means) ==
  (IF KeyTable[k].extended THEN <<Prefix>> ELSE <<>>)
    \o <<[code |-> KeyTable[k].code, released |-> released, means |-> means]>>

\* The shift a keyboard lifts, and puts down again, around Home.
FakeShift(k, released) ==
  IF k = "Home" /\ held \cap {"ShiftLeft", "ShiftRight"} # {}
  THEN <<Prefix, [code |-> "2A", released |-> released, means |-> Nothing]>>
  ELSE <<>>

Send(bytes) ==
  /\ Len(wire) + Len(bytes) <= MaxWire
  /\ wire' = wire \o bytes

\* A key goes down, or repeats.
Press(k) ==
  /\ Send(FakeShift(k, TRUE)
            \o Sent(k, FALSE, IF k = "A" THEN Meaning(held) ELSE Nothing))
  /\ held' = held \cup {k}
  /\ UNCHANGED <<keyState, printed, meant>>

Release(k) ==
  /\ k \in held
  /\ Send(Sent(k, TRUE, Nothing) \o FakeShift(k, FALSE))
  /\ held' = held \ {k}
  /\ UNCHANGED <<keyState, printed, meant>>

-----------------------------------------------------------------------------
(* The kernel.                                                             *)

\* A mutant: the prefix is not looked at.
UpdateKeyStateIgnoresPrefix(byte) ==
  /\ Standard' = [Standard EXCEPT ![byte.code] = ~byte.released]
  /\ UNCHANGED Extended1

UpdateKeyState(byte) ==
  IF ExtendedKeyState
  THEN Extended1' = [Extended1 EXCEPT ![byte.code] = ~byte.released] /\ UNCHANGED Standard
  ELSE Standard' = [Standard EXCEPT ![byte.code] = ~byte.released] /\ UNCHANGED Extended1

\* A mutant: AltGr is never looked up.
GetPrintableAltGr(byte, standard, extended1) ==
  LET shift == standard["2A"] \/ standard["36"]
  IN  IF byte.released \/ ExtendedKeyState \/ byte.code # "1E" THEN Nothing
      ELSE IF standard["1D"] \/ beyond \/ standard["38"] THEN Nothing
      ELSE IF shift THEN "Shift" ELSE "Standard"

\* The column of the layout that a key's text is taken from.  The right control
\* key is numbered E01D and looked up in Standard, beyond its end.
GetPrintable(byte, standard, extended1) ==
  LET shift == standard["2A"] \/ standard["36"]
      alt == standard["38"]
      altGr == extended1["38"]
      control == standard["1D"] \/ beyond
  IN  IF byte.released \/ ExtendedKeyState \/ byte.code # "1E" THEN Nothing
      ELSE IF control \/ alt THEN Nothing
      ELSE IF shift /\ altGr THEN "ShiftAltGr"
      ELSE IF shift THEN "Shift"
      ELSE IF altGr THEN "AltGr" ELSE "Standard"

\* One byte of the keyboard's.
KeyboardInterrupt ==
  /\ wire # <<>>
  /\ wire' = Tail(wire)
  /\ LET byte == Head(wire) IN
     IF byte.code = "E0"
     THEN /\ ExtendedKeyState' = TRUE
          /\ UNCHANGED <<Standard, Extended1, printed, meant>>
     ELSE /\ UpdateKeyState(byte)
          /\ printed' = GetPrintable(byte, Standard', Extended1')
          /\ meant' = byte.means
          /\ ExtendedKeyState' = FALSE
  /\ UNCHANGED <<held, beyond>>

-----------------------------------------------------------------------------
\* With no key down.
InitKeyboard ==
  /\ held = {} /\ wire = <<>>
  /\ Standard = [c \in Codes |-> FALSE] /\ Extended1 = [c \in Codes |-> FALSE]
  /\ ExtendedKeyState = FALSE
  /\ beyond \in BeyondStandard
  /\ printed = Nothing /\ meant = Nothing

KeyboardNext ==
  \/ \E k \in KeysUsed : Press(k)
  \/ \E k \in KeysUsed : Release(k)
  \/ KeyboardInterrupt

KeyboardSpec == InitKeyboard /\ [][KeyboardNext]_keyboardVars

-----------------------------------------------------------------------------
\* Once every byte is handled, the kernel's idea of the modifiers is the
\* keyboard's: no key sticks, whatever other keys (of the same last byte, or
\* with shifts sent on their behalf) were pressed in between.
ModifiersFollowKeys ==
  wire = <<>> => \A k \in KeysUsed :
    (k \in held) = IF KeyTable[k].extended THEN Extended1[KeyTable[k].code]
                                           ELSE Standard[KeyTable[k].code]

\* A key prints what it meant when it went down, however many other keys have
\* moved before its byte is handled.
PrintsWhatWasMeant == printed = meant
=============================================================================
