CONSTANTS
  KeysUsed = {"A", "ShiftLeft", "ControlLeft", "Alt", "AltGr", "Home"}
  MaxWire = 4
  BeyondStandard = {FALSE}
SPECIFICATION KeyboardSpec
INVARIANTS
  ModifiersFollowKeys
  PrintsWhatWasMeant
