\* Every modifier, a letter, keys with one and with two characters, and two
\* keys the driver does not know: F1 and the up arrow.
CONSTANTS
  Keys = {2, 15, 29, 30, 42, 54, 56, 58, 59, 57373, 57400, 57416}
  NoChar = NoChar
SPECIFICATION KeyboardSpec
CHECK_DEADLOCK FALSE
INVARIANTS NoStuckModifier
