------------------------------ MODULE Keyboard ------------------------------
(***************************************************************************)
(* The keyboard driver, device/keyboard.c: how the bytes that the keyboard *)
(* sends for its keys become characters.  The handler runs with interrupts *)
(* off, once for every byte.  What io_queue_putchar does with a character  *)
(* is modelled in IoQueue.                                                 *)
(*                                                                         *)
(* A key is its make code; the code of some keys is a byte after the byte  *)
(* 0xe0.  The break code sets bit 7 of the last byte.  A key that is held  *)
(* repeats its make code.                                                  *)
(***************************************************************************)
EXTENDS Naturals, Sequences

CONSTANTS Keys,   \* the keys of the keyboard, as make codes
          NoChar  \* no character

VARIABLES
  ext_scancode, ctrl_down, shift_down, alt_down, capslock_down,
  character,    \* the character the last code gave io_queue_putchar, or NoChar
  unknown_key,  \* the ASSERT of an unknown key has failed
  down,         \* the keys that are held
  wire          \* the bytes of the last code that no interrupt has fetched yet

flags        == <<ctrl_down, shift_down, alt_down, capslock_down>>
keyboardVars == <<ext_scancode, flags, character, unknown_key, down, wire>>

LEFT_SHIFT_MAKECODE  == \h2a
RIGHT_SHIFT_MAKECODE == \h36
LEFT_ALT_MAKECODE    == \h38
RIGHT_ALT_MAKECODE   == \he038
LEFT_CTRL_MAKECODE   == \h1d
RIGHT_CTRL_MAKECODE  == \he01d
CAPSLOCK_MAKECODE    == \h3a

Ctrls  == {LEFT_CTRL_MAKECODE, RIGHT_CTRL_MAKECODE}
Shifts == {LEFT_SHIFT_MAKECODE, RIGHT_SHIFT_MAKECODE}
Alts   == {LEFT_ALT_MAKECODE, RIGHT_ALT_MAKECODE}

\* No break code ends in the byte 0xe0.
ASSUME KeyboardAssumption ==
  /\ Keys \subseteq ((1 .. 127) \cup (\he001 .. \he07f)) \ {\h60, \he060}
  /\ NoChar \notin Nat

KeyboardInit ==
  /\ ext_scancode = FALSE /\ ctrl_down = FALSE /\ shift_down = FALSE
  /\ alt_down = FALSE /\ capslock_down = FALSE
  /\ character = NoChar /\ unknown_key = FALSE
  /\ down = {} /\ wire = <<>>

-----------------------------------------------------------------------------
(* The keyboard.                                                           *)

MakeBytes(k)  == IF k > 255 THEN <<\he0, k % 256>> ELSE <<k>>
BreakBytes(k) == IF k > 255 THEN <<\he0, (k % 256) + 128>> ELSE <<k + 128>>

press(k) ==
  /\ wire = <<>> /\ ~unknown_key
  /\ wire' = MakeBytes(k)
  /\ down' = down \cup {k}
  /\ character' = NoChar
  /\ UNCHANGED <<ext_scancode, flags, unknown_key>>

release(k) ==
  /\ wire = <<>> /\ ~unknown_key /\ k \in down
  /\ wire' = BreakBytes(k)
  /\ down' = down \ {k}
  /\ character' = NoChar
  /\ UNCHANGED <<ext_scancode, flags, unknown_key>>

-----------------------------------------------------------------------------
(* scancode_ascii_map, by the row: NoChar (its 0) for the control keys,    *)
(* one character for both columns, or two.                                 *)

ControlRows == {\h1d, \h2a, \h36, \h38, \h3a}
SameRows    == {\h01, \h0e, \h0f, \h1c, \h37, \h39}

scancode_ascii_map(index, column) ==
  CASE index \in ControlRows -> NoChar
    [] index \in SameRows    -> <<index, 0>>
    [] OTHER                 -> <<index, column>>

\* The keys whose second character shift selects, whatever capslock is.
ShiftOnly(scancode) ==
  \/ scancode < \h0e \/ scancode \in {\h2a, \h1a, \h1b}
  \/ scancode \in \h27 .. \h29 \cup \h33 .. \h35

has_shift(scancode) ==
  IF ShiftOnly(scancode) THEN shift_down ELSE shift_down # capslock_down

-----------------------------------------------------------------------------
(* keyboard_interrupt_hanlder.                                             *)

IsBreak(scancode) == (scancode \div 128) % 2 = 1

\* Mutant: the break codes of the right hand modifiers are not known.
break_LeftOnly(scancode) ==
  LET makecode == scancode - 128
  IN  /\ ctrl_down' = (ctrl_down /\ makecode # LEFT_CTRL_MAKECODE)
      /\ shift_down' = (shift_down /\ makecode # LEFT_SHIFT_MAKECODE)
      /\ alt_down' = (alt_down /\ makecode # LEFT_ALT_MAKECODE)
      /\ UNCHANGED <<capslock_down, character, unknown_key>>

\* A key was released.
break(scancode) ==
  LET makecode == scancode - 128
  IN  /\ ctrl_down' = (ctrl_down /\ makecode \notin Ctrls)
      /\ shift_down' = (shift_down /\ makecode \notin Shifts)
      /\ alt_down' = (alt_down /\ makecode \notin Alts)
      /\ UNCHANGED <<capslock_down, character, unknown_key>>

Known(scancode) ==
  scancode \in 1 .. \h3a \cup {RIGHT_CTRL_MAKECODE, RIGHT_ALT_MAKECODE}

\* A key was pressed: a character, ...
make_char(scancode) ==
  LET column == IF has_shift(scancode) THEN 1 ELSE 0
      c      == scancode_ascii_map(scancode % 256, column)
  IN  /\ Known(scancode) /\ c # NoChar
      /\ character' = c
      /\ UNCHANGED <<flags, unknown_key>>

\* ... or a control key, looked at without its 0xe0.
make_control(scancode) ==
  LET code == scancode % 256
  IN  /\ Known(scancode) /\ code \in ControlRows
      /\ ctrl_down' = (ctrl_down \/ code \in Ctrls)
      /\ shift_down' = (shift_down \/ code \in Shifts)
      /\ alt_down' = (alt_down \/ code \in Alts)
      /\ capslock_down' = (capslock_down # (code = CAPSLOCK_MAKECODE))
      /\ UNCHANGED <<character, unknown_key>>

\* The ASSERT that no key is unknown.
make_unknown(scancode) ==
  /\ ~Known(scancode)
  /\ unknown_key' = TRUE
  /\ UNCHANGED <<flags, character>>

make(scancode) ==
  make_char(scancode) \/ make_control(scancode) \/ make_unknown(scancode)

\* The interrupt of the byte 0xe0, ...
ext_byte ==
  /\ ~unknown_key /\ wire # <<>> /\ Head(wire) = \he0
  /\ wire' = Tail(wire)
  /\ ext_scancode' = TRUE
  /\ UNCHANGED <<flags, character, unknown_key, down>>

\* ... and of any other byte.
key_byte ==
  LET scancode == (IF ext_scancode THEN \he000 ELSE 0) + Head(wire)
  IN  /\ ~unknown_key /\ wire # <<>> /\ Head(wire) # \he0
      /\ wire' = Tail(wire)
      /\ ext_scancode' = FALSE
      /\ \/ IsBreak(scancode) /\ break(scancode)
         \/ ~IsBreak(scancode) /\ make(scancode)
      /\ UNCHANGED down

keyboard_interrupt_hanlder == ext_byte \/ key_byte

KeyboardNext == \/ \E k \in Keys : press(k) \/ release(k)
                \/ keyboard_interrupt_hanlder

KeyboardSpec == KeyboardInit /\ [][KeyboardNext]_keyboardVars

-----------------------------------------------------------------------------
(* Properties.                                                             *)

\* A modifier whose keys are all released does not stay on, on either side
\* of the keyboard and whatever other codes came between.
NoStuckModifier ==
  wire = <<>> /\ ~unknown_key =>
    /\ ctrl_down => down \cap Ctrls # {}
    /\ shift_down => down \cap Shifts # {}
    /\ alt_down => down \cap Alts # {}
=============================================================================
