---------------------------- MODULE InputEncoding ----------------------------
(* Input::write_to: the bytes a key, a mouse event or a colour report adds to *)
(* the write queue under the terminal modes.  A control sequence is kept as   *)
(* its introducer, its numbers and its final byte, a plain byte as a number.  *)
EXTENDS Integers, Sequences

Byte(b) == [intro |-> "", numbers |-> <<b>>, final |-> ""]
Control(intro, numbers, final) == [intro |-> intro, numbers |-> numbers, final |-> final]
Esc == 27

-----------------------------------------------------------------------------
(* Keys: a name and, where the name alone does not tell, a number.            *)

CursorFinal ==
    [Up |-> "A", Down |-> "B", Right |-> "C", Left |-> "D", Home |-> "H", End |-> "F"]
EditNumber == [Insert |-> 2, Delete |-> 3, PageUp |-> 5, PageDown |-> 6]
PlainByte == [Enter |-> 13, Tab |-> 9, Backspace |-> 127, Escape |-> Esc]
FunctionFinal == <<"P", "Q", "R", "S">>
FunctionNumber == <<15, 17, 18, 19, 20, 21, 23, 24>>
DigitFinal == <<"p", "q", "r", "s", "t", "u", "v", "w", "x", "y">>

(* Mutant: the minus key takes the capital of its letter. *)
KeypadForm_CapitalMinus ==
    [KeypadDecimal |-> <<46, "n">>, KeypadEnter |-> <<13, "M">>, KeypadAdd |-> <<43, "k">>,
     KeypadSubtract |-> <<45, "M">>, KeypadMultiply |-> <<42, "j">>, KeypadDivide |-> <<47, "o">>]

(* The byte of a keypad key, and the final byte it has in application mode.   *)
KeypadForm ==
    [KeypadDecimal |-> <<46, "n">>, KeypadEnter |-> <<13, "M">>, KeypadAdd |-> <<43, "k">>,
     KeypadSubtract |-> <<45, "m">>, KeypadMultiply |-> <<42, "j">>, KeypadDivide |-> <<47, "o">>]

(* The control byte of an ASCII character; {} if it has none. *)
ctrl_byte(ch) ==
    IF ch \in {32, 64} THEN {0}
    ELSE IF ch \in 97..122 THEN {ch - 97 + 1}
    ELSE IF ch \in 65..90 THEN {ch - 65 + 1}
    ELSE IF ch \in {47, 95} THEN {31}
    ELSE IF ch \in 51..55 THEN {ch - 51 + 27}       \* '3' to '7', for '[' to '_'
    ELSE IF ch \in 91..94 THEN {ch - 91 + 27}
    ELSE IF ch = 63 THEN {127}
    ELSE IF ch < 32 THEN {ch}
    ELSE {}

write_char(ch, modifiers) ==
    {Byte(b) : b \in IF "ctrl" \in modifiers /\ ctrl_byte(ch) # {} THEN ctrl_byte(ch) ELSE {ch}}

write_cursor(application, final) == Control(IF application THEN "SS3" ELSE "CSI", <<>>, final)
write_function(n) ==
    IF n \in 1..4 THEN {Control("SS3", <<>>, FunctionFinal[n])}
    ELSE IF n \in 5..12 THEN {Control("CSI", <<FunctionNumber[n - 4]>>, "~")}
    ELSE {}
write_keypad(application, normal, final) ==
    IF application THEN Control("SS3", <<>>, final) ELSE Byte(normal)

(* {} for a function key or a keypad digit there is none of. *)
write_key_body(key, modifiers, modes) ==
    LET keypad == "application_keypad" \in modes.on
    IN CASE key.name = "Char" -> write_char(key.n, modifiers)
         [] key.name \in DOMAIN PlainByte -> {Byte(PlainByte[key.name])}
         [] key.name \in DOMAIN CursorFinal ->
                {write_cursor("application_cursor" \in modes.on, CursorFinal[key.name])}
         [] key.name \in DOMAIN EditNumber -> {Control("CSI", <<EditNumber[key.name]>>, "~")}
         [] key.name = "Function" -> write_function(key.n)
         [] key.name = "KeypadDigit" ->
                IF key.n > 9 THEN {}
                ELSE {write_keypad(keypad, 48 + key.n, DigitFinal[key.n + 1])}
         [] OTHER -> {write_keypad(keypad, KeypadForm[key.name][1], KeypadForm[key.name][2])}

write_key(key, modifiers, modes) ==
    (IF "alt" \in modifiers THEN <<Byte(Esc)>> ELSE <<>>)
    \o (LET body == write_key_body(key, modifiers, modes)
        IN IF body = {} THEN <<>> ELSE <<CHOOSE b \in body : TRUE>>)

-----------------------------------------------------------------------------
(* The mouse.  A button of "none" is a bare move.                             *)

ButtonCode == [Left |-> 0, Middle |-> 1, Right |-> 2, WheelUp |-> 64, WheelDown |-> 65, none |-> 3]
LEGACY_COORD_MAX == 255 - 32

should_report(event, mode) ==
    CASE mode = "Off" -> FALSE
      [] mode = "X10" -> event.kind = "Press" /\ event.button \in {"Left", "Middle", "Right"}
      [] mode = "Normal" -> event.kind # "Motion"
      [] mode = "ButtonEvent" -> event.kind # "Motion" \/ event.button # "none"
      [] mode = "AnyEvent" -> TRUE

(* Mutant: a release forgets its button in both forms. *)
button_code_ReleaseIsThree(event, sgr) ==
    CASE event.kind = "Press" -> ButtonCode[event.button]
      [] event.kind = "Release" -> 3
      [] event.kind = "Motion" -> ButtonCode[event.button] + 32

(* `| 32` adds: no button has that bit. *)
button_code(event, sgr) ==
    CASE event.kind = "Press" -> ButtonCode[event.button]
      [] event.kind = "Release" -> IF sgr THEN ButtonCode[event.button] ELSE 3
      [] event.kind = "Motion" -> ButtonCode[event.button] + 32

ModifierBit == [shift |-> 4, alt |-> 8, ctrl |-> 16]
Bits(modifiers) ==
    LET bit(m) == IF m \in modifiers THEN ModifierBit[m] ELSE 0
    IN bit("shift") + bit("alt") + bit("ctrl")

AtMost(bound, n) == IF n < bound THEN n ELSE bound
write_mouse(event, modes) ==
    LET sgr == "mouse_sgr" \in modes.on
        code == button_code(event, sgr) + Bits(event.modifiers)
        x == event.position.col + 1
        y == event.position.row + 1
        legacy(n) == (32 + AtMost(LEGACY_COORD_MAX, n)) % 256
    IN IF ~should_report(event, modes.mouse) THEN <<>>
       ELSE IF sgr
       THEN <<Control("CSI <", <<code, x, y>>, IF event.kind = "Release" THEN "m" ELSE "M")>>
       ELSE <<Control("CSI M", <<(32 + code) % 256, legacy(x), legacy(y)>>, "")>>

-----------------------------------------------------------------------------
(* A colour report: an OSC identifier and its fields.  A field is a number, a *)
(* colour, a question mark or something else, with its digits.                *)

Field(text, parts) == [text |-> text, parts |-> parts]
osc_id(slot) ==
    CASE slot.name = "Indexed" -> 4
      [] slot.name = "DefaultForeground" -> 10
      [] slot.name = "DefaultBackground" -> 11
      [] slot.name = "DefaultCursor" -> 12

Decimal == [n \in 0..255 |->
    IF n > 99 THEN <<n \div 100, (n \div 10) % 10, n % 10>>
    ELSE IF n > 9 THEN <<n \div 10, n % 10>> ELSE <<n>>]
write_hex_byte(b) == <<b \div 16, b % 16>>

write_color(slot, rgb) ==
    LET spec == Field("rgb", [i \in 1..3 |-> write_hex_byte(rgb[i])])
    IN [id |-> osc_id(slot),
        fields |-> IF slot.name = "Indexed"
                   THEN <<Field("number", <<Decimal[slot.n]>>), spec>> ELSE <<spec>>]
=============================================================================
