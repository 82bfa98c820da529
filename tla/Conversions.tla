----------------------------- MODULE Conversions -----------------------------
(* The stateless conversions at both ends of a session, one sample after      *)
(* another: what the host's input is for the child that reads it, and what    *)
(* the child's parameters are for the terminal and the caller.                *)
EXTENDS ControlPayloads

CONSTANTS
    Keys,           \* keys, as [name, n]
    Buttons,        \* buttons of a mouse event
    Coordinates,    \* rows and columns of a mouse event
    Channels,       \* values of a colour channel
    Indices,        \* palette entries
    SgrUnits,       \* complete SGR commands: [codes, sets], and what each one sets
    Fields,         \* fields of an OSC 4
    Digits,         \* hexadecimal digits of a colour channel
    Characters,     \* characters of an OSC 52 payload
    MaxUnits, MaxFields, MaxCharacters      \* bounds: lengths of such lists

(* A character key is a printable one: Enter, Tab, Escape and Backspace are    *)
(* keys of their own, and so are the letters typed with the control modifier. *)
Key ==
    [name : DOMAIN PlainByte \cup DOMAIN CursorFinal \cup DOMAIN EditNumber \cup DOMAIN KeypadForm,
     n : {0}]
    \cup [name : {"Function", "KeypadDigit"}, n : 0..255]
    \cup [name : {"Char"}, n : {ch \in Nat : ch >= 32 /\ ch # 127}]

(* One SGR command, whole: a colour in its extended form, or one number.      *)
ColorCommand(unit) ==
    LET size == Len(unit.codes)
        color == SubSeq(unit.codes, 3, size)
    IN /\ size \in {3, 5}
       /\ unit.codes[2] = IF size = 3 THEN 5 ELSE 2
       /\ \A i \in 3..size : unit.codes[i] <= 255
       /\ \/ unit.codes[1] = 38 /\ unit.sets = [foreground |-> color]
          \/ unit.codes[1] = 48 /\ unit.sets = [background |-> color]
NumberCommand(unit) ==
    LET code == unit.codes[1]
    IN /\ Len(unit.codes) = 1
       /\ code \notin {38, 48}
       /\ unit.sets =
              CASE code = 0 -> DefaultPen
                [] code \in {1, 22} -> [bold |-> code = 1]
                [] code \in {3, 23} -> [italic |-> code = 3]
                [] code \in {4, 24} -> [underline |-> code = 4]
                [] code \in {7, 27} -> [reverse |-> code = 7]
                [] code \in 30..37 -> [foreground |-> <<code - 30>>]
                [] code \in 90..97 -> [foreground |-> <<code - 82>>]
                [] code = 39 -> [foreground |-> <<>>]
                [] code \in 40..47 -> [background |-> <<code - 40>>]
                [] code \in 100..107 -> [background |-> <<code - 92>>]
                [] code = 49 -> [background |-> <<>>]
                [] OTHER -> <<>>

ASSUME ConversionsAssumption ==
    /\ Keys \subseteq Key
    /\ Buttons \subseteq DOMAIN ButtonCode \ {"none"}
    /\ Coordinates \subseteq Nat
    /\ Channels \subseteq 0..255
    /\ Indices \subseteq 0..255
    /\ \A unit \in SgrUnits :
           unit.codes \in Seq(Nat) /\ (ColorCommand(unit) \/ NumberCommand(unit))
    /\ \A field \in Fields : field.parts \in Seq(Seq(0..NotADigit))
    /\ Digits \subseteq 0..NotADigit
    /\ Characters \subseteq 0..66
    /\ {MaxUnits, MaxFields, MaxCharacters} \subseteq Nat

VARIABLE sample     \* what is converted, tagged by its kind

Mode == {"application_cursor", "application_keypad"}
MouseModes == <<"Off", "X10", "Normal", "ButtonEvent", "AnyEvent">>
Modes(on, mouse) == [on |-> on, mouse |-> mouse]
Lists(set, longest) == UNION {[1..n -> set] : n \in 0..longest}

Slots ==
    {Slot(name, 0) : name \in {"DefaultForeground", "DefaultBackground", "DefaultCursor"}}
    \cup {Slot("Indexed", n) : n \in Indices}

MouseEvents ==
    LET moved == Buttons \cup {"none"}
        at(kind, buttons) ==
            [kind : {kind}, button : buttons, position : [row : Coordinates, col : Coordinates],
             modifiers : SUBSET {"shift", "alt", "ctrl"}]
    IN at("Press", Buttons) \cup at("Release", Buttons) \cup at("Motion", moved)

Nothing == [of |-> "nothing"]
Init == sample = Nothing

TakeKeys ==
    \E one \in Keys, other \in Keys, on \in SUBSET Mode :
        sample' = [of |-> "keys", one |-> one, other |-> other, modes |-> Modes(on, "Off")]
TakeMouse ==
    \E event \in MouseEvents, i \in DOMAIN MouseModes, on \in SUBSET {"mouse_sgr"} :
        sample' = [of |-> "mouse", event |-> event, tracking |-> i, modes |-> Modes(on, MouseModes[i])]
TakeColor ==
    \E slot \in Slots, rgb \in [1..3 -> Channels] :
        sample' = [of |-> "color", slot |-> slot, rgb |-> rgb]
(* The last command comes with semicolons or with colons. *)
TakeSgr ==
    \E units \in Lists(SgrUnits, MaxUnits), colons \in BOOLEAN :
        sample' = [of |-> "sgr", units |-> units, colons |-> colons]
TakePalette == \E fields \in Lists(Fields, MaxFields) : sample' = [of |-> "palette", fields |-> fields]
TakeChannel == \E digits \in Lists(Digits, 5) : sample' = [of |-> "channel", digits |-> digits]
TakeClipboard ==
    \E payload \in Lists(Characters, MaxCharacters), selection \in {"missing", "c", "p"} :
        sample' = [of |-> "clipboard", payload |-> payload, selection |-> selection]
Done == sample # Nothing /\ sample' = Nothing

Next ==
    \/ /\ sample = Nothing
       /\ \/ TakeKeys \/ TakeMouse \/ TakeColor \/ TakeSgr
          \/ TakePalette \/ TakeChannel \/ TakeClipboard
    \/ Done

Spec == Init /\ [][Next]_sample

-----------------------------------------------------------------------------
(* What the child at the other end makes of a report.                         *)

Bit(n, power) == (n \div power) % 2
ButtonNamed(code) == CHOOSE button \in DOMAIN ButtonCode : ButtonCode[button] = code

Seen(report, sgr) ==
    LET code == report.numbers[1] - IF sgr THEN 0 ELSE 32
        offset == IF sgr THEN 1 ELSE 33
        button == ButtonNamed((code % 4) + 64 * Bit(code, 64))
        released == IF sgr THEN report.final = "m" ELSE button = "none"
        kind == IF Bit(code, 32) = 1 THEN "Motion" ELSE IF released THEN "Release" ELSE "Press"
    IN [kind |-> kind, button |-> button,
        position |-> [col |-> report.numbers[2] - offset, row |-> report.numbers[3] - offset],
        modifiers |-> {m \in DOMAIN ModifierBit : Bit(code, ModifierBit[m]) = 1}]

(* The legacy form has no button for a release and 223 cells to a side. *)
Expressible(event, sgr) ==
    IF sgr THEN event
    ELSE [event EXCEPT !.button = IF event.kind = "Release" THEN "none" ELSE @,
                       !.position = [row |-> AtMost(222, @.row), col |-> AtMost(222, @.col)]]

(* In the modes it was encoded for, a mouse report says to the child which    *)
(* event it was, as far as the form can express it; each tracking mode        *)
(* reports all that the one before it does.                                   *)
MouseReadable ==
    sample.of = "mouse" =>
        LET sgr == "mouse_sgr" \in sample.modes.on
            report == write_mouse(sample.event, sample.modes)
            less == Modes(sample.modes.on, MouseModes[sample.tracking - 1])
        IN /\ report # <<>> => /\ Seen(report[1], sgr) = Expressible(sample.event, sgr)
                               /\ sgr \/ \A i \in 1..3 : report[1].numbers[i] \in 32..255
           /\ sample.tracking > 1 /\ write_mouse(sample.event, less) # <<>> => report # <<>>

(* Two keys are the same to the child only if they are the same character:    *)
(* the keypad outside its application mode, and Enter on either side of it.   *)
KeysReadable ==
    sample.of = "keys" =>
        LET bytes(key) == write_key(key, {}, sample.modes)
        IN sample.one # sample.other /\ bytes(sample.one) = bytes(sample.other)
           => \/ bytes(sample.one) = <<>>
              \/ "application_keypad" \notin sample.modes.on /\ bytes(sample.one)[1].intro = ""

(* "A color message the child can read the same way it writes one." *)
ColorReadable ==
    sample.of = "color" =>
        LET report == write_color(sample.slot, sample.rgb)
        IN osc_color(report.id, report.fields) = <<SetColor(sample.slot, sample.rgb)>>

InputReadable == MouseReadable /\ KeysReadable /\ ColorReadable

-----------------------------------------------------------------------------
(* Whatever commands one SGR sequence strings together, the pen is what they  *)
(* make of it one after another: the numbers of a colour are never read as    *)
(* commands, nor a command as part of a colour.                               *)
FullPen == [bold |-> TRUE, italic |-> TRUE, underline |-> TRUE, reverse |-> TRUE,
            foreground |-> <<9>>, background |-> <<9, 9, 9>>]
pen_after(pen, sets) ==
    [field \in DOMAIN pen |-> IF field \in DOMAIN sets THEN sets[field] ELSE pen[field]]
PenFollowsSgr ==
    sample.of = "sgr" =>
        LET units == sample.units
            separate(codes) == [i \in DOMAIN codes |-> <<codes[i]>>]
            params(i) == IF sample.colons /\ i = Len(units) THEN <<units[i].codes>>
                         ELSE separate(units[i].codes)
            pen[n \in 0 .. Len(units)] ==
                IF n = 0 THEN FullPen ELSE pen_after(pen[n - 1], units[n].sets)
        IN units # <<>> =>
               handle_sgr(FullPen, FlattenSeq([i \in DOMAIN units |-> params(i)]))
                   = pen[Len(units)]

-----------------------------------------------------------------------------
(* The pairs of an OSC 4 are independent: each asks what it would ask alone.  *)
PairsIndependent ==
    sample.of = "palette" =>
        LET pair(k) == SubSeq(sample.fields, 2 * k - 1, 2 * k)
        IN osc_palette(sample.fields)
               = FlattenSeq([k \in 1 .. Len(sample.fields) \div 2 |-> osc_palette(pair(k))])

(* A channel of one digit is that digit twice, and a longer one is as bright  *)
(* as its first two digits.                                                   *)
ChannelsScale ==
    sample.of = "channel" =>
        LET digits == sample.digits
            second == IF Len(digits) = 1 THEN digits[1] ELSE digits[2]
            wellformed == Len(digits) \in 1..4 /\ NotADigit \notin {digits[i] : i \in DOMAIN digits}
        IN parse_osc_channel(digits) = IF wellformed THEN {16 * digits[1] + second} ELSE {}

(* A clipboard payload is decoded whole or not at all: the bytes are the bits *)
(* of its characters, eight by eight, and nothing that is cut short, follows  *)
(* padding or is outside the alphabet stores anything.                        *)
ClipboardExact ==
    sample.of = "clipboard" =>
        LET append == sample.payload # <<>> /\ sample.payload[1] = Plus
            payload == IF append THEN Tail(sample.payload) ELSE sample.payload
            size == Cardinality({i \in DOMAIN payload : payload[i] # Pad})
            stream(k) == Bit(payload[k \div 6 + 1], <<32, 16, 8, 4, 2, 1>>[(k % 6) + 1])
            byte(j) == Value([k \in 1..8 |-> stream(8 * (j - 1) + k - 1)], 2)
            wellformed == /\ \A i \in DOMAIN payload : payload[i] \notin NotBase64
                          /\ \A i \in DOMAIN payload : i > size => payload[i] = Pad
                          /\ size % 4 # 1
            target == IF sample.selection = "p" THEN "p" ELSE "c"
        IN osc_clipboard(sample.selection, sample.payload)
               = IF sample.payload = <<Question>> THEN <<GetClipboard(target)>>
                 ELSE IF wellformed
                 THEN <<SetClipboard(target, [j \in 1 .. (6 * size) \div 8 |-> byte(j)], append)>>
                 ELSE <<>>

RequestsExact == PairsIndependent /\ ChannelsScale /\ ClipboardExact
=============================================================================
