---------------------------- MODULE MCConversions ----------------------------
(* Samples for Conversions: every key, the values on both sides of each       *)
(* boundary, colours whose numbers are SGR codes themselves, fields of every  *)
(* kind, and short payloads.                                                  *)
EXTENDS Conversions

Plain(names) == {[name |-> name, n |-> 0] : name \in names}
Numbered(name, numbers) == {[name |-> name, n |-> n] : n \in numbers}
MCKeys ==
    Plain(DOMAIN PlainByte \cup DOMAIN CursorFinal \cup DOMAIN EditNumber \cup DOMAIN KeypadForm)
    \cup Numbered("Function", 0..13) \cup Numbered("KeypadDigit", 0..10)
    \cup Numbered("Char", {45, 48, 65, 97})

MCButtons == {"Left", "Middle", "Right", "WheelUp", "WheelDown"}
MCCoordinates == {0, 222, 223, 65534}
MCChannels == {0, 9, 16, 127, 128, 255}
MCIndices == {0, 9, 10, 99, 100, 255}

Unit(codes, sets) == [codes |-> codes, sets |-> sets]
MCSgrUnits ==
    {Unit(<<0>>, DefaultPen), Unit(<<1>>, [bold |-> TRUE]), Unit(<<22>>, [bold |-> FALSE]),
     Unit(<<23>>, [italic |-> FALSE]), Unit(<<4>>, [underline |-> TRUE]),
     Unit(<<27>>, [reverse |-> FALSE]), Unit(<<37>>, [foreground |-> <<7>>]),
     Unit(<<97>>, [foreground |-> <<15>>]), Unit(<<39>>, [foreground |-> <<>>]),
     Unit(<<40>>, [background |-> <<0>>]), Unit(<<107>>, [background |-> <<15>>]),
     Unit(<<38, 5, 0>>, [foreground |-> <<0>>]), Unit(<<48, 5, 38>>, [background |-> <<38>>]),
     Unit(<<38, 2, 48, 5, 1>>, [foreground |-> <<48, 5, 1>>]),
     Unit(<<48, 2, 0, 255, 22>>, [background |-> <<0, 255, 22>>])}

Number(digits) == Field("number", <<digits>>)
Color(r, g, b) == Field("rgb", <<r, g, b>>)
MCFields ==
    {Number(<<7>>), Number(<<2, 5, 5>>), Number(<<2, 5, 6>>), Number(<<>>), Number(<<NotADigit, 1>>),
     Field("?", <<>>), Color(<<15>>, <<0, 1>>, <<15, 15, 15>>), Color(<<>>, <<0>>, <<1>>)}
MCDigits == {0, 1, 9, 15, NotADigit}
MCCharacters == {0, 1, 38, Plus, 63, Pad, Question}
=============================================================================
