--------------------------- MODULE ControlPayloads ---------------------------
(* What the emulator reads out of the parameters of a sequence: SGR and its   *)
(* extended colours, the colour requests of OSC 4 and 10 to 12, and the       *)
(* clipboard requests of OSC 52.  None is the empty set.                      *)
EXTENDS InputEncoding, SequencesExt

-----------------------------------------------------------------------------
(* SGR.  A colour is <<index>> or <<r, g, b>>, and <<>> for the default.      *)

DefaultPen == [bold |-> FALSE, italic |-> FALSE, underline |-> FALSE, reverse |-> FALSE,
               foreground |-> <<>>, background |-> <<>>]

(* A parameter is a list of colon separated values. *)
flatten_params(params) ==
    FlattenSeq([i \in DOMAIN params |-> IF params[i] = <<>> THEN <<0>> ELSE params[i]])

(* Values that follow the mode of a colour: `5;n` or `2;r;g;b`; 0 for none.   *)
ChannelCount(values) ==
    IF values = <<>> \/ values[1] \notin {2, 5} THEN 0 ELSE IF values[1] = 5 THEN 1 ELSE 3

(* Mutant: the mode of the colour is not counted. *)
parse_extended_color_OneShort(values) ==
    LET needed == ChannelCount(values)
        channels == SubSeq(values, 2, needed + 1)
    IN IF needed > 0 /\ Len(values) > needed /\ \A i \in 1..needed : channels[i] <= 255
       THEN {[color |-> channels, consumed |-> needed]} ELSE {}

(* A colour, if all of it is there and each channel fits a byte. *)
parse_extended_color(values) ==
    LET needed == ChannelCount(values)
        channels == SubSeq(values, 2, needed + 1)
    IN IF needed > 0 /\ Len(values) > needed /\ \A i \in 1..needed : channels[i] <= 255
       THEN {[color |-> channels, consumed |-> needed + 1]} ELSE {}

set_attribute(pen, code) ==
    CASE code = 0 -> DefaultPen
      [] code \in {1, 22} -> [pen EXCEPT !.bold = code = 1]
      [] code \in {3, 23} -> [pen EXCEPT !.italic = code = 3]
      [] code \in {4, 24} -> [pen EXCEPT !.underline = code = 4]
      [] code \in {7, 27} -> [pen EXCEPT !.reverse = code = 7]
      [] code \in 30..37 -> [pen EXCEPT !.foreground = <<code - 30>>]
      [] code = 39 -> [pen EXCEPT !.foreground = <<>>]
      [] code \in 40..47 -> [pen EXCEPT !.background = <<code - 40>>]
      [] code = 49 -> [pen EXCEPT !.background = <<>>]
      [] code \in 90..97 -> [pen EXCEPT !.foreground = <<code - 90 + 8>>]
      [] code \in 100..107 -> [pen EXCEPT !.background = <<code - 100 + 8>>]
      [] OTHER -> pen

set_color(pen, code, color) ==
    IF code = 38 THEN [pen EXCEPT !.foreground = color] ELSE [pen EXCEPT !.background = color]

(* A turn of the loop of handle_sgr reads the value at i and, for a colour    *)
(* that is understood, what follows it.                                       *)
sgr_turn(values, at) ==
    LET code == values[at.i]
        extended == IF code \in {38, 48}
                    THEN parse_extended_color(SubSeq(values, at.i + 1, Len(values))) ELSE {}
        found == CHOOSE e \in extended : TRUE
    IN IF extended = {} THEN [i |-> at.i + 1, pen |-> set_attribute(at.pen, code)]
       ELSE [i |-> at.i + found.consumed + 1, pen |-> set_color(at.pen, code, found.color)]

handle_sgr(pen, params) ==
    LET values == flatten_params(params)
        loop[n \in 0 .. Len(values)] ==        \* after n turns, or fewer
            IF n = 0 THEN [i |-> 1, pen |-> pen]
            ELSE IF loop[n - 1].i > Len(values) THEN loop[n - 1]
            ELSE sgr_turn(values, loop[n - 1])
    IN IF values = <<>> THEN DefaultPen ELSE loop[Len(values)].pen

-----------------------------------------------------------------------------
(* OSC 4 and OSC 10 to 12.  A digit is a number below 16, any other character *)
(* of a field is NotADigit.                                                   *)

NotADigit == 16
Value(digits, base) ==
    LET value[n \in 0 .. Len(digits)] ==
            IF n = 0 THEN 0 ELSE base * value[n - 1] + digits[n]
    IN value[Len(digits)]

parse_osc_index(field) ==
    IF /\ field.text = "number" /\ field.parts[1] # <<>>
       /\ \A i \in DOMAIN field.parts[1] : field.parts[1][i] <= 9
       /\ Value(field.parts[1], 10) <= 255
    THEN {Value(field.parts[1], 10)} ELSE {}

parse_osc_channel(digits) ==
    IF Len(digits) \notin 1..4 \/ \E i \in DOMAIN digits : digits[i] = NotADigit THEN {}
    ELSE IF Len(digits) = 1 THEN {Value(digits, 16) * 17}
    ELSE {Value(digits, 16) \div <<1, 16, 256>>[Len(digits) - 1]}

(* A fourth channel is read as part of the third, which it spoils. *)
parse_osc_rgb(field) ==
    IF field.text # "rgb" \/ Len(field.parts) # 3 THEN {}
    ELSE {<<r, g, b>> : r \in parse_osc_channel(field.parts[1]),
                        g \in parse_osc_channel(field.parts[2]),
                        b \in parse_osc_channel(field.parts[3])}

GetColor(slot) == [request |-> "GetColor", slot |-> slot, rgb |-> <<>>]
SetColor(slot, rgb) == [request |-> "SetColor", slot |-> slot, rgb |-> rgb]
Slot(name, n) == [name |-> name, n |-> n]

color_request(slot, spec) ==
    IF spec.text = "?" THEN <<GetColor(slot)>>
    ELSE LET color == parse_osc_rgb(spec)
         IN IF color = {} THEN <<>> ELSE <<SetColor(slot, CHOOSE rgb \in color : TRUE)>>

(* What one pair of an OSC 4 asks for. *)
palette_request(key, spec) ==
    LET index == parse_osc_index(key)
    IN IF index = {} THEN <<>>
       ELSE color_request(Slot("Indexed", CHOOSE n \in index : TRUE), spec)

(* Mutant: a bad index ends the whole message. *)
osc_palette_StopsAtBad(fields) ==
    LET requests[k \in 0 .. Len(fields) \div 2] ==
            IF k = 0 THEN <<>>
            ELSE IF \E j \in 1..k : parse_osc_index(fields[2 * j - 1]) = {} THEN requests[k - 1]
            ELSE requests[k - 1] \o palette_request(fields[2 * k - 1], fields[2 * k])
    IN requests[Len(fields) \div 2]

(* Pair after pair, an odd field at the end left over. *)
osc_palette(fields) ==
    LET requests[k \in 0 .. Len(fields) \div 2] ==
            IF k = 0 THEN <<>>
            ELSE requests[k - 1] \o palette_request(fields[2 * k - 1], fields[2 * k])
    IN requests[Len(fields) \div 2]

osc_default_color(slot, fields) == IF fields = <<>> THEN <<>> ELSE color_request(slot, fields[1])

(* The colour messages among what osc_dispatch takes. *)
osc_color(id, fields) ==
    CASE id = 4 -> osc_palette(fields)
      [] id = 10 -> osc_default_color(Slot("DefaultForeground", 0), fields)
      [] id = 11 -> osc_default_color(Slot("DefaultBackground", 0), fields)
      [] id = 12 -> osc_default_color(Slot("DefaultCursor", 0), fields)

-----------------------------------------------------------------------------
(* OSC 52.  A character of the payload is its base64 value or one of these.   *)

Plus == 62
Pad == 64
Question == 65
NotBase64 == {Question, 66}

whole_group(b) ==
    <<(4 * b[1] + b[2] \div 16) % 256, (16 * b[2] + b[3] \div 4) % 256, (64 * b[3] + b[4]) % 256>>

(* One character into the group that is being collected. *)
base64_step(d, ch) ==
    IF ch = Pad THEN [d EXCEPT !.padding = TRUE]
    ELSE IF d.padding \/ ch \in NotBase64 THEN [d EXCEPT !.ok = FALSE]
    ELSE IF Len(d.buffer) = 3
    THEN [d EXCEPT !.out = @ \o whole_group(Append(d.buffer, ch)), !.buffer = <<>>]
    ELSE [d EXCEPT !.buffer = Append(@, ch)]

decode_base64(input) ==
    LET start == [out |-> <<>>, buffer |-> <<>>, padding |-> FALSE, ok |-> TRUE]
        read[n \in 0 .. Len(input)] ==
            IF n = 0 THEN start ELSE base64_step(read[n - 1], input[n])
        end == read[Len(input)]
        tail == whole_group(end.buffer \o <<0, 0, 0, 0>>)
    IN IF ~end.ok \/ Len(end.buffer) = 1 THEN {}
       ELSE {end.out \o SubSeq(tail, 1, Len(end.buffer) - 1)}

GetClipboard(selection) ==
    [request |-> "GetClipboard", selection |-> selection, text |-> <<>>, append |-> FALSE]
SetClipboard(selection, text, append) ==
    [request |-> "SetClipboard", selection |-> selection, text |-> text, append |-> append]

osc_clipboard(selection, payload) ==
    LET append == payload # <<>> /\ payload[1] = Plus
        text == decode_base64(IF append THEN Tail(payload) ELSE payload)
        target == IF selection = "missing" THEN "c" ELSE selection
    IN IF payload = <<Question>> THEN <<GetClipboard(target)>>
       ELSE IF text = {} THEN <<>>
       ELSE <<SetClipboard(target, CHOOSE t \in text : TRUE, append)>>
=============================================================================
