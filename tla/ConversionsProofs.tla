-------------------------- MODULE ConversionsProofs --------------------------
(* What the conversions promise, of every sample there can be: every key,     *)
(* coordinate, mode, colour and list of any length.                           *)
EXTENDS Conversions, Recursion, FiniteSetTheorems

-----------------------------------------------------------------------------
(* The child reads a mouse report back.                                       *)

(* A button has a code of its own, without the bits of a move or a modifier.  *)
LEMMA ButtonCodes ==
    ASSUME NEW button \in DOMAIN ButtonCode
    PROVE  ButtonCode[button] \in {0, 1, 2, 3, 64, 65} /\ ButtonNamed(ButtonCode[button]) = button
BY DEF ButtonNamed, ButtonCode

(* The parts of a code are read back out of their sum. *)
LEMMA CodeParts ==
    ASSUME NEW base \in {0, 1, 2, 3, 64, 65}, NEW moved \in {0, 32},
           NEW s \in {0, 4}, NEW a \in {0, 8}, NEW c \in {0, 16}
    PROVE  LET code == base + moved + (s + a + c)
           IN /\ code \in 0..223
              /\ (code % 4) + 64 * ((code \div 64) % 2) = base
              /\ (code \div 32) % 2 = 1 <=> moved = 32
              /\ (code \div 4) % 2 = 1 <=> s = 4
              /\ (code \div 8) % 2 = 1 <=> a = 8
              /\ (code \div 16) % 2 = 1 <=> c = 16
OBVIOUS

LEMMA ModifiersRead ==
    ASSUME NEW base \in {0, 1, 2, 3, 64, 65}, NEW moved \in {0, 32},
           NEW modifiers \in SUBSET {"shift", "alt", "ctrl"}
    PROVE  LET code == base + moved + Bits(modifiers)
           IN /\ code \in 0..223
              /\ (code % 4) + 64 * Bit(code, 64) = base
              /\ Bit(code, 32) = 1 <=> moved = 32
              /\ {m \in DOMAIN ModifierBit : Bit(code, ModifierBit[m]) = 1} = modifiers
<1> DEFINE s == IF "shift" \in modifiers THEN 4 ELSE 0
           a == IF "alt" \in modifiers THEN 8 ELSE 0
           c == IF "ctrl" \in modifiers THEN 16 ELSE 0
           code == base + moved + (s + a + c)
<1>1. Bits(modifiers) = s + a + c
  BY DEF Bits, ModifierBit
<1>2. s \in {0, 4} /\ a \in {0, 8} /\ c \in {0, 16}
  OBVIOUS
<1>3. ("shift" \in modifiers <=> s = 4) /\ ("alt" \in modifiers <=> a = 8) /\ ("ctrl" \in modifiers <=> c = 16)
  OBVIOUS
<1> HIDE DEF s, a, c
<1>4. /\ code \in 0..223
      /\ (code % 4) + 64 * ((code \div 64) % 2) = base
      /\ (code \div 32) % 2 = 1 <=> moved = 32
      /\ (code \div 4) % 2 = 1 <=> s = 4
      /\ (code \div 8) % 2 = 1 <=> a = 8
      /\ (code \div 16) % 2 = 1 <=> c = 16
  BY <1>2, CodeParts
<1> HIDE DEF code
<1>5. \A m \in {"shift", "alt", "ctrl"} : Bit(code, ModifierBit[m]) = 1 <=> m \in modifiers
  BY <1>3, <1>4 DEF Bit, ModifierBit
<1>6. DOMAIN ModifierBit = {"shift", "alt", "ctrl"}
  BY DEF ModifierBit
<1>7. {m \in DOMAIN ModifierBit : Bit(code, ModifierBit[m]) = 1} = modifiers
  <2> DEFINE P(m) == Bit(code, ModifierBit[m]) = 1
  <2>1. \A m \in {"shift", "alt", "ctrl"} : P(m) <=> m \in modifiers
    BY <1>5
  <2> HIDE DEF P
  <2>2. {m \in {"shift", "alt", "ctrl"} : P(m)} = modifiers
    BY <2>1
  <2> QED
    BY <1>6, <2>2 DEF P
<1>8. base + moved + Bits(modifiers) = code
  BY <1>1 DEF code
<1>9. (code % 4) + 64 * Bit(code, 64) = base /\ (Bit(code, 32) = 1 <=> moved = 32)
  BY <1>4, Zenon DEF Bit
<1> QED
  BY <1>4, <1>7, <1>8, <1>9, Zenon

LEMMA MouseEventTyped ==
    ASSUME NEW event \in MouseEvents
    PROVE  /\ event.kind \in {"Press", "Release", "Motion"}
           /\ event.button \in DOMAIN ButtonCode
           /\ event.kind # "Motion" => event.button # "none"
           /\ event.position.row \in Nat /\ event.position.col \in Nat
           /\ event.position = [row |-> event.position.row, col |-> event.position.col]
           /\ event.modifiers \in SUBSET {"shift", "alt", "ctrl"}
           /\ event = [kind |-> event.kind, button |-> event.button,
                       position |-> event.position, modifiers |-> event.modifiers]
<1>1. "none" \in DOMAIN ButtonCode
  BY DEF ButtonCode
<1>2. Buttons \subseteq DOMAIN ButtonCode \ {"none"} /\ Coordinates \subseteq Nat
  BY ConversionsAssumption
<1> QED
  BY <1>1, <1>2 DEF MouseEvents

(* The button and the move that an encoded event stands for.                  *)
BaseCode(event, sgr) == IF event.kind = "Release" /\ ~sgr THEN 3 ELSE ButtonCode[event.button]
MoveCode(event) == IF event.kind = "Motion" THEN 32 ELSE 0

LEMMA CodeSplits ==
    ASSUME NEW event \in MouseEvents, NEW sgr \in BOOLEAN
    PROVE  /\ BaseCode(event, sgr) \in {0, 1, 2, 3, 64, 65} /\ MoveCode(event) \in {0, 32}
           /\ button_code(event, sgr) = BaseCode(event, sgr) + MoveCode(event)
<1>1. /\ event.kind \in {"Press", "Release", "Motion"}
      /\ ButtonCode[event.button] \in {0, 1, 2, 3, 64, 65}
  BY MouseEventTyped, ButtonCodes
<1> QED
  BY <1>1 DEF BaseCode, MoveCode, button_code

(* A legacy coordinate is a byte, and it stops at the last cell it can name.  *)
LEMMA LegacyCoordinate ==
    ASSUME NEW n \in Nat
    PROVE  LET byte == (32 + AtMost(LEGACY_COORD_MAX, n + 1)) % 256
           IN byte \in 33..255 /\ byte - 33 = AtMost(222, n)
BY DEF AtMost, LEGACY_COORD_MAX

(* What the code of an event says of its kind, button and modifiers.          *)
LEMMA EventCode ==
    ASSUME NEW event \in MouseEvents, NEW sgr \in BOOLEAN
    PROVE  LET code == button_code(event, sgr) + Bits(event.modifiers)
               button == ButtonNamed((code % 4) + 64 * Bit(code, 64))
           IN /\ code \in 0..223
              /\ button = IF event.kind = "Release" /\ ~sgr THEN "none" ELSE event.button
              /\ Bit(code, 32) = 1 <=> event.kind = "Motion"
              /\ {m \in DOMAIN ModifierBit : Bit(code, ModifierBit[m]) = 1} = event.modifiers
<1> DEFINE base == BaseCode(event, sgr)
           moved == MoveCode(event)
           code == base + moved + Bits(event.modifiers)
<1>1. base \in {0, 1, 2, 3, 64, 65} /\ moved \in {0, 32} /\ button_code(event, sgr) = base + moved
  BY CodeSplits
<1>2. event.modifiers \in SUBSET {"shift", "alt", "ctrl"} /\ event.button \in DOMAIN ButtonCode
  BY MouseEventTyped
<1>3. moved = 32 <=> event.kind = "Motion"
  BY DEF MoveCode
<1>4. ButtonNamed(base) = IF event.kind = "Release" /\ ~sgr THEN "none" ELSE event.button
  <2>1. ButtonNamed(ButtonCode[event.button]) = event.button
    BY <1>2, ButtonCodes
  <2>2. ButtonNamed(3) = "none"
    <3>1. "none" \in DOMAIN ButtonCode /\ ButtonCode["none"] = 3
      BY DEF ButtonCode
    <3> QED
      BY <3>1, ButtonCodes
  <2> QED
    BY <2>1, <2>2 DEF BaseCode
<1> HIDE DEF base, moved
<1>5. /\ code \in 0..223
      /\ (code % 4) + 64 * Bit(code, 64) = base
      /\ Bit(code, 32) = 1 <=> moved = 32
      /\ {m \in DOMAIN ModifierBit : Bit(code, ModifierBit[m]) = 1} = event.modifiers
  BY <1>1, <1>2, ModifiersRead
<1>6. button_code(event, sgr) + Bits(event.modifiers) = code
  BY <1>1
<1> HIDE DEF code
<1> QED
  BY <1>3, <1>4, <1>5, <1>6


(* In the SGR form the child sees the very event.                             *)
LEMMA SgrReportReads ==
    ASSUME NEW event \in MouseEvents, NEW modes, "mouse_sgr" \in modes.on,
           write_mouse(event, modes) # <<>>
    PROVE  Seen(write_mouse(event, modes)[1], TRUE) = event
<1> DEFINE code == button_code(event, TRUE) + Bits(event.modifiers)
           x == event.position.col + 1
           y == event.position.row + 1
           final == IF event.kind = "Release" THEN "m" ELSE "M"
           report == write_mouse(event, modes)[1]
           numbers == report.numbers
           button == ButtonNamed((code % 4) + 64 * Bit(code, 64))
           modifiers == {m \in DOMAIN ModifierBit : Bit(code, ModifierBit[m]) = 1}
<1>1. /\ code \in 0..223
      /\ button = event.button
      /\ Bit(code, 32) = 1 <=> event.kind = "Motion"
      /\ modifiers = event.modifiers
  BY EventCode
<1>2. /\ event.kind \in {"Press", "Release", "Motion"}
      /\ event.position.row \in Nat /\ event.position.col \in Nat
      /\ event.position = [row |-> event.position.row, col |-> event.position.col]
      /\ event = [kind |-> event.kind, button |-> event.button,
                  position |-> event.position, modifiers |-> event.modifiers]
  BY MouseEventTyped
<1>3. numbers = <<code, x, y>> /\ report.final = final
  BY DEF write_mouse, Control
<1>4. final = "m" <=> event.kind = "Release"
  OBVIOUS
<1> HIDE DEF code, report, numbers, x, y, final
<1>5. numbers[1] = code /\ numbers[2] = x /\ numbers[3] = y
  BY <1>3
<1>6. /\ numbers[1] - (IF TRUE THEN 0 ELSE 32) = code
      /\ numbers[2] - 1 = event.position.col
      /\ numbers[3] - 1 = event.position.row
  <2> DEFINE col == event.position.col
             row == event.position.row
  <2>1. col \in Nat /\ row \in Nat /\ x = col + 1 /\ y = row + 1
    BY <1>2 DEF x, y
  <2> HIDE DEF col, row
  <2>2. code - (IF TRUE THEN 0 ELSE 32) = code /\ x - 1 = col /\ y - 1 = row
    BY <1>1, <2>1
  <2> QED
    BY <1>5, <2>2 DEF col, row
<1> DEFINE released == report.final = "m"
<1>7. Seen(report, TRUE) =
         [kind |-> IF Bit(code, 32) = 1 THEN "Motion" ELSE IF released THEN "Release" ELSE "Press",
          button |-> button,
          position |-> [col |-> numbers[2] - 1, row |-> numbers[3] - 1],
          modifiers |-> modifiers]
  <2> HIDE DEF button, released, modifiers
  <2>1. TRUE \in BOOLEAN /\ 1 = (IF TRUE THEN 1 ELSE 33)
    OBVIOUS
  <2>2. code = report.numbers[1] - (IF TRUE THEN 0 ELSE 32)
    BY <1>6 DEF numbers
  <2>3. button = ButtonNamed((code % 4) + 64 * Bit(code, 64))
    BY DEF button
  <2>4. released = (IF TRUE THEN report.final = "m" ELSE button = "none")
    BY Zenon DEF released
  <2>5. modifiers = {m \in DOMAIN ModifierBit : Bit(code, ModifierBit[m]) = 1}
    BY DEF modifiers
  <2> QED
    BY <2>1, <2>2, <2>3, <2>4, <2>5, Zenon DEF numbers, Seen
<1> HIDE DEF button, modifiers
<1>8. (IF Bit(code, 32) = 1 THEN "Motion" ELSE IF released THEN "Release" ELSE "Press") = event.kind
  BY <1>1, <1>2, <1>3, <1>4
<1>9. [col |-> numbers[2] - 1, row |-> numbers[3] - 1] = event.position
  BY <1>2, <1>6
<1> HIDE DEF released
<1>10. Seen(report, TRUE) = event
  BY <1>1, <1>2, <1>7, <1>8, <1>9
<1> QED
  BY <1>10 DEF report

(* In the legacy form it sees what that form has room for.                    *)
LEMMA LegacyReportReads ==
    ASSUME NEW event \in MouseEvents, NEW modes, "mouse_sgr" \notin modes.on,
           write_mouse(event, modes) # <<>>
    PROVE  LET report == write_mouse(event, modes)[1]
           IN /\ Seen(report, FALSE) = Expressible(event, FALSE)
              /\ \A i \in 1..3 : report.numbers[i] \in 32..255
<1> DEFINE code == button_code(event, FALSE) + Bits(event.modifiers)
           col == event.position.col
           row == event.position.row
           byte(n) == (32 + AtMost(LEGACY_COORD_MAX, n + 1)) % 256
           x == byte(col)
           y == byte(row)
           report == write_mouse(event, modes)[1]
           numbers == report.numbers
           button == ButtonNamed((code % 4) + 64 * Bit(code, 64))
           released == button = "none"
           modifiers == {m \in DOMAIN ModifierBit : Bit(code, ModifierBit[m]) = 1}
<1>1. /\ code \in 0..223
      /\ button = IF event.kind = "Release" THEN "none" ELSE event.button
      /\ Bit(code, 32) = 1 <=> event.kind = "Motion"
      /\ modifiers = event.modifiers
  BY EventCode
<1>2. /\ event.kind \in {"Press", "Release", "Motion"}
      /\ event.kind # "Motion" => event.button # "none"
      /\ col \in Nat /\ row \in Nat
      /\ event = [kind |-> event.kind, button |-> event.button,
                  position |-> event.position, modifiers |-> event.modifiers]
  BY MouseEventTyped
<1>3. numbers = <<(32 + code) % 256, x, y>>
  <2>1. write_mouse(event, modes) = <<Control("CSI M", <<(32 + code) % 256, x, y>>, "")>>
    <3>1. should_report(event, modes.mouse)
      BY Zenon DEF write_mouse
    <3>2. ("mouse_sgr" \in modes.on) = FALSE
      OBVIOUS
    <3> DEFINE total(sgr) == button_code(event, sgr) + Bits(event.modifiers)
               form(sgr) ==
                   IF sgr
                   THEN <<Control("CSI <", <<total(sgr), col + 1, row + 1>>,
                                  IF event.kind = "Release" THEN "m" ELSE "M")>>
                   ELSE <<Control("CSI M", <<(32 + total(sgr)) % 256, x, y>>, "")>>
    <3>3. write_mouse(event, modes) = form("mouse_sgr" \in modes.on)
      BY <3>1, Zenon DEF write_mouse
    <3>4. form(FALSE) = <<Control("CSI M", <<(32 + code) % 256, x, y>>, "")>>
      BY Zenon
    <3> HIDE DEF form
    <3> QED
      BY <3>2, <3>3, <3>4, Zenon
  <2>2. \A c : <<Control("CSI M", c, "")>>[1].numbers = c
    BY DEF Control
  <2> HIDE DEF code, x, y
  <2> QED
    BY <2>1, <2>2, Zenon
<1>4. x \in 33..255 /\ x - 33 = AtMost(222, col) /\ y \in 33..255 /\ y - 33 = AtMost(222, row)
  <2>1. \A n \in Nat : byte(n) \in 33..255 /\ byte(n) - 33 = AtMost(222, n)
    BY LegacyCoordinate
  <2> HIDE DEF byte, col, row
  <2> QED
    BY <1>2, <2>1
<1> HIDE DEF code, report, numbers, x, y, col, row
<1>5. (32 + code) % 256 = 32 + code
  BY <1>1
<1>6. numbers[1] = 32 + code /\ numbers[2] = x /\ numbers[3] = y
  BY <1>3, <1>5
<1>7. numbers[1] - (IF FALSE THEN 0 ELSE 32) = code
  <2>1. (IF FALSE THEN 0 ELSE 32) = 32
    OBVIOUS
  <2>2. numbers[1] - 32 = code
    BY <1>1, <1>6
  <2> QED
    BY <2>1, <2>2, Zenon
<1>8. Seen(report, FALSE) =
         [kind |-> IF Bit(code, 32) = 1 THEN "Motion" ELSE IF released THEN "Release" ELSE "Press",
          button |-> button,
          position |-> [col |-> numbers[2] - 33, row |-> numbers[3] - 33],
          modifiers |-> modifiers]
  <2> HIDE DEF button, modifiers
  <2>1. 33 = (IF FALSE THEN 1 ELSE 33)
    OBVIOUS
  <2>2. code = report.numbers[1] - (IF FALSE THEN 0 ELSE 32)
    BY <1>7 DEF numbers
  <2>3. button = ButtonNamed((code % 4) + 64 * Bit(code, 64))
    BY DEF button
  <2>4. released = (IF FALSE THEN report.final = "m" ELSE button = "none")
    BY Zenon
  <2>5. modifiers = {m \in DOMAIN ModifierBit : Bit(code, ModifierBit[m]) = 1}
    BY DEF modifiers
  <2> HIDE DEF released
  <2> QED
    BY <2>1, <2>2, <2>3, <2>4, <2>5, Zenon DEF numbers, Seen
<1> HIDE DEF button, modifiers
<1>9. (IF Bit(code, 32) = 1 THEN "Motion" ELSE IF released THEN "Release" ELSE "Press") = event.kind
  BY <1>1, <1>2
<1> HIDE DEF released
<1>10. [col |-> numbers[2] - 33, row |-> numbers[3] - 33]
          = [row |-> AtMost(222, row), col |-> AtMost(222, col)]
  BY <1>4, <1>6
<1>11. Expressible(event, FALSE) =
          [kind |-> event.kind, button |-> button,
           position |-> [row |-> AtMost(222, row), col |-> AtMost(222, col)],
           modifiers |-> modifiers]
  <2> DEFINE place == [row |-> AtMost(222, row), col |-> AtMost(222, col)]
             kept == IF event.kind = "Release" THEN "none" ELSE event.button
  <2>1. Expressible(event, FALSE) = [event EXCEPT !.button = kept, !.position = place]
    BY Zenon DEF Expressible, row, col
  <2>2. kept = button
    BY <1>1, Zenon
  <2> HIDE DEF place, kept
  <2>3. [event EXCEPT !.button = kept, !.position = place]
            = [kind |-> event.kind, button |-> kept, position |-> place, modifiers |-> event.modifiers]
    <3> DEFINE kind == event.kind
               held == event.button
               at == event.position
               pressed == event.modifiers
               parts == {"kind", "button", "position", "modifiers"}
               e == [event EXCEPT !.button = kept, !.position = place]
               r == [kind |-> kind, button |-> kept, position |-> place, modifiers |-> pressed]
    <3>1. event = [kind |-> kind, button |-> held, position |-> at, modifiers |-> pressed]
      BY <1>2, Zenon
    <3> HIDE DEF kind, held, at, pressed
    <3>2. e = [f \in parts |-> e[f]]
      BY <3>1
    <3>3. r = [f \in parts |-> r[f]]
      OBVIOUS
    <3>4. e.kind = kind /\ e.button = kept /\ e.position = place /\ e.modifiers = pressed
      BY <3>1
    <3>5. r.kind = kind /\ r.button = kept /\ r.position = place /\ r.modifiers = pressed
      OBVIOUS
    <3> HIDE DEF e, r
    <3>6. \A f \in parts : e[f] = r[f]
      BY <3>4, <3>5
    <3> HIDE DEF parts
    <3>7. [f \in parts |-> e[f]] = [f \in parts |-> r[f]]
      BY <3>6
    <3>8. e = r
      BY <3>2, <3>3, <3>7, Zenon
    <3> QED
      BY <3>8, Zenon DEF e, r, kind, pressed
  <2>4. modifiers = event.modifiers
    BY <1>1
  <2> QED
    BY <2>1, <2>2, <2>3, <2>4, Zenon DEF place
<1>12. Seen(report, FALSE) = Expressible(event, FALSE)
  <2> DEFINE kind == IF Bit(code, 32) = 1 THEN "Motion" ELSE IF released THEN "Release" ELSE "Press"
             seen == [col |-> numbers[2] - 33, row |-> numbers[3] - 33]
             place == [row |-> AtMost(222, row), col |-> AtMost(222, col)]
  <2>1. kind = event.kind /\ seen = place
    BY <1>9, <1>10, Zenon
  <2>2. Seen(report, FALSE) = [kind |-> kind, button |-> button, position |-> seen,
                               modifiers |-> modifiers]
    BY <1>8, Zenon
  <2>3. Expressible(event, FALSE) = [kind |-> event.kind, button |-> button, position |-> place,
                                     modifiers |-> modifiers]
    BY <1>11, Zenon
  <2> HIDE DEF kind, seen, place
  <2> QED
    BY <2>1, <2>2, <2>3
<1>13. \A i \in 1..3 : numbers[i] \in 32..255
  <2>1. numbers[1] \in 32..255
    BY <1>1, <1>6
  <2>2. numbers[2] \in 32..255 /\ numbers[3] \in 32..255
    BY <1>4, <1>6
  <2>3. \A i \in 1..3 : i = 1 \/ i = 2 \/ i = 3
    OBVIOUS
  <2> QED
    BY <2>1, <2>2, <2>3, Zenon
<1> QED
  BY <1>12, <1>13 DEF report, numbers

LEMMA ReportReads ==
    ASSUME NEW event \in MouseEvents, NEW modes, write_mouse(event, modes) # <<>>
    PROVE  LET sgr == "mouse_sgr" \in modes.on
               report == write_mouse(event, modes)
           IN /\ Seen(report[1], sgr) = Expressible(event, sgr)
              /\ sgr \/ \A i \in 1..3 : report[1].numbers[i] \in 32..255
<1>1. CASE "mouse_sgr" \in modes.on
  <2>1. ("mouse_sgr" \in modes.on) = TRUE
    BY <1>1
  <2>2. Seen(write_mouse(event, modes)[1], TRUE) = Expressible(event, TRUE)
    BY <1>1, SgrReportReads DEF Expressible
  <2> QED
    BY <2>1, <2>2, Zenon
<1>2. CASE "mouse_sgr" \notin modes.on
  <2>1. ("mouse_sgr" \in modes.on) = FALSE
    BY <1>2
  <2>2. /\ Seen(write_mouse(event, modes)[1], FALSE) = Expressible(event, FALSE)
        /\ \A i \in 1..3 : write_mouse(event, modes)[1].numbers[i] \in 32..255
    BY <1>2, LegacyReportReads
  <2> QED
    BY <2>1, <2>2, Zenon
<1> QED
  BY <1>1, <1>2

(* A tracking mode reports what the one before it does. *)
LEMMA ModesGrow ==
    ASSUME NEW event \in MouseEvents, NEW i \in 2..5,
           should_report(event, MouseModes[i - 1])
    PROVE  should_report(event, MouseModes[i])
<1>1. event.kind \in {"Press", "Release", "Motion"}
  BY MouseEventTyped
<1>2. i \in {2, 3, 4, 5}
  OBVIOUS
<1>3. CASE i = 2
  BY <1>3 DEF should_report, MouseModes
<1>4. CASE i = 3
  BY <1>4 DEF should_report, MouseModes
<1>5. CASE i = 4
  BY <1>5 DEF should_report, MouseModes
<1>6. CASE i = 5
  BY <1>6 DEF should_report, MouseModes
<1> QED
  BY <1>2, <1>3, <1>4, <1>5, <1>6

LEMMA ReportedOrNot ==
    ASSUME NEW event, NEW modes
    PROVE  write_mouse(event, modes) # <<>> <=> should_report(event, modes.mouse)
BY DEF write_mouse

LEMMA MouseSampled == TakeMouse => MouseReadable'
<1> SUFFICES ASSUME NEW event \in MouseEvents, NEW i \in DOMAIN MouseModes,
                    NEW on \in SUBSET {"mouse_sgr"},
                    sample' = [of |-> "mouse", event |-> event, tracking |-> i,
                               modes |-> Modes(on, MouseModes[i])]
             PROVE  MouseReadable'
  BY Zenon DEF TakeMouse
<1> DEFINE modes == Modes(on, MouseModes[i])
           less == Modes(on, MouseModes[i - 1])
<1>1. /\ sample'.event = event /\ sample'.tracking = i /\ sample'.modes = modes
      /\ modes.on = on
  BY DEF Modes
<1>2. i \in 1..5 /\ (i > 1 => i \in 2..5)
  BY DEF MouseModes
<1>3. i > 1 /\ write_mouse(event, less) # <<>> => write_mouse(event, modes) # <<>>
  <2>1. modes.mouse = MouseModes[i] /\ less.mouse = MouseModes[i - 1]
    BY DEF Modes
  <2> HIDE DEF modes, less
  <2> QED
    BY <1>2, <2>1, ModesGrow, ReportedOrNot
<1>4. write_mouse(event, modes) # <<>> =>
         /\ Seen(write_mouse(event, modes)[1], "mouse_sgr" \in on)
                = Expressible(event, "mouse_sgr" \in on)
         /\ "mouse_sgr" \in on \/ \A k \in 1..3 : write_mouse(event, modes)[1].numbers[k] \in 32..255
  <2> HIDE DEF modes
  <2> QED
    BY <1>1, ReportReads, Zenon
<1>5. less = Modes(sample'.modes.on, MouseModes[sample'.tracking - 1])
  BY <1>1
<1> HIDE DEF modes, less
<1> QED
  BY <1>1, <1>3, <1>4, <1>5, Zenon DEF MouseReadable

-----------------------------------------------------------------------------
(* The child reads a key back, but for the keypad outside its mode.           *)

(* The key the child takes a sequence, or a byte, to be.                      *)
ReadEscape(form) ==
    LET named(table, value) == [name |-> CHOOSE x \in DOMAIN table : table[x] = value, n |-> 0]
        counted(table, value) == CHOOSE i \in DOMAIN table : table[i] = value
    IN IF form.final = "~"
       THEN IF form.numbers[1] <= 6 THEN named(EditNumber, form.numbers[1])
            ELSE [name |-> "Function", n |-> 4 + counted(FunctionNumber, form.numbers[1])]
       ELSE IF form.final \in {"A", "B", "C", "D", "H", "F"} THEN named(CursorFinal, form.final)
       ELSE IF form.final \in {"P", "Q", "R", "S"}
       THEN [name |-> "Function", n |-> counted(FunctionFinal, form.final)]
       ELSE IF form.final \in {"p", "q", "r", "s", "t", "u", "v", "w", "x", "y"}
       THEN [name |-> "KeypadDigit", n |-> counted(DigitFinal, form.final) - 1]
       ELSE [name |-> CHOOSE x \in DOMAIN KeypadForm : KeypadForm[x][2] = form.final, n |-> 0]

ReadByte(b) ==
    IF b \in {13, 9, 127, 27} THEN [name |-> CHOOSE x \in DOMAIN PlainByte : PlainByte[x] = b, n |-> 0]
    ELSE [name |-> "Char", n |-> b]

LEMMA KeyTyped ==
    ASSUME NEW key \in Key
    PROVE  /\ key = [name |-> key.name, n |-> key.n]
           /\ \/ key.name \in DOMAIN PlainByte /\ key.n = 0
              \/ key.name \in DOMAIN CursorFinal /\ key.n = 0
              \/ key.name \in DOMAIN EditNumber /\ key.n = 0
              \/ key.name \in DOMAIN KeypadForm /\ key.n = 0
              \/ key.name = "Function" /\ key.n \in 0..255
              \/ key.name = "KeypadDigit" /\ key.n \in 0..255
              \/ key.name = "Char" /\ key.n \in Nat /\ key.n >= 32 /\ key.n # 127
<1> DEFINE P == DOMAIN PlainByte
           C == DOMAIN CursorFinal
           E == DOMAIN EditNumber
           K == DOMAIN KeypadForm
<1>1. \/ key \in [name : P \cup C \cup E \cup K, n : {0}]
      \/ key \in [name : {"Function", "KeypadDigit"}, n : 0..255]
      \/ key \in [name : {"Char"}, n : {ch \in Nat : ch >= 32 /\ ch # 127}]
  BY Zenon DEF Key
<1> HIDE DEF P, C, E, K
<1>2. /\ key = [name |-> key.name, n |-> key.n]
      /\ \/ key.name \in P /\ key.n = 0
         \/ key.name \in C /\ key.n = 0
         \/ key.name \in E /\ key.n = 0
         \/ key.name \in K /\ key.n = 0
         \/ key.name = "Function" /\ key.n \in 0..255
         \/ key.name = "KeypadDigit" /\ key.n \in 0..255
         \/ key.name = "Char" /\ key.n \in Nat /\ key.n >= 32 /\ key.n # 127
  BY <1>1
<1> QED
  BY <1>2 DEF P, C, E, K

LEMMA KeyKinds ==
    /\ DOMAIN PlainByte = {"Enter", "Tab", "Backspace", "Escape"}
    /\ DOMAIN CursorFinal = {"Up", "Down", "Right", "Left", "Home", "End"}
    /\ DOMAIN EditNumber = {"Insert", "Delete", "PageUp", "PageDown"}
    /\ DOMAIN KeypadForm = {"KeypadDecimal", "KeypadEnter", "KeypadAdd", "KeypadSubtract",
                            "KeypadMultiply", "KeypadDivide"}
BY DEF PlainByte, CursorFinal, EditNumber, KeypadForm

LEMMA BodyOf ==
    ASSUME NEW key, NEW modes
    PROVE  LET body == write_key_body(key, {}, modes)
               keypad == "application_keypad" \in modes.on
           IN /\ key.name = "Char" => body = write_char(key.n, {})
              /\ key.name \in DOMAIN PlainByte => body = {Byte(PlainByte[key.name])}
              /\ key.name \in DOMAIN CursorFinal =>
                    body = {write_cursor("application_cursor" \in modes.on, CursorFinal[key.name])}
              /\ key.name \in DOMAIN EditNumber =>
                    body = {Control("CSI", <<EditNumber[key.name]>>, "~")}
              /\ key.name = "Function" => body = write_function(key.n)
              /\ key.name = "KeypadDigit" =>
                    body = IF key.n > 9 THEN {}
                           ELSE {write_keypad(keypad, 48 + key.n, DigitFinal[key.n + 1])}
              /\ key.name \in DOMAIN KeypadForm =>
                    body = {write_keypad(keypad, KeypadForm[key.name][1], KeypadForm[key.name][2])}
BY KeyKinds DEF write_key_body

LEMMA PlainRead ==
    ASSUME NEW key, key.name \in DOMAIN PlainByte, key.n = 0, key = [name |-> key.name, n |-> key.n],
           NEW modes
    PROVE  \E b \in {13, 9, 127, 27} :
               write_key_body(key, {}, modes) = {Byte(b)} /\ ReadByte(b) = key
<1>1. key.name \in {"Enter", "Tab", "Backspace", "Escape"}
  BY DEF PlainByte
<1>2. write_key_body(key, {}, modes) = {Byte(PlainByte[key.name])}
  BY BodyOf
<1>3. PlainByte[key.name] \in {13, 9, 127, 27}
  BY <1>1 DEF PlainByte, Esc
<1>4. ReadByte(PlainByte[key.name]) = key
  <2>1. (CHOOSE x \in DOMAIN PlainByte : PlainByte[x] = PlainByte[key.name]) = key.name
    BY <1>1 DEF PlainByte, Esc
  <2> QED
    BY <1>3, <2>1 DEF ReadByte
<1> QED
  BY <1>2, <1>3, <1>4

LEMMA CharRead ==
    ASSUME NEW key, key.name = "Char", key.n \in Nat, key.n >= 32, key.n # 127,
           key = [name |-> key.name, n |-> key.n], NEW modes
    PROVE  write_key_body(key, {}, modes) = {Byte(key.n)} /\ ReadByte(key.n) = key
<1>1. write_key_body(key, {}, modes) = {Byte(key.n)}
  <2>1. write_key_body(key, {}, modes) = write_char(key.n, {})
    BY BodyOf
  <2> QED
    BY <2>1 DEF write_char
<1>2. key.n \notin {13, 9, 127, 27}
  OBVIOUS
<1> QED
  BY <1>1, <1>2 DEF ReadByte

LEMMA CursorRead ==
    ASSUME NEW key, key.name \in DOMAIN CursorFinal, key.n = 0, key = [name |-> key.name, n |-> key.n],
           NEW modes
    PROVE  \E form : /\ write_key_body(key, {}, modes) = {form}
                     /\ form.intro # "" /\ ReadEscape(form) = key
<1> DEFINE form == write_cursor("application_cursor" \in modes.on, CursorFinal[key.name])
<1>1. key.name \in {"Up", "Down", "Right", "Left", "Home", "End"}
  BY DEF CursorFinal
<1>2. write_key_body(key, {}, modes) = {form}
  BY BodyOf
<1>3. form.intro # "" /\ form.final = CursorFinal[key.name]
  BY DEF write_cursor, Control
<1>4. CursorFinal[key.name] \in {"A", "B", "C", "D", "H", "F"}
  BY <1>1 DEF CursorFinal
<1>5. (CHOOSE x \in DOMAIN CursorFinal : CursorFinal[x] = CursorFinal[key.name]) = key.name
  BY <1>1 DEF CursorFinal
<1> HIDE DEF form
<1>6. ReadEscape(form) = key
  BY <1>3, <1>4, <1>5 DEF ReadEscape
<1> QED
  BY <1>2, <1>3, <1>6

LEMMA EditRead ==
    ASSUME NEW key, key.name \in DOMAIN EditNumber, key.n = 0, key = [name |-> key.name, n |-> key.n],
           NEW modes
    PROVE  \E form : /\ write_key_body(key, {}, modes) = {form}
                     /\ form.intro # "" /\ ReadEscape(form) = key
<1> DEFINE form == Control("CSI", <<EditNumber[key.name]>>, "~")
<1>1. key.name \in {"Insert", "Delete", "PageUp", "PageDown"}
  BY KeyKinds
<1>2. write_key_body(key, {}, modes) = {form}
  BY BodyOf
<1>3. form.intro # "" /\ form.final = "~" /\ form.numbers[1] = EditNumber[key.name]
  BY DEF Control
<1>4. EditNumber[key.name] <= 6
  BY <1>1 DEF EditNumber
<1> HIDE DEF form
<1>5. (CHOOSE x \in DOMAIN EditNumber : EditNumber[x] = form.numbers[1]) = key.name
  <2>1. \A x, y \in DOMAIN EditNumber : EditNumber[x] = EditNumber[y] => x = y
    BY KeyKinds DEF EditNumber
  <2> QED
    <3> DEFINE chosen == CHOOSE x \in DOMAIN EditNumber : EditNumber[x] = form.numbers[1]
    <3>1. key.name \in DOMAIN EditNumber /\ EditNumber[key.name] = form.numbers[1]
      BY <1>3, Zenon
    <3>2. chosen \in DOMAIN EditNumber /\ EditNumber[chosen] = form.numbers[1]
      BY <3>1, Zenon
    <3> HIDE DEF chosen
    <3>3. chosen = key.name
      BY <2>1, <3>1, <3>2, Zenon
    <3> QED
      BY <3>3 DEF chosen
<1>6. ReadEscape(form) = key
  <2>1. form.final = "~" /\ form.numbers[1] <= 6
    BY <1>3, <1>4
  <2>2. ReadEscape(form) = [name |-> key.name, n |-> 0]
    BY <1>5, <2>1, Zenon DEF ReadEscape
  <2> QED
    BY <2>2
<1> QED
  BY <1>2, <1>3, <1>6

LEMMA FunctionRead ==
    ASSUME NEW key, key.name = "Function", key.n \in 0..255, key = [name |-> key.name, n |-> key.n],
           NEW modes
    PROVE  \/ write_key_body(key, {}, modes) = {}
           \/ \E form : /\ write_key_body(key, {}, modes) = {form}
                        /\ form.intro # "" /\ ReadEscape(form) = key
<1>1. write_key_body(key, {}, modes) = write_function(key.n)
  BY BodyOf
<1>2. CASE key.n \in 1..4
  <2> DEFINE form == Control("SS3", <<>>, FunctionFinal[key.n])
  <2>1. write_function(key.n) = {form}
    BY <1>2 DEF write_function
  <2>2. form.intro # "" /\ form.final = FunctionFinal[key.n]
    BY DEF Control
  <2>3. FunctionFinal[key.n] \in {"P", "Q", "R", "S"}
    BY <1>2 DEF FunctionFinal
  <2>4. (CHOOSE i \in DOMAIN FunctionFinal : FunctionFinal[i] = FunctionFinal[key.n]) = key.n
    <3>1. \A i, j \in 1..4 : FunctionFinal[i] = FunctionFinal[j] => i = j
      <4>1. \A i \in 1..4 : i = 1 \/ i = 2 \/ i = 3 \/ i = 4
        OBVIOUS
      <4> QED
        BY <4>1 DEF FunctionFinal
    <3>2. DOMAIN FunctionFinal = 1..4
      BY DEF FunctionFinal
    <3> QED
      BY <1>2, <3>1, <3>2
  <2> HIDE DEF form
  <2>5. ReadEscape(form) = key
    BY <2>2, <2>3, <2>4 DEF ReadEscape
  <2> QED
    BY <1>1, <2>1, <2>2, <2>5
<1>3. CASE key.n \in 5..12
  <2> DEFINE form == Control("CSI", <<FunctionNumber[key.n - 4]>>, "~")
  <2>1. write_function(key.n) = {form}
    BY <1>3 DEF write_function
  <2>2. form.intro # "" /\ form.final = "~" /\ form.numbers[1] = FunctionNumber[key.n - 4]
    BY DEF Control
  <2>3. key.n - 4 \in 1..8 /\ 4 + (key.n - 4) = key.n
    BY <1>3
  <2>4. \A i \in 1..8 : FunctionNumber[i] \in 15..24
    <3>1. \A i \in 1..8 : i = 1 \/ i = 2 \/ i = 3 \/ i = 4 \/ i = 5 \/ i = 6 \/ i = 7 \/ i = 8
      OBVIOUS
    <3> QED
      BY <3>1 DEF FunctionNumber
  <2> HIDE DEF form
  <2>5. (CHOOSE i \in DOMAIN FunctionNumber : FunctionNumber[i] = form.numbers[1]) = key.n - 4
    <3>1. \A i, j \in 1..8 : FunctionNumber[i] = FunctionNumber[j] => i = j
      <4>1. \A i \in 1..8 : i = 1 \/ i = 2 \/ i = 3 \/ i = 4 \/ i = 5 \/ i = 6 \/ i = 7 \/ i = 8
        OBVIOUS
      <4> QED
        BY <4>1 DEF FunctionNumber
    <3>2. DOMAIN FunctionNumber = 1..8
      BY DEF FunctionNumber
    <3> QED
      BY <2>2, <2>3, <3>1, <3>2
  <2>6. ReadEscape(form) = key
    <3> DEFINE number == FunctionNumber[key.n - 4]
    <3>1. number \in 15..24
      BY <2>3, <2>4
    <3> HIDE DEF number
    <3>2. ~ (number <= 6)
      BY <3>1
    <3>3. form.final = "~" /\ ~ (form.numbers[1] <= 6)
      BY <2>2, <3>2 DEF number
    <3>4. ReadEscape(form) = [name |-> "Function", n |-> 4 + (key.n - 4)]
      BY <2>5, <3>3, Zenon DEF ReadEscape
    <3> QED
      BY <2>3, <3>4
  <2> QED
    BY <1>1, <2>1, <2>2, <2>6
<1>4. CASE key.n \notin 1..4 /\ key.n \notin 5..12
  <2>1. write_function(key.n) = {}
    BY <1>4, Zenon DEF write_function
  <2> QED
    BY <1>1, <2>1
<1> QED
  BY <1>2, <1>3, <1>4, Zenon

(* On the keypad it matters whether the child asked for its own sequences.    *)
LEMMA DigitRead ==
    ASSUME NEW key, key.name = "KeypadDigit", key.n \in 0..255, key = [name |-> key.name, n |-> key.n],
           NEW modes
    PROVE  \/ write_key_body(key, {}, modes) = {}
           \/ \E form : /\ write_key_body(key, {}, modes) = {form}
                        /\ IF "application_keypad" \in modes.on
                           THEN form.intro # "" /\ ReadEscape(form) = key ELSE form.intro = ""
<1>1. CASE key.n > 9
  BY <1>1, BodyOf
<1>2. CASE ~ (key.n > 9)
  <2> DEFINE keypad == "application_keypad" \in modes.on
             form == write_keypad(keypad, 48 + key.n, DigitFinal[key.n + 1])
  <2>1. write_key_body(key, {}, modes) = {form}
    BY <1>2, BodyOf
  <2>2. ~keypad => form.intro = ""
    BY DEF write_keypad, Byte
  <2>3. keypad => form.intro # "" /\ form.final = DigitFinal[key.n + 1]
    BY DEF write_keypad, Control
  <2>4. key.n + 1 \in 1..10 /\ (key.n + 1) - 1 = key.n
    BY <1>2
  <2>5. \A i \in 1..10 : \/ i = 1 \/ i = 2 \/ i = 3 \/ i = 4 \/ i = 5
                         \/ i = 6 \/ i = 7 \/ i = 8 \/ i = 9 \/ i = 10
    OBVIOUS
  <2>6. \A i \in 1..10 : DigitFinal[i] \in {"p", "q", "r", "s", "t", "u", "v", "w", "x", "y"}
    BY <2>5 DEF DigitFinal
  <2>7. (CHOOSE i \in DOMAIN DigitFinal : DigitFinal[i] = DigitFinal[key.n + 1]) = key.n + 1
    <3>1. \A i, j \in 1..10 : DigitFinal[i] = DigitFinal[j] => i = j
      BY <2>5 DEF DigitFinal
    <3>2. DOMAIN DigitFinal = 1..10
      BY DEF DigitFinal
    <3> QED
      BY <2>4, <3>1, <3>2
  <2> HIDE DEF form, keypad
  <2>8. keypad => ReadEscape(form) = key
    <3> SUFFICES ASSUME keypad PROVE ReadEscape(form) = key
      OBVIOUS
    <3> DEFINE letter == form.final
               chosen == CHOOSE i \in DOMAIN DigitFinal : DigitFinal[i] = letter
    <3>1. letter \in {"p", "q", "r", "s", "t", "u", "v", "w", "x", "y"}
      BY <2>3, <2>4, <2>6, Zenon
    <3>2. chosen - 1 = key.n
      <4>1. chosen = key.n + 1
        BY <2>3, <2>7, Zenon
      <4> HIDE DEF chosen
      <4> QED
        BY <2>4, <4>1
    <3>3. /\ letter # "~" /\ ~ (letter \in {"A", "B", "C", "D", "H", "F"})
          /\ ~ (letter \in {"P", "Q", "R", "S"})
      BY <3>1
    <3>4. ReadEscape(form) = [name |-> "KeypadDigit", n |-> chosen - 1]
      BY <3>1, <3>3 DEF ReadEscape
    <3> QED
      BY <3>2, <3>4, Zenon
  <2> QED
    BY <2>1, <2>2, <2>3, <2>8 DEF keypad
<1> QED
  BY <1>1, <1>2, Zenon

LEMMA KeypadRead ==
    ASSUME NEW key, key.name \in DOMAIN KeypadForm, key.n = 0, key = [name |-> key.name, n |-> key.n],
           NEW modes
    PROVE  \E form : /\ write_key_body(key, {}, modes) = {form}
                     /\ IF "application_keypad" \in modes.on
                        THEN form.intro # "" /\ ReadEscape(form) = key ELSE form.intro = ""
<1> DEFINE keypad == "application_keypad" \in modes.on
           normal == KeypadForm[key.name][1]
           final == KeypadForm[key.name][2]
           form == write_keypad(keypad, normal, final)
<1>1. key.name \in {"KeypadDecimal", "KeypadEnter", "KeypadAdd", "KeypadSubtract",
                    "KeypadMultiply", "KeypadDivide"}
  BY KeyKinds
<1>2. write_key_body(key, {}, modes) = {form}
  BY BodyOf
<1>3. ~keypad => form.intro = ""
  BY DEF write_keypad, Byte
<1>4. keypad => form.intro # "" /\ form.final = final
  BY DEF write_keypad, Control
<1>5. final \in {"n", "M", "k", "m", "j", "o"}
  BY <1>1 DEF KeypadForm
<1>6. (CHOOSE x \in DOMAIN KeypadForm : KeypadForm[x][2] = final) = key.name
  <2>1. \A x, y \in DOMAIN KeypadForm : KeypadForm[x][2] = KeypadForm[y][2] => x = y
    BY KeyKinds DEF KeypadForm
  <2> QED
    BY <1>1, <2>1, KeyKinds
<1> HIDE DEF form, keypad, final
<1>7. keypad => ReadEscape(form) = key
  BY <1>4, <1>5, <1>6 DEF ReadEscape
<1> QED
  BY <1>2, <1>3, <1>4, <1>7 DEF keypad

(* Every key but those of the keypad outside its mode is read back.           *)
Recognised(key, modes) ==
    \/ write_key_body(key, {}, modes) = {}
    \/ \E form :
         /\ write_key_body(key, {}, modes) = {form}
         /\ \/ form.intro # "" /\ ReadEscape(form) = key
            \/ form.intro = "" /\ ReadByte(form.numbers[1]) = key
            \/ form.intro = "" /\ "application_keypad" \notin modes.on

LEMMA KeyRead ==
    ASSUME NEW key \in Key, NEW modes
    PROVE  Recognised(key, modes)
<1>1. \A b : Byte(b).intro = "" /\ Byte(b).numbers[1] = b
  BY DEF Byte
<1>2. key = [name |-> key.name, n |-> key.n]
  BY KeyTyped
<1>3. CASE key.name \in DOMAIN PlainByte /\ key.n = 0
  <2>1. PICK b : write_key_body(key, {}, modes) = {Byte(b)} /\ ReadByte(b) = key
    BY <1>2, <1>3, PlainRead
  <2> QED
    BY <1>1, <2>1 DEF Recognised
<1>4. CASE key.name \in DOMAIN CursorFinal /\ key.n = 0
  BY <1>2, <1>4, CursorRead DEF Recognised
<1>5. CASE key.name \in DOMAIN EditNumber /\ key.n = 0
  BY <1>2, <1>5, EditRead DEF Recognised
<1>6. CASE key.name \in DOMAIN KeypadForm /\ key.n = 0
  BY <1>2, <1>6, KeypadRead DEF Recognised
<1>7. CASE key.name = "Function" /\ key.n \in 0..255
  BY <1>2, <1>7, FunctionRead DEF Recognised
<1>8. CASE key.name = "KeypadDigit" /\ key.n \in 0..255
  <2>1. \/ write_key_body(key, {}, modes) = {}
        \/ \E form : /\ write_key_body(key, {}, modes) = {form}
                     /\ IF "application_keypad" \in modes.on
                        THEN form.intro # "" /\ ReadEscape(form) = key ELSE form.intro = ""
    BY <1>2, <1>8, DigitRead, Zenon
  <2> QED
    BY <2>1, Zenon DEF Recognised
<1>9. CASE key.name = "Char" /\ key.n \in Nat /\ key.n >= 32 /\ key.n # 127
  <2>1. write_key_body(key, {}, modes) = {Byte(key.n)} /\ ReadByte(key.n) = key
    BY <1>2, <1>9, CharRead
  <2> QED
    BY <1>1, <2>1, Zenon DEF Recognised
<1> QED
  BY <1>3, <1>4, <1>5, <1>6, <1>7, <1>8, <1>9, KeyTyped

LEMMA WrittenKey ==
    ASSUME NEW key, NEW modes
    PROVE  /\ write_key_body(key, {}, modes) = {} => write_key(key, {}, modes) = <<>>
           /\ \A form : write_key_body(key, {}, modes) = {form} => write_key(key, {}, modes) = <<form>>
<1>1. ASSUME write_key_body(key, {}, modes) = {}
      PROVE  write_key(key, {}, modes) = <<>>
  BY <1>1 DEF write_key
<1>2. ASSUME NEW form, write_key_body(key, {}, modes) = {form}
      PROVE  write_key(key, {}, modes) = <<form>>
  <2> DEFINE c == CHOOSE b \in write_key_body(key, {}, modes) : TRUE
  <2>1. c = form
    BY <1>2
  <2>2. write_key_body(key, {}, modes) # {}
    BY <1>2
  <2> HIDE DEF c
  <2>3. write_key(key, {}, modes) = <<>> \o <<c>>
    BY <2>2, Zenon DEF write_key, c
  <2>4. <<>> \o <<c>> = <<c>>
    OBVIOUS
  <2> QED
    BY <2>1, <2>3, <2>4
<1> QED
  BY <1>1, <1>2

LEMMA KeysSampled == TakeKeys => KeysReadable'
<1> SUFFICES ASSUME NEW one \in Keys, NEW other \in Keys, NEW on \in SUBSET Mode,
                    sample' = [of |-> "keys", one |-> one, other |-> other,
                               modes |-> Modes(on, "Off")]
             PROVE  KeysReadable'
  BY Zenon DEF TakeKeys
<1> DEFINE modes == Modes(on, "Off")
           bytes(key) == write_key(key, {}, modes)
<1>1. sample'.one = one /\ sample'.other = other /\ sample'.modes = modes
  OBVIOUS
<1> HIDE DEF modes
<1>2. one \in Key /\ other \in Key
  BY ConversionsAssumption
<1>3. ASSUME one # other, bytes(one) = bytes(other), bytes(one) # <<>>
      PROVE  "application_keypad" \notin modes.on /\ bytes(one)[1].intro = ""
  <2>1. Recognised(one, modes) /\ Recognised(other, modes)
    BY <1>2, KeyRead
  <2>2. write_key_body(one, {}, modes) # {} /\ write_key_body(other, {}, modes) # {}
    BY <1>3, WrittenKey
  <2>3. PICK form :
          /\ write_key_body(one, {}, modes) = {form}
          /\ \/ form.intro # "" /\ ReadEscape(form) = one
             \/ form.intro = "" /\ ReadByte(form.numbers[1]) = one
             \/ form.intro = "" /\ "application_keypad" \notin modes.on
    BY <2>1, <2>2 DEF Recognised
  <2>4. PICK that :
          /\ write_key_body(other, {}, modes) = {that}
          /\ \/ that.intro # "" /\ ReadEscape(that) = other
             \/ that.intro = "" /\ ReadByte(that.numbers[1]) = other
             \/ that.intro = "" /\ "application_keypad" \notin modes.on
    BY <2>1, <2>2 DEF Recognised
  <2>5. bytes(one) = <<form>> /\ bytes(other) = <<that>>
    BY <2>3, <2>4, WrittenKey
  <2>6. <<form>>[1] = form /\ <<that>>[1] = that
    OBVIOUS
  <2>7. form = that /\ bytes(one)[1] = form
    BY <1>3, <2>5, <2>6, Zenon
  <2>8. ~ (form.intro # "" /\ ReadEscape(form) = one)
    BY <1>3, <2>4, <2>7
  <2>9. ~ (ReadByte(form.numbers[1]) = one /\ ReadByte(form.numbers[1]) = other)
    BY <1>3
  <2> QED
    BY <2>3, <2>4, <2>7, <2>8, <2>9, Zenon
<1> HIDE DEF bytes
<1>4. one # other /\ bytes(one) = bytes(other) =>
         bytes(one) = <<>> \/ ("application_keypad" \notin modes.on /\ bytes(one)[1].intro = "")
  BY <1>3
<1> QED
  BY <1>1, <1>4, Zenon DEF KeysReadable, bytes


(* The runs of Value over some digits. *)
LEMMA ValueRuns ==
    ASSUME NEW digits \in Seq(Nat), NEW base \in Nat
    PROVE  \E f \in [0 .. Len(digits) -> Nat] :
               /\ f[0] = 0 /\ \A k \in 1 .. Len(digits) : f[k] = base * f[k - 1] + digits[k]
               /\ Value(digits, base) = f[Len(digits)]
<1> DEFINE count == Len(digits)
           next == [k \in 1 .. count |-> [s \in Nat |-> base * s + digits[k]]]
           Def(f) == f = [n \in 0 .. count |-> IF n = 0 THEN 0 ELSE base * f[n - 1] + digits[n]]
<1>1. count \in Nat /\ \A k \in 1 .. count : digits[k] \in Nat
  OBVIOUS
<1> HIDE DEF count
<1>2. \A k \in 1 .. count, s \in Nat : base * s + digits[k] \in Nat
  BY <1>1
<1>3. next \in [1 .. count -> [Nat -> Nat]]
  BY <1>2
<1>4. \E f : Def(f)
  <2> HIDE DEF next
  <2>1. PICK f : f \in Runs(Nat, 0, count, next)
    BY <1>1, <1>3, RecursionExists
  <2>2. f \in [0 .. count -> Nat] /\ f[0] = 0
    BY <2>1 DEF Runs
  <2>3. \A k \in 1 .. count : f[k] = base * f[k - 1] + digits[k]
    <3>1. \A k \in 1 .. count : f[k] = next[k][f[k - 1]]
      BY <2>1 DEF Runs
    <3>2. \A k \in 1 .. count : f[k - 1] \in Nat
      BY <1>1, <2>2
    <3> QED
      BY <3>1, <3>2 DEF next
  <2>4. \A n \in 0 .. count : f[n] = IF n = 0 THEN 0 ELSE base * f[n - 1] + digits[n]
    BY <1>1, <2>2, <2>3
  <2>5. Def(f)
    BY <2>2, <2>4
  <2> QED
    BY <2>5
<1> DEFINE e == CHOOSE f : Def(f)
<1>5. Def(e)
  BY <1>4
<1>6. Value(digits, base) = e[count]
  BY DEF Value, count
<1> HIDE DEF e
<1>7. \A k \in 0 .. count : e[k] \in Nat
  <2>1. e[0] \in Nat /\ \A k \in 1 .. count : e[k - 1] \in Nat => e[k] \in Nat
    <3>1. e[0] = 0 /\ \A k \in 1 .. count : e[k] = base * e[k - 1] + digits[k]
      BY <1>1, <1>5
    <3>2. ASSUME NEW k \in 1 .. count, e[k - 1] \in Nat PROVE e[k] \in Nat
      BY <1>2, <3>1, <3>2, Zenon
    <3>3. 0 \in Nat
      OBVIOUS
    <3> QED
      BY <3>1, <3>2, <3>3, Zenon
  <2> QED
    BY <1>1, <2>1, StepsKeep
<1>8. e \in [0 .. count -> Nat] /\ e[0] = 0
  BY <1>1, <1>5, <1>7
<1>9. \A k \in 1 .. count : e[k] = base * e[k - 1] + digits[k]
  BY <1>1, <1>5
<1> QED
  BY <1>6, <1>8, <1>9 DEF count

(* Value, written out. *)
LEMMA ValueOf ==
    ASSUME NEW base \in Nat, NEW digits \in Seq(Nat)
    PROVE  /\ Value(digits, base) \in Nat
           /\ Len(digits) = 1 => Value(digits, base) = digits[1]
           /\ Len(digits) = 2 => Value(digits, base) = base * digits[1] + digits[2]
           /\ Len(digits) = 3 =>
                Value(digits, base) = base * (base * digits[1] + digits[2]) + digits[3]
           /\ Len(digits) = 4 =>
                Value(digits, base)
                    = base * (base * (base * digits[1] + digits[2]) + digits[3]) + digits[4]
<1> DEFINE count == Len(digits)
           step(f, k) == k \in 1 .. count => f[k] = base * f[k - 1] + digits[k]
<1>1. PICK f \in [0 .. count -> Nat] :
         /\ f[0] = 0 /\ \A k \in 1 .. count : f[k] = base * f[k - 1] + digits[k]
         /\ Value(digits, base) = f[count]
  BY ValueRuns
<1>2. count \in Nat /\ Value(digits, base) \in Nat
  BY <1>1
<1>3. step(f, 1) /\ step(f, 2) /\ step(f, 3) /\ step(f, 4)
  BY <1>1
<1>4. count >= 1 => f[1] = digits[1]
  BY <1>1, <1>2, <1>3
<1>5. count >= 2 => f[2] = base * digits[1] + digits[2]
  BY <1>2, <1>3, <1>4
<1>6. count >= 3 => f[3] = base * (base * digits[1] + digits[2]) + digits[3]
  BY <1>2, <1>3, <1>5
<1>7. count >= 4 => f[4] = base * (base * (base * digits[1] + digits[2]) + digits[3]) + digits[4]
  BY <1>2, <1>3, <1>6
<1> DEFINE two == base * digits[1] + digits[2]
           three == base * (base * digits[1] + digits[2]) + digits[3]
           four == base * (base * (base * digits[1] + digits[2]) + digits[3]) + digits[4]
<1>8. /\ count >= 2 => f[2] = two
      /\ count >= 3 => f[3] = three
      /\ count >= 4 => f[4] = four
  BY <1>5, <1>6, <1>7, Zenon
<1> HIDE DEF two, three, four, count
<1>9. /\ count = 1 => f[count] = digits[1]
      /\ count = 2 => f[count] = two
      /\ count = 3 => f[count] = three
      /\ count = 4 => f[count] = four
  BY <1>2, <1>4, <1>8
<1> QED
  BY <1>1, <1>2, <1>9, Zenon DEF two, three, four, count

LEMMA HighOfTwo ==
    ASSUME NEW a \in 0..15, NEW b \in 0..15
    PROVE  (16 * a + b) \div 1 = 16 * a + b
OBVIOUS

LEMMA HighOfThree ==
    ASSUME NEW a \in 0..15, NEW b \in 0..15, NEW c \in 0..15
    PROVE  (16 * (16 * a + b) + c) \div 16 = 16 * a + b
OBVIOUS

LEMMA HighOfFour ==
    ASSUME NEW a \in 0..15, NEW b \in 0..15, NEW c \in 0..15, NEW d \in 0..15
    PROVE  (16 * (16 * (16 * a + b) + c) + d) \div 256 = 16 * a + b
OBVIOUS

LEMMA ChannelOf ==
    ASSUME NEW digits \in Seq(0..NotADigit)
    PROVE  LET second == IF Len(digits) = 1 THEN digits[1] ELSE digits[2]
               wellformed == Len(digits) \in 1..4 /\ NotADigit \notin {digits[i] : i \in DOMAIN digits}
           IN parse_osc_channel(digits) = IF wellformed THEN {16 * digits[1] + second} ELSE {}
<1> DEFINE second == IF Len(digits) = 1 THEN digits[1] ELSE digits[2]
           wellformed == Len(digits) \in 1..4 /\ NotADigit \notin {digits[i] : i \in DOMAIN digits}
           bad == Len(digits) \notin 1..4 \/ \E i \in DOMAIN digits : digits[i] = NotADigit
<1>1. bad <=> ~wellformed
  OBVIOUS
<1>2. CASE bad
  <2>1. parse_osc_channel(digits) = {}
    BY <1>2, Zenon DEF parse_osc_channel
  <2> QED
    BY <1>1, <1>2, <2>1, Zenon
<1>3. CASE ~bad
  <2>1. digits \in Seq(Nat) /\ Len(digits) \in 1..4
    BY <1>3 DEF NotADigit
  <2>2. \A i \in 1 .. Len(digits) : digits[i] \in 0..15
    BY <1>3 DEF NotADigit
  <2>3. parse_osc_channel(digits) = {16 * digits[1] + second}
    <3>1. CASE Len(digits) = 1
      <4>1. parse_osc_channel(digits) = {Value(digits, 16) * 17}
        BY <1>3, <3>1, Zenon DEF parse_osc_channel
      <4>2. Value(digits, 16) = digits[1]
        BY <2>1, <3>1, ValueOf
      <4>3. digits[1] \in 0..15
        BY <2>2, <3>1
      <4>4. Value(digits, 16) * 17 = 16 * digits[1] + digits[1]
        BY <4>2, <4>3
      <4> QED
        BY <3>1, <4>1, <4>4
    <3> DEFINE scale == <<1, 16, 256>>[Len(digits) - 1]
    <3>2. ASSUME Len(digits) # 1
          PROVE  parse_osc_channel(digits) = {Value(digits, 16) \div scale}
      BY <1>3, <3>2, Zenon DEF parse_osc_channel
    <3>3. CASE Len(digits) = 2
      <4>1. Value(digits, 16) = 16 * digits[1] + digits[2] /\ scale = 1
        BY <2>1, <3>3, ValueOf
      <4>2. digits[1] \in 0..15 /\ digits[2] \in 0..15
        BY <2>2, <3>3
      <4>3. (16 * digits[1] + digits[2]) \div 1
                = 16 * digits[1] + digits[2]
        BY <4>2, HighOfTwo, Zenon
      <4>4. Value(digits, 16) \div scale = 16 * digits[1] + digits[2]
        BY <4>1, <4>3, Zenon
      <4> QED
        BY <3>2, <3>3, <4>4
    <3>4. CASE Len(digits) = 3
      <4>1. Value(digits, 16) = 16 * (16 * digits[1] + digits[2]) + digits[3] /\ scale = 16
        BY <2>1, <3>4, ValueOf
      <4>2. digits[1] \in 0..15 /\ digits[2] \in 0..15 /\ digits[3] \in 0..15
        BY <2>2, <3>4
      <4>3. (16 * (16 * digits[1] + digits[2]) + digits[3]) \div 16
                = 16 * digits[1] + digits[2]
        BY <4>2, HighOfThree, Zenon
      <4>4. Value(digits, 16) \div scale = 16 * digits[1] + digits[2]
        BY <4>1, <4>3, Zenon
      <4> QED
        BY <3>2, <3>4, <4>4
    <3>5. CASE Len(digits) = 4
      <4>1. Value(digits, 16) = 16 * (16 * (16 * digits[1] + digits[2]) + digits[3]) + digits[4]
            /\ scale = 256
        BY <2>1, <3>5, ValueOf
      <4>2. /\ digits[1] \in 0..15 /\ digits[2] \in 0..15
            /\ digits[3] \in 0..15 /\ digits[4] \in 0..15
        BY <2>2, <3>5
      <4>3. (16 * (16 * (16 * digits[1] + digits[2]) + digits[3]) + digits[4]) \div 256
                = 16 * digits[1] + digits[2]
        <5> DEFINE a == digits[1]
                   b == digits[2]
                   c == digits[3]
                   d == digits[4]
        <5>1. a \in 0..15 /\ b \in 0..15 /\ c \in 0..15 /\ d \in 0..15
          BY <4>2
        <5> HIDE DEF a, b, c, d
        <5>2. (16 * (16 * (16 * a + b) + c) + d) \div 256 = 16 * a + b
          BY <5>1, HighOfFour
        <5> QED
          BY <5>2 DEF a, b, c, d
      <4>4. Value(digits, 16) \div scale = 16 * digits[1] + digits[2]
        BY <4>1, <4>3, Zenon
      <4> QED
        BY <3>2, <3>5, <4>4
    <3>6. \/ Len(digits) = 1 \/ Len(digits) = 2 \/ Len(digits) = 3 \/ Len(digits) = 4
      BY <2>1
    <3> QED
      BY <3>1, <3>3, <3>4, <3>5, <3>6
  <2> QED
    BY <1>1, <1>3, <2>3, Zenon
<1> QED
  BY <1>2, <1>3

-----------------------------------------------------------------------------
(* A colour report is read the way it is written, and OSC 4 pair by pair.     *)

LEMMA ByteOfColor ==
    ASSUME NEW b \in 0..255
    PROVE  parse_osc_channel(write_hex_byte(b)) = {b}
<1> DEFINE digits == write_hex_byte(b)
<1>1. b \div 16 \in 0..15 /\ b % 16 \in 0..15 /\ 16 * (b \div 16) + (b % 16) = b
  OBVIOUS
<1>2. /\ digits \in Seq(0..NotADigit) /\ Len(digits) = 2
      /\ digits[1] = b \div 16 /\ digits[2] = b % 16
  BY <1>1 DEF write_hex_byte, NotADigit
<1> HIDE DEF digits
<1>3. NotADigit \notin {digits[i] : i \in DOMAIN digits}
  <2>1. \A i \in DOMAIN digits : i = 1 \/ i = 2
    BY <1>2
  <2> QED
    BY <1>1, <1>2, <2>1 DEF NotADigit
<1>4. parse_osc_channel(digits) = {16 * digits[1] + digits[2]}
  BY <1>2, <1>3, ChannelOf
<1>5. 16 * digits[1] + digits[2] = b
  BY <1>1, <1>2
<1> QED
  BY <1>4, <1>5 DEF digits

LEMMA SpecOfColor ==
    ASSUME NEW rgb \in [1..3 -> 0..255]
    PROVE  parse_osc_rgb(Field("rgb", [i \in 1..3 |-> write_hex_byte(rgb[i])])) = {rgb}
<1> DEFINE spec == Field("rgb", [i \in 1..3 |-> write_hex_byte(rgb[i])])
<1>1. spec.text = "rgb" /\ spec.parts = [i \in 1..3 |-> write_hex_byte(rgb[i])]
  BY DEF Field
<1>2. /\ parse_osc_channel(spec.parts[1]) = {rgb[1]}
      /\ parse_osc_channel(spec.parts[2]) = {rgb[2]}
      /\ parse_osc_channel(spec.parts[3]) = {rgb[3]}
  <2>1. /\ spec.parts[1] = write_hex_byte(rgb[1]) /\ rgb[1] \in 0..255
        /\ spec.parts[2] = write_hex_byte(rgb[2]) /\ rgb[2] \in 0..255
        /\ spec.parts[3] = write_hex_byte(rgb[3]) /\ rgb[3] \in 0..255
    BY <1>1
  <2> QED
    BY <2>1, ByteOfColor, Zenon
<1>3. Len(spec.parts) = 3
  BY <1>1
<1>4. parse_osc_rgb(spec) = {<<r, g, b>> : r \in parse_osc_channel(spec.parts[1]),
                                           g \in parse_osc_channel(spec.parts[2]),
                                           b \in parse_osc_channel(spec.parts[3])}
  <2>1. ~ (spec.text # "rgb" \/ Len(spec.parts) # 3)
    BY <1>1, <1>3
  <2> HIDE DEF spec
  <2> QED
    BY <2>1 DEF parse_osc_rgb
<1>5. {<<r, g, b>> : r \in parse_osc_channel(spec.parts[1]),
                     g \in parse_osc_channel(spec.parts[2]),
                     b \in parse_osc_channel(spec.parts[3])} = {<<rgb[1], rgb[2], rgb[3]>>}
  <2> HIDE DEF spec
  <2> QED
    BY <1>2
<1>6. <<rgb[1], rgb[2], rgb[3]>> = rgb
  OBVIOUS
<1> QED
  <2> HIDE DEF spec
  <2>1. parse_osc_rgb(spec) = {rgb}
    BY <1>4, <1>5, <1>6
  <2> QED
    BY <2>1 DEF spec

LEMMA IndexOfNumber ==
    ASSUME NEW n \in 0..255
    PROVE  parse_osc_index(Field("number", <<Decimal[n]>>)) = {n}
<1> DEFINE digits == Decimal[n]
           field == Field("number", <<digits>>)
           hundreds == n \div 100
           tens == (n \div 10) % 10
           ones == n % 10
<1>1. /\ hundreds \in 0..2 /\ tens \in 0..9 /\ ones \in 0..9
      /\ 10 * (10 * hundreds + tens) + ones = n
      /\ n <= 99 => n \div 10 \in 0..9 /\ 10 * (n \div 10) + ones = n
      /\ n <= 9 => ones = n
  OBVIOUS
<1>2. digits = IF n > 99 THEN <<hundreds, tens, ones>>
               ELSE IF n > 9 THEN <<n \div 10, ones>> ELSE <<n>>
  BY DEF Decimal
<1> HIDE DEF digits, hundreds, tens, ones
<1>3. /\ digits \in Seq(0..9) /\ digits # <<>>
      /\ Value(digits, 10) = n
  <2>1. CASE n > 99
    <3>1. digits = <<hundreds, tens, ones>>
      BY <1>2, <2>1
    <3>2. digits \in Seq(0..9) /\ digits # <<>> /\ Len(digits) = 3 /\ digits \in Seq(Nat)
          /\ digits[1] = hundreds /\ digits[2] = tens /\ digits[3] = ones
      BY <1>1, <3>1
    <3>3. Value(digits, 10) = 10 * (10 * digits[1] + digits[2]) + digits[3]
      BY <3>2, ValueOf
    <3> QED
      BY <1>1, <3>2, <3>3
  <2>2. CASE n <= 99 /\ n > 9
    <3> DEFINE high == n \div 10
    <3>1. digits = <<high, ones>>
      BY <1>2, <2>2
    <3>4. high \in 0..9 /\ 10 * high + ones = n
      BY <1>1, <2>2
    <3> HIDE DEF high
    <3>2. digits \in Seq(0..9) /\ digits # <<>> /\ Len(digits) = 2 /\ digits \in Seq(Nat)
          /\ digits[1] = high /\ digits[2] = ones
      BY <1>1, <3>1, <3>4
    <3>3. Value(digits, 10) = 10 * digits[1] + digits[2]
      BY <3>2, ValueOf
    <3> QED
      BY <3>2, <3>3, <3>4
  <2>3. CASE n <= 9
    <3>1. digits = <<n>>
      BY <1>2, <2>3
    <3>2. digits \in Seq(0..9) /\ digits # <<>> /\ Len(digits) = 1 /\ digits \in Seq(Nat)
          /\ digits[1] = n
      BY <2>3, <3>1
    <3>3. Value(digits, 10) = digits[1]
      BY <3>2, ValueOf
    <3> QED
      BY <3>2, <3>3
  <2> QED
    BY <2>1, <2>2, <2>3
<1>4. field.text = "number" /\ field.parts[1] = digits
  BY DEF Field
<1> HIDE DEF field
<1>5. \A i \in DOMAIN digits : digits[i] <= 9
  BY <1>3
<1>6. Value(digits, 10) <= 255
  BY <1>3
<1>7. parse_osc_index(field) = {Value(digits, 10)}
  BY <1>3, <1>4, <1>5, <1>6, Zenon DEF parse_osc_index
<1> QED
  BY <1>3, <1>7 DEF field, digits

LEMMA ColorRequestShape ==
    ASSUME NEW slot, NEW spec
    PROVE  color_request(slot, spec) = <<>> \/ \E r : color_request(slot, spec) = <<r>>
<1> DEFINE color == parse_osc_rgb(spec)
<1>1. CASE spec.text = "?"
  BY <1>1, Zenon DEF color_request
<1>2. CASE spec.text # "?" /\ color = {}
  BY <1>2, Zenon DEF color_request
<1>3. CASE spec.text # "?" /\ color # {}
  BY <1>3, Zenon DEF color_request
<1> QED
  BY <1>1, <1>2, <1>3

LEMMA PaletteRequestShape ==
    ASSUME NEW key, NEW spec
    PROVE  palette_request(key, spec) = <<>> \/ \E r : palette_request(key, spec) = <<r>>
<1>1. CASE parse_osc_index(key) = {}
  BY <1>1, Zenon DEF palette_request
<1>2. CASE parse_osc_index(key) # {}
  <2> DEFINE slot == Slot("Indexed", CHOOSE n \in parse_osc_index(key) : TRUE)
  <2>1. palette_request(key, spec) = color_request(slot, spec)
    BY <1>2, Zenon DEF palette_request
  <2> HIDE DEF slot
  <2> QED
    BY <2>1, ColorRequestShape
<1> QED
  BY <1>1, <1>2

(* The requests of the pairs of an OSC 4, as a sequence of sequences.         *)
Pairs(fields) == [k \in 1 .. Len(fields) \div 2 |-> palette_request(fields[2 * k - 1], fields[2 * k])]
Asked(fields) == {Pairs(fields)[k][1] : k \in 1 .. Len(fields) \div 2}

LEMMA PairsTyped ==
    ASSUME NEW fields
    PROVE  \A k \in 1 .. Len(fields) \div 2 : Pairs(fields)[k] \in Seq(Asked(fields))
<1> SUFFICES ASSUME NEW k \in 1 .. Len(fields) \div 2
             PROVE  Pairs(fields)[k] \in Seq(Asked(fields))
  OBVIOUS
<1> DEFINE piece == Pairs(fields)[k]
<1>1. piece = palette_request(fields[2 * k - 1], fields[2 * k])
  BY DEF Pairs
<1>2. piece = <<>> \/ \E r : piece = <<r>>
  BY <1>1, PaletteRequestShape
<1>3. piece[1] \in Asked(fields)
  BY DEF Asked
<1> HIDE DEF piece
<1>4. CASE piece = <<>>
  BY <1>4 DEF piece
<1>5. ASSUME NEW r, piece = <<r>> PROVE piece \in Seq(Asked(fields))
  <2>1. r \in Asked(fields)
    BY <1>3, <1>5
  <2> QED
    BY <1>5, <2>1
<1> QED
  BY <1>2, <1>4, <1>5 DEF piece

(* osc_palette asks for them one after another. *)
LEMMA PaletteIsFlat ==
    ASSUME NEW fields, Len(fields) \in Nat
    PROVE  osc_palette(fields) = FlattenSeq(Pairs(fields))
<1> DEFINE N == Len(fields) \div 2
           T == Asked(fields)
           pieces == Pairs(fields)
           ask(k) == palette_request(fields[2 * k - 1], fields[2 * k])
           Def(g) == g = [k \in 0 .. N |-> IF k = 0 THEN <<>> ELSE g[k - 1] \o ask(k)]
           e == CHOOSE g : Def(g)
<1>1. N \in Nat
  OBVIOUS
<1>2. pieces \in [1 .. N -> Seq(T)] /\ pieces \in Seq(Seq(T)) /\ Len(pieces) = N
  <2>1. \A k \in 1 .. N : pieces[k] \in Seq(T)
    BY PairsTyped
  <2>2. pieces = [k \in 1 .. N |-> pieces[k]]
    BY DEF Pairs
  <2> HIDE DEF N, T, pieces
  <2> QED
    BY <1>1, <2>1, <2>2
<1>3. osc_palette(fields) = e[N]
  BY DEF osc_palette
<1>4. \A k \in 1 .. N : ask(k) = pieces[k]
  BY DEF Pairs
<1> HIDE DEF N, T, pieces, ask
<1>5. PICK f \in Joins(T, N, pieces) : FlattenSeq(pieces) = f[N]
  BY <1>2, FlattenRuns
<1>6. f \in [0 .. N -> Seq(T)] /\ f[0] = <<>> /\ \A k \in 1 .. N : f[k] = f[k - 1] \o pieces[k]
  BY <1>5 DEF Joins
<1>7. \E g : Def(g)
  <2>1. \A k \in 0 .. N : f[k] = IF k = 0 THEN <<>> ELSE f[k - 1] \o ask(k)
    <3> SUFFICES ASSUME NEW k \in 0 .. N, k # 0 PROVE f[k] = f[k - 1] \o ask(k)
      BY <1>6, Zenon
    <3>1. k \in 1 .. N
      BY <1>1
    <3> QED
      BY <1>4, <1>6, <3>1, Zenon
  <2>2. Def(f)
    BY <1>6, <2>1
  <2> QED
    BY <2>2
<1>8. Def(e)
  BY <1>7
<1> HIDE DEF e
<1>9. e[0] = <<>> /\ \A k \in 1 .. N : e[k] = e[k - 1] \o pieces[k]
  <2>1. e[0] = <<>>
    BY <1>1, <1>8
  <2>2. ASSUME NEW k \in 1 .. N PROVE e[k] = e[k - 1] \o pieces[k]
    <3>1. k \in 0 .. N /\ k # 0
      BY <1>1
    <3>2. e[k] = IF k = 0 THEN <<>> ELSE e[k - 1] \o ask(k)
      BY <1>8, <3>1, Zenon
    <3> QED
      BY <1>4, <3>1, <3>2, Zenon
  <2> QED
    BY <2>1, <2>2
<1>10. \A k \in 0 .. N : e[k] = f[k]
  <2>1. e[0] = f[0]
    BY <1>6, <1>9
  <2>2. \A k \in 1 .. N : e[k - 1] = f[k - 1] => e[k] = f[k]
    BY <1>6, <1>9
  <2>3. SameSteps(N, e, f)
    BY <2>1, <2>2, Zenon DEF SameSteps
  <2>4. SameValues(N, e, f)
    BY <1>1, <2>3, StepsAgree
  <2> QED
    BY <2>4 DEF SameValues
<1>11. e[N] = f[N]
  BY <1>1, <1>10
<1> QED
  BY <1>3, <1>5, <1>11 DEF pieces

LEMMA FlattenOne ==
    ASSUME NEW T, NEW s \in Seq(T)
    PROVE  FlattenSeq(<<s>>) = s
<1>1. <<s>> \in Seq(Seq(T)) /\ Len(<<s>>) = 1 /\ <<s>>[1] = s
  OBVIOUS
<1>2. PICK f \in Joins(T, 1, <<s>>) : FlattenSeq(<<s>>) = f[1]
  BY <1>1, FlattenRuns
<1>3. f[1] = <<>> \o s
  <2>1. f[0] = <<>> /\ f[1] = f[1 - 1] \o <<s>>[1]
    BY <1>2 DEF Joins
  <2> QED
    BY <1>1, <2>1
<1> QED
  BY <1>2, <1>3

(* A message of one pair asks for what that pair asks. *)
LEMMA OnePair ==
    ASSUME NEW key, NEW spec
    PROVE  osc_palette(<<key, spec>>) = palette_request(key, spec)
<1> DEFINE fields == <<key, spec>>
           piece == palette_request(key, spec)
<1>1. Len(fields) = 2 /\ fields[1] = key /\ fields[2] = spec
  OBVIOUS
<1> HIDE DEF fields
<1>2. Pairs(fields) = <<piece>>
  <2>1. Len(fields) \div 2 = 1
    BY <1>1
  <2>2. Pairs(fields) = [k \in 1 .. 1 |-> palette_request(fields[2 * k - 1], fields[2 * k])]
    BY <2>1, Zenon DEF Pairs
  <2>3. \A k \in 1 .. 1 : 2 * k - 1 = 1 /\ 2 * k = 2
    OBVIOUS
  <2>4. Pairs(fields) = [k \in 1 .. 1 |-> piece]
    BY <1>1, <2>2, <2>3
  <2> HIDE DEF piece
  <2> QED
    BY <2>4
<1>3. piece \in Seq({piece[1]})
  <2>1. piece = <<>> \/ \E r : piece = <<r>>
    BY PaletteRequestShape
  <2> HIDE DEF piece
  <2>2. CASE piece = <<>>
    BY <2>2
  <2>3. ASSUME NEW r, piece = <<r>> PROVE piece \in Seq({piece[1]})
    BY <2>3
  <2> QED
    BY <2>1, <2>2, <2>3
<1>4. osc_palette(fields) = FlattenSeq(<<piece>>)
  BY <1>1, <1>2, PaletteIsFlat
<1> HIDE DEF piece
<1>5. osc_palette(fields) = piece
  BY <1>3, <1>4, FlattenOne
<1> QED
  BY <1>5 DEF fields, piece

LEMMA RgbRequest ==
    ASSUME NEW slot, NEW rgb \in [1..3 -> 0..255]
    PROVE  color_request(slot, Field("rgb", [i \in 1..3 |-> write_hex_byte(rgb[i])]))
               = <<SetColor(slot, rgb)>>
<1> DEFINE spec == Field("rgb", [i \in 1..3 |-> write_hex_byte(rgb[i])])
           color == parse_osc_rgb(spec)
           found == CHOOSE c \in color : TRUE
<1>1. spec.text # "?"
  BY DEF Field
<1>2. color = {rgb}
  BY SpecOfColor
<1> HIDE DEF spec
<1>3. color # {} /\ found = rgb
  <2> HIDE DEF color
  <2> QED
    BY <1>2
<1>4. color_request(slot, spec) = <<SetColor(slot, found)>>
  BY <1>1, <1>3, Zenon DEF color_request
<1> QED
  BY <1>3, <1>4, Zenon DEF spec

LEMMA ColorReads ==
    ASSUME NEW slot \in Slots, NEW rgb \in [1..3 -> Channels]
    PROVE  LET report == write_color(slot, rgb)
           IN osc_color(report.id, report.fields) = <<SetColor(slot, rgb)>>
<1> DEFINE spec == Field("rgb", [i \in 1..3 |-> write_hex_byte(rgb[i])])
           report == write_color(slot, rgb)
<1>1. rgb \in [1..3 -> 0..255]
  <2>1. Channels \subseteq 0..255
    BY ConversionsAssumption, Zenon
  <2> QED
    BY <2>1
<1>2. \A s : color_request(s, spec) = <<SetColor(s, rgb)>>
  BY <1>1, RgbRequest
<1>3. report.id = osc_id(slot)
      /\ report.fields = IF slot.name = "Indexed"
                         THEN <<Field("number", <<Decimal[slot.n]>>), spec>> ELSE <<spec>>
  BY DEF write_color
<1> HIDE DEF spec, report
<1>4. CASE slot.name = "Indexed"
  <2> DEFINE key == Field("number", <<Decimal[slot.n]>>)
  <2>1. slot.n \in 0..255 /\ slot = Slot("Indexed", slot.n)
    <3>1. \A name : Slot(name, 0).name = name
      BY DEF Slot
    <3>2. PICK n \in Indices : slot = Slot("Indexed", n)
      BY <1>4, <3>1 DEF Slots
    <3>3. slot.n = n /\ n \in 0..255
      BY <3>2, ConversionsAssumption DEF Slot
    <3> QED
      BY <3>2, <3>3
  <2>2. parse_osc_index(key) = {slot.n}
    BY <2>1, IndexOfNumber
  <2>3. report.id = 4 /\ report.fields = <<key, spec>>
    BY <1>3, <1>4 DEF osc_id
  <2> HIDE DEF key
  <2>4. osc_color(report.id, report.fields) = palette_request(key, spec)
    <3>1. osc_color(4, <<key, spec>>) = osc_palette(<<key, spec>>)
      BY DEF osc_color
    <3> QED
      BY <2>3, <3>1, OnePair
  <2> DEFINE found == CHOOSE n \in parse_osc_index(key) : TRUE
  <2>5. parse_osc_index(key) # {} /\ found = slot.n
    BY <2>2
  <2>6. palette_request(key, spec) = color_request(Slot("Indexed", found), spec)
    BY <2>5, Zenon DEF palette_request
  <2> HIDE DEF found
  <2>7. Slot("Indexed", found) = slot
    BY <2>1, <2>5
  <2> QED
    BY <1>2, <2>4, <2>6, <2>7, Zenon DEF report
<1>5. CASE slot.name # "Indexed"
  <2>1. report.fields = <<spec>> /\ <<spec>> # <<>> /\ <<spec>>[1] = spec
    BY <1>3, <1>5
  <2>2. \A s : osc_default_color(s, <<spec>>) = color_request(s, spec)
    BY <2>1, Zenon DEF osc_default_color
  <2>3. \/ slot = Slot("DefaultForeground", 0)
        \/ slot = Slot("DefaultBackground", 0)
        \/ slot = Slot("DefaultCursor", 0)
    <3>1. \A name, n : Slot(name, n).name = name
      BY DEF Slot
    <3> QED
      BY <1>5, <3>1 DEF Slots
  <2>4. osc_color(report.id, <<spec>>) = osc_default_color(slot, <<spec>>)
    <3>1. \A name, n : Slot(name, n).name = name
      BY DEF Slot
    <3>2. CASE slot = Slot("DefaultForeground", 0)
      <4>1. report.id = 10
        BY <1>3, <3>1, <3>2 DEF osc_id
      <4> QED
        BY <3>2, <4>1 DEF osc_color
    <3>3. CASE slot = Slot("DefaultBackground", 0)
      <4>1. report.id = 11
        BY <1>3, <3>1, <3>3 DEF osc_id
      <4> QED
        BY <3>3, <4>1 DEF osc_color
    <3>4. CASE slot = Slot("DefaultCursor", 0)
      <4>1. report.id = 12
        BY <1>3, <3>1, <3>4 DEF osc_id
      <4> QED
        BY <3>4, <4>1 DEF osc_color
    <3> QED
      BY <2>3, <3>2, <3>3, <3>4
  <2> QED
    BY <1>2, <2>1, <2>2, <2>4, Zenon DEF report
<1> QED
  BY <1>4, <1>5

LEMMA ColorSampled == TakeColor => ColorReadable'
<1> SUFFICES ASSUME NEW slot \in Slots, NEW rgb \in [1..3 -> Channels],
                    sample' = [of |-> "color", slot |-> slot, rgb |-> rgb]
             PROVE  ColorReadable'
  BY Zenon DEF TakeColor
<1>1. sample'.slot = slot /\ sample'.rgb = rgb
  OBVIOUS
<1> QED
  BY <1>1, ColorReads, Zenon DEF ColorReadable

LEMMA ListTyped ==
    ASSUME NEW set, NEW longest \in Nat, NEW list \in Lists(set, longest)
    PROVE  list \in Seq(set)
BY DEF Lists

LEMMA SeqWider ==
    ASSUME NEW S, NEW T, S \subseteq T, NEW list \in Seq(S)
    PROVE  list \in Seq(T)
<1>1. Len(list) \in Nat /\ list \in [1 .. Len(list) -> S]
  OBVIOUS
<1>2. list \in [1 .. Len(list) -> T]
  BY <1>1
<1> QED
  BY <1>1, <1>2

LEMMA TwoOf ==
    ASSUME NEW T, NEW list \in Seq(T), NEW a \in 1 .. Len(list), a + 1 \in 1 .. Len(list)
    PROVE  SubSeq(list, a, a + 1) = <<list[a], list[a + 1]>>
<1> DEFINE cut == SubSeq(list, a, a + 1)
<1>1. cut \in Seq(T) /\ Len(cut) = 2 /\ cut[1] = list[a] /\ cut[2] = list[a + 1]
  <2>1. a \in Int /\ a + 1 \in Int /\ a <= a + 1 /\ (a + 1) - a + 1 = 2
    OBVIOUS
  <2>2. \A i \in a .. a + 1 : list[i] \in T
    OBVIOUS
  <2>3. /\ cut \in Seq(T) /\ Len(cut) = 2
        /\ \A i \in 1 .. 2 : cut[i] = list[a + i - 1]
    BY <2>1, <2>2, SubSeqProperties
  <2>4. a + 1 - 1 = a /\ a + 2 - 1 = a + 1
    OBVIOUS
  <2> HIDE DEF cut
  <2> QED
    BY <2>3, <2>4
<1> HIDE DEF cut
<1>2. cut = <<list[a], list[a + 1]>>
  BY <1>1
<1> QED
  BY <1>2 DEF cut

LEMMA PaletteSampled == TakePalette => PairsIndependent'
<1> SUFFICES ASSUME NEW fields \in Lists(Fields, MaxFields),
                    sample' = [of |-> "palette", fields |-> fields]
             PROVE  PairsIndependent'
  BY Zenon DEF TakePalette
<1> DEFINE pair(k) == SubSeq(fields, 2 * k - 1, 2 * k)
           N == Len(fields) \div 2
<1>1. sample'.fields = fields
  OBVIOUS
<1>2. fields \in Seq(Fields) /\ Len(fields) \in Nat
  <2>1. MaxFields \in Nat
    BY ConversionsAssumption
  <2>2. fields \in Seq(Fields)
    BY <2>1, ListTyped
  <2> QED
    BY <2>2
<1>3. ASSUME NEW k \in 1 .. N
      PROVE  osc_palette(pair(k)) = palette_request(fields[2 * k - 1], fields[2 * k])
  <2>1. 2 * k - 1 \in 1 .. Len(fields) /\ 2 * k \in 1 .. Len(fields) /\ 2 * k = (2 * k - 1) + 1
    BY <1>2, <1>3
  <2>2. pair(k) = <<fields[2 * k - 1], fields[2 * k]>>
    <3> DEFINE a == 2 * k - 1
    <3>1. a \in 1 .. Len(fields) /\ a + 1 \in 1 .. Len(fields) /\ pair(k) = SubSeq(fields, a, a + 1)
      BY <2>1
    <3> HIDE DEF a
    <3>2. SubSeq(fields, a, a + 1) = <<fields[a], fields[a + 1]>>
      BY <1>2, <3>1, TwoOf
    <3>3. a + 1 = 2 * k
      BY <2>1 DEF a
    <3> QED
      BY <3>1, <3>2, <3>3 DEF a
  <2> HIDE DEF pair
  <2> QED
    BY <2>2, OnePair, Zenon
<1>4. [k \in 1 .. N |-> osc_palette(pair(k))] = Pairs(fields)
  BY <1>3, Zenon DEF Pairs
<1>5. osc_palette(fields) = FlattenSeq([k \in 1 .. N |-> osc_palette(pair(k))])
  BY <1>2, <1>4, PaletteIsFlat, Zenon
<1> QED
  BY <1>1, <1>5, Zenon DEF PairsIndependent

LEMMA ChannelSampled == TakeChannel => ChannelsScale'
<1> SUFFICES ASSUME NEW digits \in Lists(Digits, 5),
                    sample' = [of |-> "channel", digits |-> digits]
             PROVE  ChannelsScale'
  BY Zenon DEF TakeChannel
<1>1. sample'.digits = digits
  OBVIOUS
<1>2. digits \in Seq(0..NotADigit)
  <2>1. digits \in Seq(Digits)
    BY ListTyped
  <2>2. Digits \subseteq 0..NotADigit
    BY ConversionsAssumption
  <2> QED
    BY <2>1, <2>2, SeqWider
<1> QED
  BY <1>1, <1>2, ChannelOf, Zenon DEF ChannelsScale

-----------------------------------------------------------------------------
(* The pen follows the commands of one sequence, however many there are.      *)

Pen == [bold : BOOLEAN, italic : BOOLEAN, underline : BOOLEAN, reverse : BOOLEAN,
        foreground : Seq(Nat), background : Seq(Nat)]
PenFields == {"bold", "italic", "underline", "reverse", "foreground", "background"}

LEMMA PenShape ==
    ASSUME NEW pen \in Pen
    PROVE  DOMAIN pen = PenFields
BY DEF Pen, PenFields

LEMMA SamePen ==
    ASSUME NEW p \in Pen, NEW q, q = [x \in PenFields |-> q[x]],
           \A x \in PenFields : p[x] = q[x]
    PROVE  p = q
BY DEF Pen, PenFields

(* What a command leaves of the pen, field by field. *)
LEMMA AfterSets ==
    ASSUME NEW pen \in Pen, NEW sets, NEW fields, DOMAIN sets = fields, NEW q \in Pen,
           \A x \in PenFields : q[x] = IF x \in fields THEN sets[x] ELSE pen[x]
    PROVE  pen_after(pen, sets) = q
<1>1. pen_after(pen, sets) = [x \in PenFields |-> IF x \in fields THEN sets[x] ELSE pen[x]]
  BY PenShape, Zenon DEF pen_after
<1> DEFINE p == pen_after(pen, sets)
<1>2. p = [x \in PenFields |-> p[x]]
  BY <1>1, Zenon
<1>3. \A x \in PenFields : q[x] = p[x]
  BY <1>1, Zenon
<1> HIDE DEF p
<1>4. q = p
  BY <1>2, <1>3, SamePen, Zenon
<1> QED BY <1>4, Zenon DEF p

LEMMA BoldAfter ==
    ASSUME NEW pen \in Pen, NEW value \in BOOLEAN
    PROVE  /\ [pen EXCEPT !.bold = value] \in Pen
           /\ pen_after(pen, [bold |-> value]) = [pen EXCEPT !.bold = value]
<1> DEFINE sets == [bold |-> value]
           q == [pen EXCEPT !.bold = value]
<1>1. DOMAIN sets = {"bold"}
  OBVIOUS
<1>2. q \in Pen
  BY DEF Pen
<1>3. \A x \in PenFields : q[x] = IF x \in {"bold"} THEN sets[x] ELSE pen[x]
  BY DEF PenFields, Pen
<1> HIDE DEF sets, q
<1>4. pen_after(pen, sets) = q
  BY <1>1, <1>2, <1>3, AfterSets
<1> QED BY <1>2, <1>4 DEF sets, q

LEMMA ItalicAfter ==
    ASSUME NEW pen \in Pen, NEW value \in BOOLEAN
    PROVE  /\ [pen EXCEPT !.italic = value] \in Pen
           /\ pen_after(pen, [italic |-> value]) = [pen EXCEPT !.italic = value]
<1> DEFINE sets == [italic |-> value]
           q == [pen EXCEPT !.italic = value]
<1>1. DOMAIN sets = {"italic"}
  OBVIOUS
<1>2. q \in Pen
  BY DEF Pen
<1>3. \A x \in PenFields : q[x] = IF x \in {"italic"} THEN sets[x] ELSE pen[x]
  BY DEF PenFields, Pen
<1> HIDE DEF sets, q
<1>4. pen_after(pen, sets) = q
  BY <1>1, <1>2, <1>3, AfterSets
<1> QED BY <1>2, <1>4 DEF sets, q

LEMMA UnderlineAfter ==
    ASSUME NEW pen \in Pen, NEW value \in BOOLEAN
    PROVE  /\ [pen EXCEPT !.underline = value] \in Pen
           /\ pen_after(pen, [underline |-> value]) = [pen EXCEPT !.underline = value]
<1> DEFINE sets == [underline |-> value]
           q == [pen EXCEPT !.underline = value]
<1>1. DOMAIN sets = {"underline"}
  OBVIOUS
<1>2. q \in Pen
  BY DEF Pen
<1>3. \A x \in PenFields : q[x] = IF x \in {"underline"} THEN sets[x] ELSE pen[x]
  BY DEF PenFields, Pen
<1> HIDE DEF sets, q
<1>4. pen_after(pen, sets) = q
  BY <1>1, <1>2, <1>3, AfterSets
<1> QED BY <1>2, <1>4 DEF sets, q

LEMMA ReverseAfter ==
    ASSUME NEW pen \in Pen, NEW value \in BOOLEAN
    PROVE  /\ [pen EXCEPT !.reverse = value] \in Pen
           /\ pen_after(pen, [reverse |-> value]) = [pen EXCEPT !.reverse = value]
<1> DEFINE sets == [reverse |-> value]
           q == [pen EXCEPT !.reverse = value]
<1>1. DOMAIN sets = {"reverse"}
  OBVIOUS
<1>2. q \in Pen
  BY DEF Pen
<1>3. \A x \in PenFields : q[x] = IF x \in {"reverse"} THEN sets[x] ELSE pen[x]
  BY DEF PenFields, Pen
<1> HIDE DEF sets, q
<1>4. pen_after(pen, sets) = q
  BY <1>1, <1>2, <1>3, AfterSets
<1> QED BY <1>2, <1>4 DEF sets, q

LEMMA ForegroundAfter ==
    ASSUME NEW pen \in Pen, NEW value \in Seq(Nat)
    PROVE  /\ [pen EXCEPT !.foreground = value] \in Pen
           /\ pen_after(pen, [foreground |-> value]) = [pen EXCEPT !.foreground = value]
<1> DEFINE sets == [foreground |-> value]
           q == [pen EXCEPT !.foreground = value]
<1>1. DOMAIN sets = {"foreground"}
  OBVIOUS
<1>2. q \in Pen
  BY DEF Pen
<1>3. \A x \in PenFields : q[x] = IF x \in {"foreground"} THEN sets[x] ELSE pen[x]
  BY DEF PenFields, Pen
<1> HIDE DEF sets, q
<1>4. pen_after(pen, sets) = q
  BY <1>1, <1>2, <1>3, AfterSets
<1> QED BY <1>2, <1>4 DEF sets, q

LEMMA BackgroundAfter ==
    ASSUME NEW pen \in Pen, NEW value \in Seq(Nat)
    PROVE  /\ [pen EXCEPT !.background = value] \in Pen
           /\ pen_after(pen, [background |-> value]) = [pen EXCEPT !.background = value]
<1> DEFINE sets == [background |-> value]
           q == [pen EXCEPT !.background = value]
<1>1. DOMAIN sets = {"background"}
  OBVIOUS
<1>2. q \in Pen
  BY DEF Pen
<1>3. \A x \in PenFields : q[x] = IF x \in {"background"} THEN sets[x] ELSE pen[x]
  BY DEF PenFields, Pen
<1> HIDE DEF sets, q
<1>4. pen_after(pen, sets) = q
  BY <1>1, <1>2, <1>3, AfterSets
<1> QED BY <1>2, <1>4 DEF sets, q


LEMMA DefaultAfter ==
    ASSUME NEW pen \in Pen
    PROVE  DefaultPen \in Pen /\ pen_after(pen, DefaultPen) = DefaultPen
<1>1. DefaultPen \in Pen
  BY DEF DefaultPen, Pen
<1>2. DOMAIN DefaultPen = PenFields
  BY <1>1, PenShape
<1>3. \A x \in PenFields : DefaultPen[x] = IF x \in PenFields THEN DefaultPen[x] ELSE pen[x]
  OBVIOUS
<1> QED
  BY <1>1, <1>2, <1>3, AfterSets, Zenon

LEMMA NothingAfter ==
    ASSUME NEW pen \in Pen
    PROVE  pen_after(pen, <<>>) = pen
<1>1. DOMAIN <<>> = {}
  OBVIOUS
<1> DEFINE sets == <<>>
<1>2. \A x \in PenFields : pen[x] = IF x \in {} THEN sets[x] ELSE pen[x]
  OBVIOUS
<1> QED
  BY <1>1, <1>2, AfterSets, Zenon

LEMMA NumberSets ==
    ASSUME NEW pen \in Pen, NEW unit, unit.codes \in Seq(Nat), NumberCommand(unit)
    PROVE  /\ set_attribute(pen, unit.codes[1]) \in Pen
           /\ set_attribute(pen, unit.codes[1]) = pen_after(pen, unit.sets)
<1> DEFINE code == unit.codes[1]
           sets == unit.sets
           q == set_attribute(pen, code)
           isDefault == code = 0
           isBold == code \in {1, 22}
           isItalic == code \in {3, 23}
           isUnderline == code \in {4, 24}
           isReverse == code \in {7, 27}
           isFront == code \in 30..37
           isBright == code \in 90..97
           isNoFront == code = 39
           isBack == code \in 40..47
           isBrightBack == code \in 100..107
           isNoBack == code = 49
<1>0. SUFFICES q \in Pen /\ q = pen_after(pen, sets)
  OBVIOUS
<1>1. code \in Nat
  <2>1. Len(unit.codes) = 1
    BY Zenon DEF NumberCommand
  <2> QED
    BY <2>1
<1>2. sets =
              CASE isDefault -> DefaultPen
                [] isBold -> [bold |-> code = 1]
                [] isItalic -> [italic |-> code = 3]
                [] isUnderline -> [underline |-> code = 4]
                [] isReverse -> [reverse |-> code = 7]
                [] isFront -> [foreground |-> <<code - 30>>]
                [] isBright -> [foreground |-> <<code - 82>>]
                [] isNoFront -> [foreground |-> <<>>]
                [] isBack -> [background |-> <<code - 40>>]
                [] isBrightBack -> [background |-> <<code - 92>>]
                [] isNoBack -> [background |-> <<>>]
                [] OTHER -> <<>>
  BY Zenon DEF NumberCommand
<1>3. q =
    CASE isDefault -> DefaultPen
      [] isBold -> [pen EXCEPT !.bold = code = 1]
      [] isItalic -> [pen EXCEPT !.italic = code = 3]
      [] isUnderline -> [pen EXCEPT !.underline = code = 4]
      [] isReverse -> [pen EXCEPT !.reverse = code = 7]
      [] isFront -> [pen EXCEPT !.foreground = <<code - 30>>]
      [] isNoFront -> [pen EXCEPT !.foreground = <<>>]
      [] isBack -> [pen EXCEPT !.background = <<code - 40>>]
      [] isNoBack -> [pen EXCEPT !.background = <<>>]
      [] isBright -> [pen EXCEPT !.foreground = <<code - 90 + 8>>]
      [] isBrightBack -> [pen EXCEPT !.background = <<code - 100 + 8>>]
      [] OTHER -> pen
  BY Zenon DEF set_attribute
<1> HIDE DEF code, sets, q, isDefault, isBold, isItalic, isUnderline, isReverse,
             isFront, isBright, isNoFront, isBack, isBrightBack, isNoBack
<1>4. CASE isDefault
  <2>1. ~ isBold /\ ~ isItalic /\ ~ isUnderline /\ ~ isReverse /\ ~ isFront
        /\ ~ isBright /\ ~ isNoFront /\ ~ isBack /\ ~ isBrightBack /\ ~ isNoBack
    BY <1>1, <1>4 DEF isDefault, isBold, isItalic, isUnderline, isReverse,
                      isFront, isBright, isNoFront, isBack, isBrightBack, isNoBack
  <2>2. q = DefaultPen
    BY <1>3, <1>4, <2>1, Zenon
  <2>3. sets = DefaultPen
    BY <1>2, <1>4, <2>1, Zenon
  <2> QED
    BY <2>2, <2>3, DefaultAfter, Zenon
<1>5. CASE isBold
  <2>1. ~ isDefault /\ ~ isItalic /\ ~ isUnderline /\ ~ isReverse /\ ~ isFront
        /\ ~ isBright /\ ~ isNoFront /\ ~ isBack /\ ~ isBrightBack /\ ~ isNoBack
    BY <1>1, <1>5 DEF isDefault, isBold, isItalic, isUnderline, isReverse,
                      isFront, isBright, isNoFront, isBack, isBrightBack, isNoBack
  <2>2. q = [pen EXCEPT !.bold = (code = 1)] /\ sets = [bold |-> (code = 1)]
    BY <1>2, <1>3, <1>5, <2>1, Zenon
  <2>3. (code = 1) \in BOOLEAN
    BY <1>1, <1>5 DEF isBold
  <2> QED
    BY <2>2, <2>3, BoldAfter, Zenon
<1>6. CASE isItalic
  <2>1. ~ isDefault /\ ~ isBold /\ ~ isUnderline /\ ~ isReverse /\ ~ isFront
        /\ ~ isBright /\ ~ isNoFront /\ ~ isBack /\ ~ isBrightBack /\ ~ isNoBack
    BY <1>1, <1>6 DEF isDefault, isBold, isItalic, isUnderline, isReverse,
                      isFront, isBright, isNoFront, isBack, isBrightBack, isNoBack
  <2>2. q = [pen EXCEPT !.italic = (code = 3)] /\ sets = [italic |-> (code = 3)]
    BY <1>2, <1>3, <1>6, <2>1, Zenon
  <2>3. (code = 3) \in BOOLEAN
    BY <1>1, <1>6 DEF isItalic
  <2> QED
    BY <2>2, <2>3, ItalicAfter, Zenon
<1>7. CASE isUnderline
  <2>1. ~ isDefault /\ ~ isBold /\ ~ isItalic /\ ~ isReverse /\ ~ isFront /\ ~ isBright
        /\ ~ isNoFront /\ ~ isBack /\ ~ isBrightBack /\ ~ isNoBack
    BY <1>1, <1>7 DEF isDefault, isBold, isItalic, isUnderline, isReverse,
                      isFront, isBright, isNoFront, isBack, isBrightBack, isNoBack
  <2>2. q = [pen EXCEPT !.underline = (code = 4)] /\ sets = [underline |-> (code = 4)]
    BY <1>2, <1>3, <1>7, <2>1, Zenon
  <2>3. (code = 4) \in BOOLEAN
    BY <1>1, <1>7 DEF isUnderline
  <2> QED
    BY <2>2, <2>3, UnderlineAfter, Zenon
<1>8. CASE isReverse
  <2>1. ~ isDefault /\ ~ isBold /\ ~ isItalic /\ ~ isUnderline /\ ~ isFront
        /\ ~ isBright /\ ~ isNoFront /\ ~ isBack /\ ~ isBrightBack /\ ~ isNoBack
    BY <1>1, <1>8 DEF isDefault, isBold, isItalic, isUnderline, isReverse,
                      isFront, isBright, isNoFront, isBack, isBrightBack, isNoBack
  <2>2. q = [pen EXCEPT !.reverse = (code = 7)] /\ sets = [reverse |-> (code = 7)]
    BY <1>2, <1>3, <1>8, <2>1, Zenon
  <2>3. (code = 7) \in BOOLEAN
    BY <1>1, <1>8 DEF isReverse
  <2> QED
    BY <2>2, <2>3, ReverseAfter, Zenon
<1>9. CASE isFront
  <2>1. ~ isDefault /\ ~ isBold /\ ~ isItalic /\ ~ isUnderline /\ ~ isReverse
        /\ ~ isBright /\ ~ isNoFront /\ ~ isBack /\ ~ isBrightBack /\ ~ isNoBack
    BY <1>1, <1>9 DEF isDefault, isBold, isItalic, isUnderline, isReverse,
                      isFront, isBright, isNoFront, isBack, isBrightBack, isNoBack
  <2>2. q = [pen EXCEPT !.foreground = <<code - 30>>] /\ sets = [foreground |-> <<code - 30>>]
    BY <1>2, <1>3, <1>9, <2>1, Zenon
  <2>3. <<code - 30>> \in Seq(Nat)
    BY <1>1, <1>9 DEF isFront
  <2> QED
    BY <2>2, <2>3, ForegroundAfter, Zenon
<1>10. CASE isBright
  <2>1. ~ isDefault /\ ~ isBold /\ ~ isItalic /\ ~ isUnderline /\ ~ isReverse
        /\ ~ isFront /\ ~ isNoFront /\ ~ isBack /\ ~ isBrightBack /\ ~ isNoBack
    BY <1>1, <1>10 DEF isDefault, isBold, isItalic, isUnderline, isReverse,
                      isFront, isBright, isNoFront, isBack, isBrightBack, isNoBack
  <2>a. q = [pen EXCEPT !.foreground = <<code - 90 + 8>>] /\ sets = [foreground |-> <<code - 82>>]
    BY <1>2, <1>3, <1>10, <2>1, Zenon
  <2>b. code - 90 + 8 = code - 82 /\ code - 100 + 8 = code - 92
    BY <1>1
  <2>2. q = [pen EXCEPT !.foreground = <<code - 82>>] /\ sets = [foreground |-> <<code - 82>>]
    BY <2>a, <2>b, Zenon
  <2>3. <<code - 82>> \in Seq(Nat)
    BY <1>1, <1>10 DEF isBright
  <2> QED
    BY <2>2, <2>3, ForegroundAfter, Zenon
<1>11. CASE isNoFront
  <2>1. ~ isDefault /\ ~ isBold /\ ~ isItalic /\ ~ isUnderline /\ ~ isReverse
        /\ ~ isFront /\ ~ isBright /\ ~ isBack /\ ~ isBrightBack /\ ~ isNoBack
    BY <1>1, <1>11 DEF isDefault, isBold, isItalic, isUnderline, isReverse,
                      isFront, isBright, isNoFront, isBack, isBrightBack, isNoBack
  <2>2. q = [pen EXCEPT !.foreground = <<>>] /\ sets = [foreground |-> <<>>]
    BY <1>2, <1>3, <1>11, <2>1, Zenon
  <2>3. <<>> \in Seq(Nat)
    BY <1>1, <1>11 DEF isNoFront
  <2> QED
    BY <2>2, <2>3, ForegroundAfter, Zenon
<1>12. CASE isBack
  <2>1. ~ isDefault /\ ~ isBold /\ ~ isItalic /\ ~ isUnderline /\ ~ isReverse
        /\ ~ isFront /\ ~ isBright /\ ~ isNoFront /\ ~ isBrightBack /\ ~ isNoBack
    BY <1>1, <1>12 DEF isDefault, isBold, isItalic, isUnderline, isReverse,
                      isFront, isBright, isNoFront, isBack, isBrightBack, isNoBack
  <2>2. q = [pen EXCEPT !.background = <<code - 40>>] /\ sets = [background |-> <<code - 40>>]
    BY <1>2, <1>3, <1>12, <2>1, Zenon
  <2>3. <<code - 40>> \in Seq(Nat)
    BY <1>1, <1>12 DEF isBack
  <2> QED
    BY <2>2, <2>3, BackgroundAfter, Zenon
<1>13. CASE isBrightBack
  <2>1. ~ isDefault /\ ~ isBold /\ ~ isItalic /\ ~ isUnderline /\ ~ isReverse
        /\ ~ isFront /\ ~ isBright /\ ~ isNoFront /\ ~ isBack /\ ~ isNoBack
    BY <1>1, <1>13 DEF isDefault, isBold, isItalic, isUnderline, isReverse,
                      isFront, isBright, isNoFront, isBack, isBrightBack, isNoBack
  <2>a. q = [pen EXCEPT !.background = <<code - 100 + 8>>] /\ sets = [background |-> <<code - 92>>]
    BY <1>2, <1>3, <1>13, <2>1, Zenon
  <2>b. code - 90 + 8 = code - 82 /\ code - 100 + 8 = code - 92
    BY <1>1
  <2>2. q = [pen EXCEPT !.background = <<code - 92>>] /\ sets = [background |-> <<code - 92>>]
    BY <2>a, <2>b, Zenon
  <2>3. <<code - 92>> \in Seq(Nat)
    BY <1>1, <1>13 DEF isBrightBack
  <2> QED
    BY <2>2, <2>3, BackgroundAfter, Zenon
<1>14. CASE isNoBack
  <2>1. ~ isDefault /\ ~ isBold /\ ~ isItalic /\ ~ isUnderline /\ ~ isReverse
        /\ ~ isFront /\ ~ isBright /\ ~ isNoFront /\ ~ isBack /\ ~ isBrightBack
    BY <1>1, <1>14 DEF isDefault, isBold, isItalic, isUnderline, isReverse,
                      isFront, isBright, isNoFront, isBack, isBrightBack, isNoBack
  <2>2. q = [pen EXCEPT !.background = <<>>] /\ sets = [background |-> <<>>]
    BY <1>2, <1>3, <1>14, <2>1, Zenon
  <2>3. <<>> \in Seq(Nat)
    BY <1>1, <1>14 DEF isNoBack
  <2> QED
    BY <2>2, <2>3, BackgroundAfter, Zenon
<1>15. CASE ~ isDefault /\ ~ isBold /\ ~ isItalic /\ ~ isUnderline /\ ~ isReverse
            /\ ~ isFront /\ ~ isBright /\ ~ isNoFront /\ ~ isBack /\ ~ isBrightBack
            /\ ~ isNoBack
  <2>1. q = pen /\ sets = <<>>
    BY <1>2, <1>3, <1>15, Zenon
  <2> QED
    BY <2>1, NothingAfter
<1> QED
  BY <1>4, <1>5, <1>6, <1>7, <1>8, <1>9, <1>10, <1>11, <1>12, <1>13, <1>14, <1>15, Zenon

LEMMA ColorSets ==
    ASSUME NEW pen \in Pen, NEW unit, unit.codes \in Seq(Nat), ColorCommand(unit)
    PROVE  LET color == SubSeq(unit.codes, 3, Len(unit.codes))
           IN /\ set_color(pen, unit.codes[1], color) \in Pen
              /\ set_color(pen, unit.codes[1], color) = pen_after(pen, unit.sets)
<1> DEFINE code == unit.codes[1]
           size == Len(unit.codes)
           color == SubSeq(unit.codes, 3, size)
           sets == unit.sets
<1>1. /\ size \in {3, 5}
      /\ \/ code = 38 /\ sets = [foreground |-> color]
         \/ code = 48 /\ sets = [background |-> color]
  BY Zenon DEF ColorCommand
<1>2. color \in Seq(Nat)
  <2>1. 3 \in Int /\ size \in Int /\ \A i \in 3 .. size : unit.codes[i] \in Nat
    BY <1>1
  <2> QED
    BY <2>1, SubSeqProperties
<1> SUFFICES set_color(pen, code, color) \in Pen
             /\ set_color(pen, code, color) = pen_after(pen, sets)
  OBVIOUS
<1> HIDE DEF code, size, color, sets
<1>3. CASE code = 38 /\ sets = [foreground |-> color]
  <2>1. set_color(pen, code, color) = [pen EXCEPT !.foreground = color]
    BY <1>3 DEF set_color
  <2> QED
    BY <1>2, <1>3, <2>1, ForegroundAfter, Zenon
<1>4. CASE code = 48 /\ sets = [background |-> color]
  <2>1. set_color(pen, code, color) = [pen EXCEPT !.background = color]
    BY <1>4 DEF set_color
  <2> QED
    BY <1>2, <1>4, <2>1, BackgroundAfter, Zenon
<1> QED
  BY <1>1, <1>3, <1>4, Zenon

(* The command of a unit is code by code at some place of the values. *)
Placed(unit, values, at) ==
    /\ at \in 1 .. Len(values) /\ at + Len(unit.codes) - 1 <= Len(values)
    /\ \A j \in 1 .. Len(unit.codes) : values[at + j - 1] = unit.codes[j]

LEMMA ExtendedColor ==
    ASSUME NEW unit, NEW values \in Seq(Nat), NEW i \in 1 .. Len(values),
           unit.codes \in Seq(Nat), ColorCommand(unit), Placed(unit, values, i)
    PROVE  parse_extended_color(SubSeq(values, i + 1, Len(values)))
               = {[color |-> SubSeq(unit.codes, 3, Len(unit.codes)),
                   consumed |-> Len(unit.codes) - 1]}
<1> DEFINE size == Len(unit.codes)
           codes == unit.codes
           tail == SubSeq(values, i + 1, Len(values))
           needed == ChannelCount(tail)
           channels == SubSeq(tail, 2, needed + 1)
           color == SubSeq(codes, 3, size)
<1>1. /\ size \in {3, 5} /\ codes[2] = IF size = 3 THEN 5 ELSE 2
      /\ \A k \in 3..size : codes[k] <= 255
  BY Zenon DEF ColorCommand
<1>2. /\ i + size - 1 <= Len(values)
      /\ \A j \in 1 .. size : values[i + j - 1] = codes[j]
  BY Zenon DEF Placed
<1>a. codes \in Seq(Nat) /\ size \in Nat /\ \A k \in 1 .. size : codes[k] \in Nat
  OBVIOUS
<1>b. \A k \in 1 .. Len(values) : values[k] \in Nat
  OBVIOUS
<1>c. \A k \in 3 .. size : codes[k] \in Nat
  BY <1>a
<1> HIDE DEF size, codes
<1>3. /\ tail \in Seq(Nat) /\ Len(tail) = Len(values) - i
      /\ \A j \in 1 .. Len(values) - i : tail[j] = values[i + j]
  <2>1. i + 1 \in Int /\ Len(values) \in Int /\ i + 1 <= Len(values)
        /\ Len(values) - (i + 1) + 1 = Len(values) - i
    BY <1>1, <1>2
  <2>0. \A k \in i + 1 .. Len(values) : values[k] \in Nat
    BY <1>b
  <2>2. \A j \in 1 .. Len(values) - i : i + 1 + j - 1 = i + j
    OBVIOUS
  <2> HIDE DEF tail
  <2>3. /\ tail \in Seq(Nat) /\ Len(tail) = Len(values) - i
        /\ \A j \in 1 .. Len(values) - i : tail[j] = values[i + 1 + j - 1]
    BY <2>0, <2>1, SubSeqProperties DEF tail
  <2> QED
    BY <2>2, <2>3
<1> HIDE DEF tail
<1>4. Len(tail) >= size - 1 /\ \A j \in 1 .. size - 1 : tail[j] = codes[j + 1]
  <2>1. Len(tail) >= size - 1
    BY <1>1, <1>2, <1>3
  <2>2. ASSUME NEW j \in 1 .. size - 1 PROVE tail[j] = codes[j + 1]
    <3>1. j + 1 \in 1 .. size /\ i + (j + 1) - 1 = i + j /\ j \in 1 .. Len(values) - i
      BY <1>1, <1>2
    <3> QED
      BY <1>2, <1>3, <3>1
  <2> QED
    BY <2>1, <2>2
<1>5. needed = size - 2
  <2>1. tail[1] = codes[2] /\ tail # <<>>
    <3>1. 1 \in 1 .. size - 1 /\ 1 + 1 = 2 /\ Len(tail) > 0
      BY <1>1, <1>4
    <3> QED
      BY <1>4, <3>1
  <2>2. needed = IF tail[1] \notin {2, 5} THEN 0 ELSE IF tail[1] = 5 THEN 1 ELSE 3
    BY <2>1, Zenon DEF ChannelCount
  <2> HIDE DEF needed
  <2> QED
    BY <1>1, <2>1, <2>2
<1> HIDE DEF needed
<1>6. /\ channels \in Seq(Nat) /\ Len(channels) = size - 2
      /\ \A j \in 1 .. size - 2 : channels[j] = codes[j + 2]
  <2> DEFINE top == needed + 1
  <2>1. top \in Int /\ 2 <= top /\ top - 2 + 1 = size - 2 /\ top <= Len(tail)
    BY <1>1, <1>4, <1>5
  <2> HIDE DEF top
  <2>2. \A k \in 1 .. Len(tail) : tail[k] \in Nat
    <3>1. tail \in Seq(Nat)
      BY <1>3
    <3> QED
      BY <3>1
  <2>3. \A k \in 2 .. top : tail[k] \in Nat
    <3>1. Len(tail) \in Nat
      BY <1>3
    <3> QED
      BY <2>1, <2>2, <3>1
  <2> DEFINE cut == SubSeq(tail, 2, top)
  <2>4. /\ cut \in Seq(Nat) /\ Len(cut) = size - 2
        /\ \A j \in 1 .. size - 2 : cut[j] = tail[2 + j - 1]
    BY <2>1, <2>3, SubSeqProperties
  <2>5. \A j \in 1 .. size - 2 : 2 + j - 1 = j + 1 /\ j + 1 \in 1 .. size - 1 /\ (j + 1) + 1 = j + 2
    BY <1>1
  <2> HIDE DEF cut
  <2>6. \A j \in 1 .. size - 2 : cut[j] = codes[j + 2]
    BY <1>4, <2>4, <2>5
  <2>7. channels = cut
    BY DEF cut, top
  <2> HIDE DEF channels
  <2> QED
    BY <2>4, <2>6, <2>7
<1>7. /\ color \in Seq(Nat) /\ Len(color) = size - 2
      /\ \A j \in 1 .. size - 2 : color[j] = codes[j + 2]
  <2>1. 3 \in Int /\ size \in Int /\ 3 <= size /\ size - 3 + 1 = size - 2
    BY <1>1
  <2>2. /\ color \in Seq(Nat) /\ Len(color) = size - 2
        /\ \A j \in 1 .. size - 2 : color[j] = codes[3 + j - 1]
    BY <1>c, <2>1, SubSeqProperties
  <2>3. \A j \in 1 .. size - 2 : 3 + j - 1 = j + 2
    BY <1>1
  <2> HIDE DEF color
  <2> QED
    BY <2>2, <2>3
<1> HIDE DEF channels, color
<1>8. channels = color
  <2>1. Len(channels) = Len(color) /\ \A j \in 1 .. Len(channels) : channels[j] = color[j]
    BY <1>6, <1>7
  <2> QED
    BY <1>6, <1>7, <2>1, SeqEqual
<1>9. needed > 0 /\ Len(tail) > needed /\ \A k \in 1..needed : channels[k] <= 255
  <2>1. needed > 0 /\ Len(tail) > needed
    BY <1>1, <1>4, <1>5
  <2>2. \A k \in 1 .. size - 2 : k + 2 \in 3 .. size
    BY <1>1
  <2> QED
    BY <1>1, <1>5, <1>6, <2>1, <2>2
<1>10. parse_extended_color(tail) = {[color |-> channels, consumed |-> needed + 1]}
  BY <1>9, Zenon DEF parse_extended_color, channels, needed
<1>11. needed + 1 = size - 1
  BY <1>1, <1>5
<1> QED
  BY <1>8, <1>10, <1>11, Zenon DEF color, tail, size, codes

(* A turn reads one command, whole, and does to the pen what it says. *)
LEMMA SgrTurn ==
    ASSUME NEW pen \in Pen, NEW unit, NEW values \in Seq(Nat), NEW i \in 1 .. Len(values),
           unit.codes \in Seq(Nat), ColorCommand(unit) \/ NumberCommand(unit),
           Placed(unit, values, i)
    PROVE  /\ pen_after(pen, unit.sets) \in Pen /\ Len(unit.codes) >= 1
           /\ sgr_turn(values, [i |-> i, pen |-> pen])
                  = [i |-> i + Len(unit.codes), pen |-> pen_after(pen, unit.sets)]
<1> DEFINE at == [i |-> i, pen |-> pen]
           code == values[at.i]
           extended == IF code \in {38, 48}
                       THEN parse_extended_color(SubSeq(values, at.i + 1, Len(values))) ELSE {}
           found == CHOOSE e \in extended : TRUE
           size == Len(unit.codes)
           after == pen_after(pen, unit.sets)
<1>1. at.i = i /\ at.pen = pen
  OBVIOUS
<1> HIDE DEF at
<1>2. sgr_turn(values, at) =
          IF extended = {} THEN [i |-> at.i + 1, pen |-> set_attribute(at.pen, code)]
          ELSE [i |-> at.i + found.consumed + 1, pen |-> set_color(at.pen, code, found.color)]
  BY Zenon DEF sgr_turn
<1>3. 1 <= size => code = unit.codes[1]
  <2>1. i + 1 - 1 = i /\ (1 <= size => 1 \in 1 .. size)
    OBVIOUS
  <2> QED
    BY <1>1, <2>1 DEF Placed
<1>4. CASE ColorCommand(unit)
  <2> DEFINE color == SubSeq(unit.codes, 3, size)
  <2>1. size \in {3, 5} /\ unit.codes[1] \in {38, 48}
    BY <1>4 DEF ColorCommand
  <2>2. code = unit.codes[1] /\ code \in {38, 48}
    BY <1>3, <2>1
  <2>3. parse_extended_color(SubSeq(values, i + 1, Len(values)))
            = {[color |-> color, consumed |-> size - 1]}
    BY <1>4, ExtendedColor
  <2>4. set_color(pen, unit.codes[1], color) \in Pen
        /\ set_color(pen, unit.codes[1], color) = after
    BY <1>4, ColorSets
  <2> HIDE DEF color, code, size, after
  <2>5. extended = {[color |-> color, consumed |-> size - 1]}
    BY <1>1, <2>2, <2>3, Zenon
  <2>6. extended # {} /\ found = [color |-> color, consumed |-> size - 1]
    <3> HIDE DEF extended
    <3> QED
      BY <2>5
  <2>7. found.color = color /\ found.consumed = size - 1
    <3> DEFINE less == size - 1
    <3> HIDE DEF found, less
    <3>1. found = [color |-> color, consumed |-> less]
      BY <2>6, Zenon DEF less
    <3> QED
      BY <3>1 DEF less
  <2> HIDE DEF extended, found
  <2>8. sgr_turn(values, at)
            = [i |-> at.i + found.consumed + 1, pen |-> set_color(at.pen, code, found.color)]
    BY <1>2, <2>6, Zenon
  <2>9. i + (size - 1) + 1 = i + size /\ size >= 1
    BY <2>1
  <2>10. sgr_turn(values, at) = [i |-> i + size, pen |-> after]
    BY <1>1, <2>2, <2>4, <2>7, <2>8, <2>9, Zenon
  <2> QED
    BY <2>4, <2>9, <2>10, Zenon DEF size, after, at
<1>5. CASE NumberCommand(unit)
  <2>1. size = 1 /\ unit.codes[1] \notin {38, 48}
    BY <1>5, Zenon DEF NumberCommand
  <2>2. code = unit.codes[1] /\ code \notin {38, 48}
    BY <1>3, <2>1
  <2>3. set_attribute(pen, unit.codes[1]) \in Pen /\ set_attribute(pen, unit.codes[1]) = after
    BY <1>5, NumberSets
  <2> HIDE DEF code, size, after
  <2>4. extended = {}
    BY <2>2, Zenon
  <2>5. sgr_turn(values, at) = [i |-> at.i + 1, pen |-> set_attribute(at.pen, code)]
    BY <1>2, <2>4, Zenon
  <2>6. sgr_turn(values, at) = [i |-> i + size, pen |-> after]
    BY <1>1, <2>1, <2>2, <2>3, <2>5, Zenon
  <2>7. size >= 1
    BY <2>1
  <2> QED
    BY <2>3, <2>6, <2>7, Zenon DEF size, after, at
<1> QED
  BY <1>4, <1>5

Given == Seq(Nat) \ {<<>>}

LEMMA UnitGiven ==
    ASSUME NEW unit \in SgrUnits
    PROVE  /\ unit.codes \in Seq(Nat) /\ (ColorCommand(unit) \/ NumberCommand(unit))
           /\ Len(unit.codes) >= 1 /\ unit.codes \in Given
<1>1. unit.codes \in Seq(Nat) /\ (ColorCommand(unit) \/ NumberCommand(unit))
  BY ConversionsAssumption
<1>2. Len(unit.codes) >= 1
  <2>1. CASE ColorCommand(unit)
    BY <2>1 DEF ColorCommand
  <2>2. CASE NumberCommand(unit)
    <3>1. Len(unit.codes) = 1
      BY <2>2, Zenon DEF NumberCommand
    <3> QED
      BY <3>1
  <2> QED
    BY <1>1, <2>1, <2>2
<1> QED
  BY <1>1, <1>2 DEF Given

(* The parameters as a parser hands them on, flattened, are the codes. *)
LEMMA FlatGiven ==
    ASSUME NEW params \in Seq(Given)
    PROVE  flatten_params(params) = FlattenSeq(params)
<1>1. \A i \in DOMAIN params : params[i] # <<>>
  BY DEF Given
<1>2. params = [i \in DOMAIN params |-> params[i]]
  OBVIOUS
<1>3. [i \in DOMAIN params |-> IF params[i] = <<>> THEN <<0>> ELSE params[i]] = params
  BY <1>1, <1>2, Zenon
<1> QED
  BY <1>3, Zenon DEF flatten_params

(* Two loops side by side: f joins lists of pieces, g what they flatten to. *)
SideBySide(N, lists, codes, f, g) ==
    /\ f[0] = <<>> /\ g[0] = <<>>
    /\ \A k \in 1 .. N : /\ lists[k] \in Seq(Seq(Nat)) /\ f[k - 1] \in Seq(Seq(Nat))
                         /\ f[k] = f[k - 1] \o lists[k]
                         /\ g[k] = g[k - 1] \o codes[k]
                         /\ FlattenSeq(lists[k]) = codes[k]

LEMMA FlattenTwice ==
    ASSUME NEW N \in Nat, NEW lists, NEW codes, NEW f, NEW g, SideBySide(N, lists, codes, f, g)
    PROVE  FlattenSeq(f[N]) = g[N]
<1>0. SUFFICES ASSUME f[0] = <<>>, g[0] = <<>>,
                      \A k \in 1 .. N :
                             /\ lists[k] \in Seq(Seq(Nat)) /\ f[k - 1] \in Seq(Seq(Nat))
                             /\ f[k] = f[k - 1] \o lists[k]
                             /\ g[k] = g[k - 1] \o codes[k]
                             /\ FlattenSeq(lists[k]) = codes[k]
               PROVE  FlattenSeq(f[N]) = g[N]
  BY DEF SideBySide
<1> DEFINE h == [k \in 0 .. N |-> FlattenSeq(f[k])]
<1>1. h[0] = g[0]
  <2>1. FlattenSeq(<<>>) = <<>>
    BY DEF FlattenSeq
  <2>2. 0 \in 0 .. N
    OBVIOUS
  <2>3. h[0] = FlattenSeq(<<>>)
    BY <1>0, <2>2
  <2> HIDE DEF h
  <2> QED
    BY <1>0, <2>1, <2>3
<1>2. ASSUME NEW k \in 1 .. N, h[k - 1] = g[k - 1] PROVE h[k] = g[k]
  <2>1. k \in 0 .. N /\ k - 1 \in 0 .. N
    OBVIOUS
  <2>2. FlattenSeq(f[k - 1] \o lists[k]) = FlattenSeq(f[k - 1]) \o FlattenSeq(lists[k])
    BY <1>0, FlattenConcat
  <2>3. h[k] = FlattenSeq(f[k]) /\ h[k - 1] = FlattenSeq(f[k - 1])
    BY <2>1
  <2> HIDE DEF h
  <2> QED
    BY <1>0, <1>2, <2>2, <2>3
<1>3. N \in 0 .. N /\ \A k \in 1 .. N : h[k - 1] = g[k - 1] => h[k] = g[k]
  BY <1>2
<1> HIDE DEF h
<1>4. \A k \in 0 .. N : h[k] = g[k]
  <2>1. SameSteps(N, h, g)
    BY <1>1, <1>3 DEF SameSteps
  <2>2. SameValues(N, h, g)
    BY <2>1, StepsAgree
  <2> QED
    BY <2>2 DEF SameValues
<1> QED
  BY <1>3, <1>4 DEF h

LEMMA UnitsFlat ==
    ASSUME NEW lists \in Seq(Seq(Given)), NEW codes \in Seq(Seq(Nat)),
           NEW N \in {Len(codes)}
    PROVE  Len(lists) = N /\ (\A k \in 1 .. N : FlattenSeq(lists[k]) = codes[k])
           => flatten_params(FlattenSeq(lists)) = FlattenSeq(codes)
<1>a. SUFFICES ASSUME Len(lists) = N, \A k \in 1 .. N : FlattenSeq(lists[k]) = codes[k]
               PROVE  flatten_params(FlattenSeq(lists)) = FlattenSeq(codes)
  OBVIOUS
<1>0. /\ N \in Nat /\ Len(lists) = N
      /\ \A k \in 1 .. N : lists[k] \in Seq(Given) /\ FlattenSeq(lists[k]) = codes[k]
  BY <1>a
<1>1. PICK f \in Joins(Given, N, lists) : FlattenSeq(lists) = f[N]
  BY <1>0, FlattenRuns
<1>2. PICK g \in Joins(Nat, N, codes) : FlattenSeq(codes) = g[N]
  BY <1>0, FlattenRuns
<1>3. f \in [0 .. N -> Seq(Given)] /\ f[0] = <<>> /\ \A k \in 1 .. N : f[k] = f[k - 1] \o lists[k]
  BY <1>1 DEF Joins
<1>4. g[0] = <<>> /\ \A k \in 1 .. N : g[k] = g[k - 1] \o codes[k]
  BY <1>2 DEF Joins
<1>5. ASSUME NEW k \in 1 .. N
      PROVE  lists[k] \in Seq(Seq(Nat)) /\ f[k - 1] \in Seq(Seq(Nat))
  <2>1. k - 1 \in 0 .. N
    BY <1>0
  <2>2. f[k - 1] \in Seq(Given) /\ lists[k] \in Seq(Given)
    BY <1>0, <1>3, <2>1
  <2>3. Given \subseteq Seq(Nat)
    BY DEF Given
  <2> QED
    BY <2>2, <2>3, SeqWider
<1>6. N \in Nat /\ SideBySide(N, lists, codes, f, g)
  BY <1>0, <1>3, <1>4, <1>5 DEF SideBySide
<1>7. FlattenSeq(f[N]) = g[N]
  BY <1>6, FlattenTwice
<1>8. f[N] \in Seq(Given)
  BY <1>0, <1>3
<1> QED
  BY <1>1, <1>2, <1>7, <1>8, FlatGiven

LEMMA ListFlat ==
    ASSUME NEW codes \in Given
    PROVE  /\ <<codes>> \in Seq(Given) /\ FlattenSeq(<<codes>>) = codes
           /\ [i \in DOMAIN codes |-> <<codes[i]>>] \in Seq(Given)
           /\ FlattenSeq([i \in DOMAIN codes |-> <<codes[i]>>]) = codes
<1>1. codes \in Seq(Nat)
  BY DEF Given
<1>2. <<codes>> \in Seq(Given)
  OBVIOUS
<1>3. FlattenSeq(<<codes>>) = codes
  BY <1>1, FlattenOne
<1>4. /\ [i \in DOMAIN codes |-> <<codes[i]>>] \in Seq(Given)
      /\ FlattenSeq([i \in DOMAIN codes |-> <<codes[i]>>]) = codes
  BY <1>1, FlattenSeparate DEF Given
<1> QED
  BY <1>2, <1>3, <1>4, Zenon

LEMMA ConcatFront ==
    ASSUME NEW s \in Seq(Nat), NEW t \in Seq(Nat)
    PROVE  /\ s \o t \in Seq(Nat) /\ Len(t) \in Nat /\ Len(s \o t) = Len(s) + Len(t)
           /\ \A j \in 1 .. Len(s) : (s \o t)[j] = s[j]
<1>1. Len(s) \in Nat /\ Len(t) \in Nat /\ s \o t \in Seq(Nat) /\ Len(s \o t) = Len(s) + Len(t)
  OBVIOUS
<1>2. \A j \in 1 .. Len(s) : (s \o t)[j] = s[j]
  OBVIOUS
<1> QED
  BY <1>1, <1>2

(* The place of a unit among the values of the sequence. *)
LEMMA UnitPlaced ==
    ASSUME NEW unit, NEW before \in Seq(Nat), NEW rest \in Seq(Nat), NEW codes \in Seq(Nat)
    PROVE  codes = unit.codes /\ Len(codes) >= 1 =>
           LET values == (before \o codes) \o rest
           IN /\ values \in Seq(Nat) /\ Len(before) + 1 \in 1 .. Len(values)
              /\ Placed(unit, values, Len(before) + 1)
<1> DEFINE size == Len(codes)
           b == Len(before)
           front == before \o codes
           values == front \o rest
<1>0. SUFFICES ASSUME codes = unit.codes, Len(codes) >= 1
               PROVE  /\ values \in Seq(Nat) /\ b + 1 \in 1 .. Len(values)
                      /\ Placed(unit, values, b + 1)
  OBVIOUS
<1>1. b \in Nat /\ size \in Nat /\ size >= 1
  BY <1>0
<1>2. /\ front \in Seq(Nat) /\ Len(front) = b + size
      /\ \A j \in 1 .. size : front[b + j] = codes[j]
  OBVIOUS
<1> DEFINE m == Len(front)
<1> HIDE DEF front
<1>3. /\ values \in Seq(Nat) /\ Len(rest) \in Nat /\ Len(values) = m + Len(rest)
      /\ \A j \in 1 .. m : values[j] = front[j]
  <2>1. front \in Seq(Nat)
    BY <1>2
  <2> QED
    BY <2>1, ConcatFront
<1> HIDE DEF size, b, values, m
<1>4. m = b + size
  BY <1>2 DEF m
<1>5. \A j \in 1 .. size : (b + 1) + j - 1 = b + j /\ b + j \in 1 .. m
  BY <1>1, <1>4
<1>6. b + 1 \in 1 .. Len(values) /\ (b + 1) + size - 1 <= Len(values)
  BY <1>1, <1>3, <1>4
<1>7. \A j \in 1 .. size : values[(b + 1) + j - 1] = codes[j]
  BY <1>2, <1>3, <1>5
<1>8. Placed(unit, values, b + 1)
  BY <1>0, <1>6, <1>7 DEF Placed, size
<1> QED
  BY <1>3, <1>6, <1>8

(* What the commands of a sequence make of the pen, one after another. *)
Pens(N, units) ==
    {pens \in [0 .. N -> Pen] :
        pens[0] = FullPen /\ \A k \in 1 .. N : pens[k] = pen_after(pens[k - 1], units[k].sets)}

(* The codes of each unit. *)
Commanded(N, units, codes) ==
    codes \in Seq(Seq(Nat)) /\ Len(codes) = N /\ \A k \in 1 .. N : codes[k] = units[k].codes

AtCommand(g, pens, k) == [i |-> Len(g[k]) + 1, pen |-> pens[k]]

(* The turns of handle_sgr stop at the commands, and at nothing between them. *)
LEMMA SgrTurns ==
    ASSUME NEW N \in Nat, NEW units \in [1 .. N -> SgrUnits], NEW pens \in Pens(N, units),
           NEW codes, Commanded(N, units, codes),
           NEW g \in Joins(Nat, N, codes), NEW k \in 1 .. N
    PROVE  /\ Len(g[k - 1]) + 1 \in 1 .. Len(g[N]) /\ Len(g[k]) > Len(g[k - 1])
           /\ sgr_turn(g[N], AtCommand(g, pens, k - 1)) = AtCommand(g, pens, k)
<1> DEFINE unit == units[k]
           before == g[k - 1]
           values == g[N]
           pen == pens[k - 1]
<1>1. /\ k - 1 \in 0 .. N /\ k \in 0 .. N /\ N \in 0 .. N /\ unit \in SgrUnits
      /\ codes[k] \in Seq(Nat) /\ codes[k] = unit.codes
  BY DEF Commanded
<1>2. g \in [0 .. N -> Seq(Nat)] /\ \A m \in 1 .. N : g[m] = g[m - 1] \o codes[m]
  BY DEF Joins
<1>3. before \in Seq(Nat) /\ values \in Seq(Nat) /\ g[k] = before \o codes[k]
  BY <1>1, <1>2
<1>4. \A m \in 1 .. N : codes[m] \in Seq(Nat)
  BY DEF Commanded
<1>5. PICK rest \in Seq(Nat) : values = g[k] \o rest
  <2>1. k \in 0 .. N /\ \A m \in 1 .. N : codes[m] \in Seq(Nat)
    BY <1>1, <1>4
  <2>2. \E rest \in Seq(Nat) : g[N] = g[k] \o rest
    BY <2>1, JoinedPrefix, Zenon
  <2> QED
    BY <2>2
<1>6. Len(codes[k]) >= 1 /\ unit.codes \in Seq(Nat) /\ (ColorCommand(unit) \/ NumberCommand(unit))
  BY <1>1, UnitGiven
<1>7. pen \in Pen /\ pens[k] = pen_after(pen, unit.sets)
  BY <1>1 DEF Pens
<1> DEFINE cs == codes[k]
<1> HIDE DEF unit, before, values, pen, cs
<1>8. cs = unit.codes /\ cs \in Seq(Nat) /\ Len(cs) >= 1 /\ values = (before \o cs) \o rest
      /\ before \in Seq(Nat) /\ rest \in Seq(Nat) /\ g[k] = before \o cs
  BY <1>1, <1>3, <1>5, <1>6 DEF cs
<1> DEFINE b == Len(before)
<1>9. values \in Seq(Nat) /\ b + 1 \in 1 .. Len(values) /\ Placed(unit, values, b + 1)
  BY <1>8, UnitPlaced
<1>10. Len(g[k]) = b + Len(cs) /\ b \in Nat /\ Len(cs) \in Nat
  BY <1>8, ConcatFront
<1> DEFINE next == b + 1
<1>11. next \in 1 .. Len(values) /\ Placed(unit, values, next)
  BY <1>9
<1> HIDE DEF b, next
<1>12. sgr_turn(values, [i |-> next, pen |-> pen])
           = [i |-> next + Len(unit.codes), pen |-> pen_after(pen, unit.sets)]
  BY <1>6, <1>7, <1>9, <1>11, SgrTurn
<1>13. next + Len(unit.codes) = Len(g[k]) + 1 /\ Len(g[k]) > b
  <2>1. Len(unit.codes) = Len(cs) /\ Len(cs) >= 1
    BY <1>8
  <2> QED
    BY <1>10, <2>1 DEF next
<1>14. AtCommand(g, pens, k - 1) = [i |-> next, pen |-> pen]
  BY DEF AtCommand, next, b, before, pen
<1>15. AtCommand(g, pens, k) = [i |-> next + Len(unit.codes), pen |-> pen_after(pen, unit.sets)]
  BY <1>7, <1>13 DEF AtCommand
<1> QED
  BY <1>9, <1>12, <1>13, <1>14, <1>15 DEF b, before, values

LEMMA LongEnough ==
    ASSUME NEW N \in Nat, NEW g, \A k \in 0 .. N : Len(g[k]) \in Nat,
           \A k \in 1 .. N : Len(g[k]) > Len(g[k - 1])
    PROVE  Len(g[N]) >= N
<1> DEFINE h == [k \in 0 .. N |-> Len(g[k]) - k]
<1>1. h[0] \in Nat
  OBVIOUS
<1>2. ASSUME NEW k \in 1 .. N, h[k - 1] \in Nat PROVE h[k] \in Nat
  <2>1. k \in 0 .. N /\ k - 1 \in 0 .. N
    OBVIOUS
  <2>2. h[k] = Len(g[k]) - k /\ h[k - 1] = Len(g[k - 1]) - (k - 1)
    BY <2>1
  <2>3. Len(g[k]) \in Nat /\ Len(g[k - 1]) \in Nat /\ Len(g[k]) > Len(g[k - 1])
    BY <2>1
  <2> HIDE DEF h
  <2> QED
    BY <1>2, <2>2, <2>3
<1>3. N \in 0 .. N /\ \A k \in 1 .. N : h[k - 1] \in Nat => h[k] \in Nat
  BY <1>2
<1>4. h[N] = Len(g[N]) - N /\ Len(g[N]) \in Nat
  BY <1>3
<1> HIDE DEF h
<1>5. \A k \in 0 .. N : h[k] \in Nat
  BY <1>1, <1>3, StepsKeep
<1> QED
  BY <1>3, <1>4, <1>5

(* So the pen of handle_sgr is what the commands make of it, one by one. *)
LEMMA SgrLoop ==
    ASSUME NEW N \in Nat \ {0}, NEW units \in [1 .. N -> SgrUnits], NEW pens \in Pens(N, units),
           NEW codes, Commanded(N, units, codes), NEW params
    PROVE  flatten_params(params) = FlattenSeq(codes) => handle_sgr(FullPen, params) = pens[N]
<1>0. SUFFICES ASSUME flatten_params(params) = FlattenSeq(codes)
               PROVE  handle_sgr(FullPen, params) = pens[N]
  OBVIOUS
<1>1. PICK g \in Joins(Nat, N, codes) : FlattenSeq(codes) = g[N]
  BY FlattenRuns DEF Commanded
<1> DEFINE values == flatten_params(params)
           L == Len(values)
           start == [i |-> 1, pen |-> FullPen]
           turn(at) == IF at.i > L THEN at ELSE sgr_turn(values, at)
           Def(f) == f = [n \in 0 .. L |->
                             IF n = 0 THEN start
                             ELSE IF f[n - 1].i > L THEN f[n - 1]
                             ELSE sgr_turn(values, f[n - 1])]
           e == CHOOSE f : Def(f)
           goal == [n \in 0 .. L |-> IF n <= N THEN AtCommand(g, pens, n) ELSE AtCommand(g, pens, N)]
<1>2. values = g[N]
  BY <1>0, <1>1
<1>3. handle_sgr(FullPen, params) = IF values = <<>> THEN DefaultPen ELSE e[L].pen
  BY DEF handle_sgr
<1>4. g \in [0 .. N -> Seq(Nat)] /\ g[0] = <<>>
  BY DEF Joins
<1>5. pens[0] = FullPen
  BY DEF Pens
<1> HIDE DEF values
<1>6. ASSUME NEW k \in 1 .. N
      PROVE  /\ AtCommand(g, pens, k - 1).i \in 1 .. L
             /\ Len(g[k]) > Len(g[k - 1])
             /\ sgr_turn(values, AtCommand(g, pens, k - 1)) = AtCommand(g, pens, k)
  <2>1. /\ Len(g[k - 1]) + 1 \in 1 .. Len(g[N]) /\ Len(g[k]) > Len(g[k - 1])
        /\ sgr_turn(g[N], AtCommand(g, pens, k - 1)) = AtCommand(g, pens, k)
    <3>1. N \in Nat
      OBVIOUS
    <3> QED
      BY <3>1, SgrTurns
  <2>2. AtCommand(g, pens, k - 1).i = Len(g[k - 1]) + 1
    BY DEF AtCommand
  <2> QED
    BY <1>2, <2>1, <2>2
<1>7. values \in Seq(Nat) /\ L \in Nat /\ L >= N /\ N \in Nat /\ N > 0
  <2>1. \A k \in 0 .. N : Len(g[k]) \in Nat
    BY <1>4
  <2>2. \A k \in 1 .. N : Len(g[k]) > Len(g[k - 1])
    BY <1>6
  <2>3. N \in Nat /\ N > 0 /\ N \in 0 .. N
    OBVIOUS
  <2>4. Len(g[N]) >= N
    BY <2>1, <2>2, <2>3, LongEnough
  <2> QED
    BY <1>2, <1>4, <2>3, <2>4
<1>8. AtCommand(g, pens, 0) = start
  <2>1. Len(g[0]) = 0
    BY <1>4
  <2> QED
    BY <1>5, <2>1 DEF AtCommand
<1>9. AtCommand(g, pens, N).i > L
  BY <1>2, <1>7 DEF AtCommand
<1>10. values # <<>>
  BY <1>7
<1> HIDE DEF L, start
<1>11. /\ goal[0] = start
       /\ \A n \in 1 .. L : goal[n] = turn(goal[n - 1])
  <2>1. goal[0] = start
    BY <1>7, <1>8
  <2>2. ASSUME NEW n \in 1 .. L PROVE goal[n] = turn(goal[n - 1])
    <3>1. n \in 0 .. L /\ n - 1 \in 0 .. L
      BY <1>7
    <3>2. CASE n <= N
      <4>1. n \in 1 .. N /\ n - 1 <= N
        BY <1>7, <3>2
      <4>2. goal[n] = AtCommand(g, pens, n) /\ goal[n - 1] = AtCommand(g, pens, n - 1)
        BY <3>1, <3>2, <4>1
      <4>3. ~ (AtCommand(g, pens, n - 1).i > L)
        <5>1. AtCommand(g, pens, n - 1).i \in 1 .. L
          BY <1>6, <4>1
        <5> QED
          BY <1>7, <5>1
      <4>4. sgr_turn(values, AtCommand(g, pens, n - 1)) = AtCommand(g, pens, n)
        BY <1>6, <4>1
      <4> HIDE DEF goal
      <4> QED
        BY <4>2, <4>3, <4>4, Zenon
    <3>3. CASE n > N
      <4>1. goal[n] = AtCommand(g, pens, N)
        BY <1>7, <3>1, <3>3
      <4>2. goal[n - 1] = AtCommand(g, pens, N)
        <5>1. n - 1 <= N => n - 1 = N
          BY <1>7, <3>3
        <5> QED
          BY <3>1, <5>1, Zenon
      <4> HIDE DEF goal
      <4> QED
        BY <1>9, <4>1, <4>2, Zenon
    <3> QED
      BY <1>7, <3>2, <3>3
  <2> QED
    BY <2>1, <2>2
<1>12. goal = [n \in 0 .. L |-> goal[n]]
  BY Zenon
<1> HIDE DEF goal
<1>13. \E f : Def(f)
  <2>1. ASSUME NEW n \in 0 .. L
        PROVE  goal[n] = IF n = 0 THEN start
                         ELSE IF goal[n - 1].i > L THEN goal[n - 1]
                         ELSE sgr_turn(values, goal[n - 1])
    <3>1. CASE n = 0
      BY <1>11, <3>1
    <3>2. CASE n # 0
      <4>1. n \in 1 .. L
        BY <1>7, <3>2
      <4> QED
        BY <1>11, <3>2, <4>1, Zenon
    <3> QED
      BY <3>1, <3>2
  <2>2. Def(goal)
    BY <1>12, <2>1, Zenon
  <2> QED
    BY <2>2
<1>14. Def(e)
  BY <1>13
<1> HIDE DEF e
<1>15. e[0] = start /\ \A n \in 1 .. L : e[n] = turn(e[n - 1])
  <2>1. 0 \in 0 .. L
    BY <1>7
  <2>2. e[0] = start
    BY <1>14, <2>1
  <2>3. ASSUME NEW n \in 1 .. L PROVE e[n] = turn(e[n - 1])
    <3>1. n \in 0 .. L /\ n # 0
      BY <1>7
    <3> QED
      BY <1>14, <3>1, Zenon
  <2> QED
    BY <2>2, <2>3
<1>16. \A n \in 0 .. L : e[n] = goal[n]
  <2>1. e[0] = goal[0]
    BY <1>7, <1>11, <1>15
  <2>3. L \in Nat
    BY <1>7
  <2> HIDE DEF turn
  <2>2. \A n \in 1 .. L : e[n - 1] = goal[n - 1] => e[n] = goal[n]
    BY <1>11, <1>15
  <2>4. SameSteps(L, e, goal)
    BY <2>1, <2>2 DEF SameSteps
  <2>5. SameValues(L, e, goal)
    BY <2>3, <2>4, StepsAgree
  <2> QED
    BY <2>5 DEF SameValues
<1>17. goal[L] = AtCommand(g, pens, N)
  <2>1. L \in 0 .. L /\ (L <= N => L = N)
    BY <1>7
  <2> QED
    BY <2>1, Zenon DEF goal
<1>18. e[L].pen = pens[N]
  <2>1. L \in 0 .. L
    BY <1>7
  <2>2. e[L] = AtCommand(g, pens, N)
    BY <1>16, <1>17, <2>1
  <2> QED
    BY <2>2 DEF AtCommand
<1> QED
  BY <1>3, <1>10, <1>18, Zenon

LEMMA FullPenIsPen == FullPen \in Pen
BY DEF FullPen, Pen

LEMMA UnitAfter ==
    ASSUME NEW pen \in Pen, NEW unit \in SgrUnits
    PROVE  pen_after(pen, unit.sets) \in Pen
<1>1. unit.codes \in Seq(Nat) /\ (ColorCommand(unit) \/ NumberCommand(unit))
  BY UnitGiven
<1>2. CASE ColorCommand(unit)
  BY <1>1, <1>2, ColorSets
<1>3. CASE NumberCommand(unit)
  BY <1>1, <1>3, NumberSets
<1> QED
  BY <1>1, <1>2, <1>3

(* There is such a list of pens, and only one. *)
LEMMA PensOf ==
    ASSUME NEW N \in Nat, NEW units \in [1 .. N -> SgrUnits]
    PROVE  \A e : (e = CHOOSE f : f = [n \in 0 .. N |->
                          IF n = 0 THEN FullPen ELSE pen_after(f[n - 1], units[n].sets)])
                  => e \in Pens(N, units)
<1> DEFINE Def(f) == f = [n \in 0 .. N |->
                             IF n = 0 THEN FullPen ELSE pen_after(f[n - 1], units[n].sets)]
           next == [k \in 1 .. N |-> [p \in Pen |-> pen_after(p, units[k].sets)]]
<1> SUFFICES ASSUME NEW e, e = CHOOSE f : Def(f)
             PROVE  e \in Pens(N, units)
  OBVIOUS
<1>1. \A k \in 1 .. N, p \in Pen : pen_after(p, units[k].sets) \in Pen
  <2>1. \A k \in 1 .. N : units[k] \in SgrUnits
    OBVIOUS
  <2> QED
    BY <2>1, UnitAfter
<1>2. next \in [1 .. N -> [Pen -> Pen]]
  BY <1>1
<1> HIDE DEF next
<1>3. PICK f : f \in Runs(Pen, FullPen, N, next)
  BY <1>2, FullPenIsPen, RecursionExists
<1>4. f \in [0 .. N -> Pen] /\ f[0] = FullPen /\ \A k \in 1 .. N : f[k] = next[k][f[k - 1]]
  BY <1>3 DEF Runs
<1>5. ASSUME NEW k \in 1 .. N PROVE f[k] = pen_after(f[k - 1], units[k].sets)
  <2>1. f[k - 1] \in Pen
    BY <1>4
  <2>2. f[k] = next[k][f[k - 1]]
    BY <1>4
  <2> QED
    BY <2>1, <2>2, Zenon DEF next
<1>6. Def(f)
  <2>1. ASSUME NEW n \in 0 .. N
        PROVE  f[n] = IF n = 0 THEN FullPen ELSE pen_after(f[n - 1], units[n].sets)
    <3>1. CASE n = 0
      BY <1>4, <3>1
    <3>2. CASE n # 0
      <4>1. n \in 1 .. N
        BY <3>2
      <4> QED
        BY <1>5, <3>2, <4>1, Zenon
    <3> QED
      BY <3>1, <3>2
  <2>2. f = [n \in 0 .. N |-> f[n]]
    BY <1>4
  <2> QED
    BY <2>1, <2>2, Zenon
<1>7. Def(e)
  BY <1>6, Zenon
<1>8. e[0] = FullPen /\ \A k \in 1 .. N : e[k] = pen_after(e[k - 1], units[k].sets)
  <2>1. 0 \in 0 .. N
    OBVIOUS
  <2>2. e[0] = FullPen
    BY <1>7, <2>1
  <2>3. ASSUME NEW k \in 1 .. N PROVE e[k] = pen_after(e[k - 1], units[k].sets)
    <3>1. k \in 0 .. N /\ k # 0
      OBVIOUS
    <3> QED
      BY <1>7, <3>1, Zenon
  <2> QED
    BY <2>2, <2>3
<1>9. \A k \in 0 .. N : e[k] \in Pen
  <2>1. e[0] \in Pen
    BY <1>8, FullPenIsPen
  <2>2. \A k \in 1 .. N : e[k - 1] \in Pen => e[k] \in Pen
    BY <1>1, <1>8, Zenon
  <2> QED
    BY <2>1, <2>2, StepsKeep
<1>10. e \in [0 .. N -> Pen]
  <2>1. e = [n \in 0 .. N |-> e[n]]
    BY <1>7, Zenon
  <2> QED
    BY <1>9, <2>1
<1> QED
  BY <1>8, <1>10 DEF Pens

LEMMA SgrSampled == TakeSgr => PenFollowsSgr'
<1> SUFFICES ASSUME NEW units \in Lists(SgrUnits, MaxUnits), NEW colons \in BOOLEAN,
                    sample' = [of |-> "sgr", units |-> units, colons |-> colons]
             PROVE  PenFollowsSgr'
  BY Zenon DEF TakeSgr
<1> DEFINE N == Len(units)
           separate(codes) == [i \in DOMAIN codes |-> <<codes[i]>>]
           params(i) == IF colons /\ i = N THEN <<units[i].codes>> ELSE separate(units[i].codes)
           lists == [i \in DOMAIN units |-> params(i)]
           codes == [i \in 1 .. N |-> units[i].codes]
           e == CHOOSE f : f = [n \in 0 .. N |->
                          IF n = 0 THEN FullPen ELSE pen_after(f[n - 1], units[n].sets)]
<1>1. sample'.units = units /\ sample'.colons = colons
  OBVIOUS
<1>2. units \in Seq(SgrUnits)
  <2>1. MaxUnits \in Nat
    BY ConversionsAssumption
  <2> QED
    BY <2>1, ListTyped
<1>3. N \in Nat /\ units \in [1 .. N -> SgrUnits] /\ DOMAIN units = 1 .. N
  BY <1>2
<1> HIDE DEF N
<1>4. e \in Pens(N, units)
  BY <1>3, PensOf
<1>5. \A k \in 1 .. N : units[k].codes \in Given /\ units[k].codes \in Seq(Nat)
  <2>1. \A k \in 1 .. N : units[k] \in SgrUnits
    BY <1>3
  <2> QED
    BY <2>1, UnitGiven
<1>6. Commanded(N, units, codes)
  BY <1>3, <1>5 DEF Commanded
<1>7. ASSUME NEW k \in 1 .. N
      PROVE  params(k) \in Seq(Given) /\ FlattenSeq(params(k)) = units[k].codes
  <2>1. units[k].codes \in Given
    BY <1>5
  <2> QED
    BY <2>1, ListFlat, Zenon
<1>8. lists \in Seq(Seq(Given)) /\ Len(lists) = N /\ \A k \in 1 .. N : lists[k] = params(k)
  <2> HIDE DEF params
  <2> QED
    BY <1>3, <1>7
<1> HIDE DEF e
<1>9. flatten_params(FlattenSeq(lists)) = FlattenSeq(codes)
  <2>1. codes \in Seq(Seq(Nat)) /\ Len(codes) = N /\ \A k \in 1 .. N : codes[k] = units[k].codes
    BY <1>6 DEF Commanded
  <2> HIDE DEF lists, codes, params
  <2>2. \A k \in 1 .. N : FlattenSeq(lists[k]) = codes[k]
    BY <1>7, <1>8, <2>1
  <2>3. N \in {Len(codes)}
    BY <2>1
  <2> QED
    BY <1>8, <2>1, <2>2, <2>3, UnitsFlat
<1> HIDE DEF lists, codes, params
<1>10. units # <<>> => handle_sgr(FullPen, FlattenSeq(lists)) = e[N]
  <2>1. units # <<>> => N \in Nat \ {0}
    BY <1>2 DEF N
  <2> QED
    BY <1>3, <1>4, <1>6, <1>9, <2>1, SgrLoop
<1>11. PenFollowsSgr' = ((sample'.of = "sgr") =>
           (units # <<>> => handle_sgr(FullPen, FlattenSeq(lists)) = e[N]))
  BY <1>1 DEF PenFollowsSgr, lists, params, e, N
<1> QED
  BY <1>10, <1>11

-----------------------------------------------------------------------------
(* The bits of a clipboard payload, and the bytes of a group of four.         *)

(* The bits of a character, and the bytes that eight of them make. *)
Stream(P, k) == Bit(P[(k \div 6) + 1], <<32, 16, 8, 4, 2, 1>>[(k % 6) + 1])
ByteAt(P, j) == Value([k \in 1..8 |-> Stream(P, 8 * (j - 1) + k - 1)], 2)

LEMMA BitRange ==
    ASSUME NEW b \in Nat
    PROVE  \A w \in {32, 16, 8, 4, 2, 1} : Bit(b, w) \in 0..1
BY DEF Bit

LEMMA SixBits ==
    ASSUME NEW b \in 0..63
    PROVE  /\ b = 32 * Bit(b, 32) + 16 * Bit(b, 16) + 8 * Bit(b, 8)
                      + 4 * Bit(b, 4) + 2 * Bit(b, 2) + Bit(b, 1)
           /\ b \div 16 = 2 * Bit(b, 32) + Bit(b, 16)
           /\ b \div 4 = 8 * Bit(b, 32) + 4 * Bit(b, 16) + 2 * Bit(b, 8) + Bit(b, 4)
<1>1. b \in Nat /\ b < 64
  OBVIOUS
<1>2. b \div 32 = Bit(b, 32) /\ b \div 1 = b
  BY DEF Bit
<1>3. b \div 16 = 2 * (b \div 32) + Bit(b, 16)
  BY DEF Bit
<1>4. b \div 8 = 2 * (b \div 16) + Bit(b, 8)
  BY DEF Bit
<1>5. b \div 4 = 2 * (b \div 8) + Bit(b, 4)
  BY DEF Bit
<1>6. b \div 2 = 2 * (b \div 4) + Bit(b, 2)
  BY DEF Bit
<1>7. b = 2 * (b \div 2) + Bit(b, 1)
  BY DEF Bit
<1>8. b \div 16 \in Nat /\ b \div 8 \in Nat /\ b \div 4 \in Nat /\ b \div 2 \in Nat /\ b \div 32 \in Nat
  OBVIOUS
<1>9. Bit(b, 32) \in Nat /\ Bit(b, 16) \in Nat /\ Bit(b, 8) \in Nat /\ Bit(b, 4) \in Nat
      /\ Bit(b, 2) \in Nat /\ Bit(b, 1) \in Nat
  BY BitRange
<1>10. b \div 16 = 2 * Bit(b, 32) + Bit(b, 16)
  BY <1>2, <1>3
<1> DEFINE x5 == Bit(b, 32)  x4 == Bit(b, 16)  x3 == Bit(b, 8)
           x2 == Bit(b, 4)  x1 == Bit(b, 2)  x0 == Bit(b, 1)
           h1 == b \div 2  h2 == b \div 4  h3 == b \div 8  h4 == b \div 16
<1>11. /\ b \in Nat /\ h1 \in Nat /\ h2 \in Nat /\ h3 \in Nat /\ h4 \in Nat
       /\ x0 \in Nat /\ x1 \in Nat /\ x2 \in Nat /\ x3 \in Nat /\ x4 \in Nat /\ x5 \in Nat
  BY <1>1, <1>8, <1>9
<1>12. b = 2 * h1 + x0 /\ h1 = 2 * h2 + x1 /\ h2 = 2 * h3 + x2 /\ h3 = 2 * h4 + x3
       /\ h4 = 2 * x5 + x4
  BY <1>4, <1>5, <1>6, <1>7, <1>10
<1> HIDE DEF x5, x4, x3, x2, x1, x0, h1, h2, h3, h4
<1>13. /\ b = 32 * x5 + 16 * x4 + 8 * x3 + 4 * x2 + 2 * x1 + x0
       /\ h2 = 8 * x5 + 4 * x4 + 2 * x3 + x2
  BY <1>11, <1>12
<1> QED
  BY <1>10, <1>13, Zenon DEF x5, x4, x3, x2, x1, x0, h2

LEMMA EightLong ==
    ASSUME NEW s, s = [k \in 1..8 |-> s[k]], \A k \in 1..8 : s[k] \in Nat
    PROVE  s \in Seq(Nat) /\ Len(s) = 8
<1>1. s \in [1..8 -> Nat]
  OBVIOUS
<1> DEFINE N == 8
<1>2. N \in Nat /\ s \in [1..N -> Nat]
  BY <1>1
<1> HIDE DEF N
<1>3. s \in Seq(Nat) /\ Len(s) = N
  BY <1>2
<1> QED
  BY <1>3 DEF N

LEMMA ValueOfEight ==
    ASSUME NEW s \in [1..8 -> 0..1]
    PROVE  Value(s, 2) = 128 * s[1] + 64 * s[2] + 32 * s[3] + 16 * s[4]
                             + 8 * s[5] + 4 * s[6] + 2 * s[7] + s[8]
<1>0. s \in [1..8 -> Nat]
  OBVIOUS
<1>1. s \in Seq(Nat) /\ Len(s) = 8
  <2>1. s = [k \in 1..8 |-> s[k]] /\ 8 \in Nat
    BY <1>0
  <2>2. \A k \in 1..8 : s[k] \in Nat
    BY <1>0
  <2> QED
    BY <2>1, <2>2, EightLong
<1>2. \A k \in 1..8 : s[k] \in Nat
  OBVIOUS
<1>3. PICK f \in [0 .. Len(s) -> Nat] :
          /\ f[0] = 0 /\ \A k \in 1 .. Len(s) : f[k] = 2 * f[k - 1] + s[k]
          /\ Value(s, 2) = f[Len(s)]
  BY <1>1, ValueRuns
<1>4. f[0] = 0 /\ (\A k \in 1..8 : f[k] = 2 * f[k - 1] + s[k]) /\ Value(s, 2) = f[8]
      /\ \A k \in 0..8 : f[k] \in Nat
  BY <1>1, <1>3
<1>5. \A k \in 1..8 : k \in 0..8
  OBVIOUS
<1>6. /\ f[1] \in Nat /\ f[2] \in Nat /\ f[3] \in Nat /\ f[4] \in Nat
      /\ f[5] \in Nat /\ f[6] \in Nat /\ f[7] \in Nat /\ f[8] \in Nat
  BY <1>4, <1>5
<1>7. /\ s[1] \in Nat /\ s[2] \in Nat /\ s[3] \in Nat /\ s[4] \in Nat
      /\ s[5] \in Nat /\ s[6] \in Nat /\ s[7] \in Nat /\ s[8] \in Nat
  BY <1>2
<1> DEFINE a1 == f[1]  a2 == f[2]  a3 == f[3]  a4 == f[4]
           a5 == f[5]  a6 == f[6]  a7 == f[7]  a8 == f[8]
           s1 == s[1]  s2 == s[2]  s3 == s[3]  s4 == s[4]
           s5 == s[5]  s6 == s[6]  s7 == s[7]  s8 == s[8]
<1> DEFINE step(k) == f[k] = 2 * f[k - 1] + s[k]
<1>8. step(1) /\ step(2) /\ step(3) /\ step(4) /\ step(5) /\ step(6) /\ step(7) /\ step(8)
  <2>1. \A k \in 1..8 : step(k)
    BY <1>4
  <2> HIDE DEF step
  <2> QED
    BY <2>1
<1>9. a1 = s1
  BY <1>4, <1>7, <1>8
<1>10. /\ a2 = 2 * a1 + s2 /\ a3 = 2 * a2 + s3 /\ a4 = 2 * a3 + s4 /\ a5 = 2 * a4 + s5
       /\ a6 = 2 * a5 + s6 /\ a7 = 2 * a6 + s7 /\ a8 = 2 * a7 + s8
  BY <1>8
<1>12. /\ a1 \in Nat /\ a2 \in Nat /\ a3 \in Nat /\ a4 \in Nat
       /\ a5 \in Nat /\ a6 \in Nat /\ a7 \in Nat /\ a8 \in Nat
       /\ s1 \in Nat /\ s2 \in Nat /\ s3 \in Nat /\ s4 \in Nat
       /\ s5 \in Nat /\ s6 \in Nat /\ s7 \in Nat /\ s8 \in Nat
  BY <1>6, <1>7
<1> HIDE DEF a1, a2, a3, a4, a5, a6, a7, a8, s1, s2, s3, s4, s5, s6, s7, s8
<1>11. a8 = 128 * s1 + 64 * s2 + 32 * s3 + 16 * s4 + 8 * s5 + 4 * s6 + 2 * s7 + s8
  <2>1. a4 = 8 * s1 + 4 * s2 + 2 * s3 + s4
    BY <1>9, <1>10, <1>12
  <2>2. a8 = 16 * a4 + 8 * s5 + 4 * s6 + 2 * s7 + s8
    BY <1>10, <1>12
  <2> QED
    BY <1>12, <2>1, <2>2
<1> QED
  BY <1>4, <1>11, Zenon DEF a8, s1, s2, s3, s4, s5, s6, s7, s8

LEMMA StreamIndex ==
    ASSUME NEW q \in Nat, NEW c \in 0..23
    PROVE  (24 * q + c) \div 6 = 4 * q + (c \div 6) /\ (24 * q + c) % 6 = c % 6
OBVIOUS

LEMMA StreamAt ==
    ASSUME NEW P, NEW q \in Nat, NEW c \in 0..23
    PROVE  Stream(P, 24 * q + c)
               = Bit(P[4 * q + (c \div 6) + 1], <<32, 16, 8, 4, 2, 1>>[(c % 6) + 1])
BY StreamIndex, Zenon DEF Stream

Weight == <<32, 16, 8, 4, 2, 1>>

LEMMA StreamBit ==
    ASSUME NEW P, NEW q \in Nat, NEW t \in 0..3, NEW u \in 0..5
    PROVE  Stream(P, 24 * q + (6 * t + u)) = Bit(P[4 * q + (t + 1)], Weight[u + 1])
<1>1. 6 * t + u \in 0..23 /\ (6 * t + u) \div 6 = t /\ (6 * t + u) % 6 = u
  OBVIOUS
<1>2. Stream(P, 24 * q + (6 * t + u))
          = Bit(P[4 * q + ((6 * t + u) \div 6) + 1], Weight[((6 * t + u) % 6) + 1])
  BY <1>1, StreamAt DEF Weight
<1>3. 4 * q + t + 1 = 4 * q + (t + 1)
  OBVIOUS
<1> QED
  BY <1>1, <1>2, <1>3

(* The bits of the byte r of the group q. *)
LEMMA ByteBits ==
    ASSUME NEW P, NEW q \in Nat, NEW r \in 1..3,
           NEW s, s = [k \in 1..8 |-> Stream(P, 24 * q + (8 * (r - 1) + (k - 1)))]
    PROVE  ByteAt(P, 3 * q + r) = Value(s, 2)
<1>1. \A k \in 1..8 : 8 * ((3 * q + r) - 1) + k - 1 = 24 * q + (8 * (r - 1) + (k - 1))
  OBVIOUS
<1>2. [k \in 1..8 |-> Stream(P, 8 * ((3 * q + r) - 1) + k - 1)] = s
  BY <1>1
<1> QED
  BY <1>2, Zenon DEF ByteAt

LEMMA Weights ==
    /\ Weight[1] = 32 /\ Weight[2] = 16 /\ Weight[3] = 8
    /\ Weight[4] = 4 /\ Weight[5] = 2 /\ Weight[6] = 1
BY DEF Weight

LEMMA FirstByte ==
    ASSUME NEW P, NEW q \in Nat, P[4 * q + 1] \in 0..63, P[4 * q + 2] \in 0..63
    PROVE  ByteAt(P, 3 * q + 1) = (4 * P[4 * q + 1] + (P[4 * q + 2] \div 16)) % 256
<1> DEFINE s == [k \in 1..8 |-> Stream(P, 24 * q + (8 * (1 - 1) + (k - 1)))]
           x == P[4 * q + 1]
           y == P[4 * q + 2]
<1>1. s[1] = Bit(x, 32)
  <2>1. 8 * (1 - 1) + (1 - 1) = 6 * 0 + 0 /\ 0 \in 0..3 /\ 0 \in 0..5 /\ 0 + 1 = 1 /\ 0 + 1 = 1
    OBVIOUS
  <2>2. Stream(P, 24 * q + (6 * 0 + 0)) = Bit(P[4 * q + (0 + 1)], Weight[0 + 1])
    BY <2>1, StreamBit
  <2>3. s[1] = Stream(P, 24 * q + (8 * (1 - 1) + (1 - 1)))
    OBVIOUS
  <2> HIDE DEF s
  <2> QED
    BY <2>1, <2>2, <2>3, Weights
<1>2. s[2] = Bit(x, 16)
  <2>1. 8 * (1 - 1) + (2 - 1) = 6 * 0 + 1 /\ 0 \in 0..3 /\ 1 \in 0..5 /\ 0 + 1 = 1 /\ 1 + 1 = 2
    OBVIOUS
  <2>2. Stream(P, 24 * q + (6 * 0 + 1)) = Bit(P[4 * q + (0 + 1)], Weight[1 + 1])
    BY <2>1, StreamBit
  <2>3. s[2] = Stream(P, 24 * q + (8 * (1 - 1) + (2 - 1)))
    OBVIOUS
  <2> HIDE DEF s
  <2> QED
    BY <2>1, <2>2, <2>3, Weights
<1>3. s[3] = Bit(x, 8)
  <2>1. 8 * (1 - 1) + (3 - 1) = 6 * 0 + 2 /\ 0 \in 0..3 /\ 2 \in 0..5 /\ 0 + 1 = 1 /\ 2 + 1 = 3
    OBVIOUS
  <2>2. Stream(P, 24 * q + (6 * 0 + 2)) = Bit(P[4 * q + (0 + 1)], Weight[2 + 1])
    BY <2>1, StreamBit
  <2>3. s[3] = Stream(P, 24 * q + (8 * (1 - 1) + (3 - 1)))
    OBVIOUS
  <2> HIDE DEF s
  <2> QED
    BY <2>1, <2>2, <2>3, Weights
<1>4. s[4] = Bit(x, 4)
  <2>1. 8 * (1 - 1) + (4 - 1) = 6 * 0 + 3 /\ 0 \in 0..3 /\ 3 \in 0..5 /\ 0 + 1 = 1 /\ 3 + 1 = 4
    OBVIOUS
  <2>2. Stream(P, 24 * q + (6 * 0 + 3)) = Bit(P[4 * q + (0 + 1)], Weight[3 + 1])
    BY <2>1, StreamBit
  <2>3. s[4] = Stream(P, 24 * q + (8 * (1 - 1) + (4 - 1)))
    OBVIOUS
  <2> HIDE DEF s
  <2> QED
    BY <2>1, <2>2, <2>3, Weights
<1>5. s[5] = Bit(x, 2)
  <2>1. 8 * (1 - 1) + (5 - 1) = 6 * 0 + 4 /\ 0 \in 0..3 /\ 4 \in 0..5 /\ 0 + 1 = 1 /\ 4 + 1 = 5
    OBVIOUS
  <2>2. Stream(P, 24 * q + (6 * 0 + 4)) = Bit(P[4 * q + (0 + 1)], Weight[4 + 1])
    BY <2>1, StreamBit
  <2>3. s[5] = Stream(P, 24 * q + (8 * (1 - 1) + (5 - 1)))
    OBVIOUS
  <2> HIDE DEF s
  <2> QED
    BY <2>1, <2>2, <2>3, Weights
<1>6. s[6] = Bit(x, 1)
  <2>1. 8 * (1 - 1) + (6 - 1) = 6 * 0 + 5 /\ 0 \in 0..3 /\ 5 \in 0..5 /\ 0 + 1 = 1 /\ 5 + 1 = 6
    OBVIOUS
  <2>2. Stream(P, 24 * q + (6 * 0 + 5)) = Bit(P[4 * q + (0 + 1)], Weight[5 + 1])
    BY <2>1, StreamBit
  <2>3. s[6] = Stream(P, 24 * q + (8 * (1 - 1) + (6 - 1)))
    OBVIOUS
  <2> HIDE DEF s
  <2> QED
    BY <2>1, <2>2, <2>3, Weights
<1>7. s[7] = Bit(y, 32)
  <2>1. 8 * (1 - 1) + (7 - 1) = 6 * 1 + 0 /\ 1 \in 0..3 /\ 0 \in 0..5 /\ 1 + 1 = 2 /\ 0 + 1 = 1
    OBVIOUS
  <2>2. Stream(P, 24 * q + (6 * 1 + 0)) = Bit(P[4 * q + (1 + 1)], Weight[0 + 1])
    BY <2>1, StreamBit
  <2>3. s[7] = Stream(P, 24 * q + (8 * (1 - 1) + (7 - 1)))
    OBVIOUS
  <2> HIDE DEF s
  <2> QED
    BY <2>1, <2>2, <2>3, Weights
<1>8. s[8] = Bit(y, 16)
  <2>1. 8 * (1 - 1) + (8 - 1) = 6 * 1 + 1 /\ 1 \in 0..3 /\ 1 \in 0..5 /\ 1 + 1 = 2 /\ 1 + 1 = 2
    OBVIOUS
  <2>2. Stream(P, 24 * q + (6 * 1 + 1)) = Bit(P[4 * q + (1 + 1)], Weight[1 + 1])
    BY <2>1, StreamBit
  <2>3. s[8] = Stream(P, 24 * q + (8 * (1 - 1) + (8 - 1)))
    OBVIOUS
  <2> HIDE DEF s
  <2> QED
    BY <2>1, <2>2, <2>3, Weights
<1>9. x \in 0..63 /\ y \in 0..63 /\ x \in Nat /\ y \in Nat
  OBVIOUS
<1>10. s \in [1..8 -> 0..1]
  <2>1. /\ \A w \in {32, 16, 8, 4, 2, 1} : Bit(x, w) \in 0..1
        /\ \A w \in {32, 16, 8, 4, 2, 1} : Bit(y, w) \in 0..1
    BY <1>9, BitRange
  <2>2. s = [k \in 1..8 |-> s[k]]
    BY Zenon
  <2> HIDE DEF s, x, y
  <2>3. \A k \in 1..8 : s[k] \in 0..1
    BY <1>1, <1>2, <1>3, <1>4, <1>5, <1>6, <1>7, <1>8, <2>1
  <2> QED
    BY <2>2, <2>3
<1>11. ByteAt(P, 3 * q + 1) = Value(s, 2)
  BY ByteBits
<1>12. Value(s, 2) = 128 * s[1] + 64 * s[2] + 32 * s[3] + 16 * s[4]
                        + 8 * s[5] + 4 * s[6] + 2 * s[7] + s[8]
  BY <1>10, ValueOfEight
<1> HIDE DEF s, x, y
<1>13. /\ x = 32 * Bit(x, 32) + 16 * Bit(x, 16) + 8 * Bit(x, 8)
                 + 4 * Bit(x, 4) + 2 * Bit(x, 2) + Bit(x, 1)
       /\ y = 32 * Bit(y, 32) + 16 * Bit(y, 16) + 8 * Bit(y, 8)
                 + 4 * Bit(y, 4) + 2 * Bit(y, 2) + Bit(y, 1)
       /\ y \div 16 = 2 * Bit(y, 32) + Bit(y, 16)
       /\ y \div 4 = 8 * Bit(y, 32) + 4 * Bit(y, 16) + 2 * Bit(y, 8) + Bit(y, 4)
  BY <1>9, SixBits
<1> DEFINE x5 == Bit(x, 32)  x4 == Bit(x, 16)  x3 == Bit(x, 8)
           x2 == Bit(x, 4)  x1 == Bit(x, 2)  x0 == Bit(x, 1)
           y5 == Bit(y, 32)  y4 == Bit(y, 16)  y3 == Bit(y, 8)
           y2 == Bit(y, 4)  y1 == Bit(y, 2)  y0 == Bit(y, 1)
           v == Value(s, 2)
<1>14. /\ x5 \in 0..1 /\ x4 \in 0..1 /\ x3 \in 0..1 /\ x2 \in 0..1 /\ x1 \in 0..1 /\ x0 \in 0..1
       /\ y5 \in 0..1 /\ y4 \in 0..1 /\ y3 \in 0..1 /\ y2 \in 0..1 /\ y1 \in 0..1 /\ y0 \in 0..1
  BY <1>9, BitRange
<1>15. /\ x = 32 * x5 + 16 * x4 + 8 * x3 + 4 * x2 + 2 * x1 + x0
       /\ y = 32 * y5 + 16 * y4 + 8 * y3 + 4 * y2 + 2 * y1 + y0
       /\ y \div 16 = 2 * y5 + y4
       /\ y \div 4 = 8 * y5 + 4 * y4 + 2 * y3 + y2
  BY <1>13
<1>16. v = 128 * x5 + 64 * x4 + 32 * x3 + 16 * x2 + 8 * x1 + 4 * x0 + 2 * y5 + y4
  <2>1. s[1] = x5 /\ s[2] = x4 /\ s[3] = x3 /\ s[4] = x2 /\ s[5] = x1 /\ s[6] = x0 /\ s[7] = y5 /\ s[8] = y4
    BY <1>1, <1>2, <1>3, <1>4, <1>5, <1>6, <1>7, <1>8
  <2> QED
    BY <1>12, <2>1, Zenon
<1> HIDE DEF x5, x4, x3, x2, x1, x0, y5, y4, y3, y2, y1, y0, v
<1>17. v = 4 * x + (y \div 16) /\ v \in 0..255
  BY <1>14, <1>15, <1>16
<1>18. v = (4 * x + (y \div 16)) % 256
  BY <1>17
<1> QED
  BY <1>11, <1>18, Zenon DEF v, x, y

LEMMA SecondByte ==
    ASSUME NEW P, NEW q \in Nat, P[4 * q + 2] \in 0..63, P[4 * q + 3] \in 0..63
    PROVE  ByteAt(P, 3 * q + 2) = (16 * P[4 * q + 2] + (P[4 * q + 3] \div 4)) % 256
<1> DEFINE s == [k \in 1..8 |-> Stream(P, 24 * q + (8 * (2 - 1) + (k - 1)))]
           x == P[4 * q + 2]
           y == P[4 * q + 3]
<1>1. s[1] = Bit(x, 8)
  <2>1. 8 * (2 - 1) + (1 - 1) = 6 * 1 + 2 /\ 1 \in 0..3 /\ 2 \in 0..5 /\ 1 + 1 = 2 /\ 2 + 1 = 3
    OBVIOUS
  <2>2. Stream(P, 24 * q + (6 * 1 + 2)) = Bit(P[4 * q + (1 + 1)], Weight[2 + 1])
    BY <2>1, StreamBit
  <2>3. s[1] = Stream(P, 24 * q + (8 * (2 - 1) + (1 - 1)))
    OBVIOUS
  <2> HIDE DEF s
  <2> QED
    BY <2>1, <2>2, <2>3, Weights
<1>2. s[2] = Bit(x, 4)
  <2>1. 8 * (2 - 1) + (2 - 1) = 6 * 1 + 3 /\ 1 \in 0..3 /\ 3 \in 0..5 /\ 1 + 1 = 2 /\ 3 + 1 = 4
    OBVIOUS
  <2>2. Stream(P, 24 * q + (6 * 1 + 3)) = Bit(P[4 * q + (1 + 1)], Weight[3 + 1])
    BY <2>1, StreamBit
  <2>3. s[2] = Stream(P, 24 * q + (8 * (2 - 1) + (2 - 1)))
    OBVIOUS
  <2> HIDE DEF s
  <2> QED
    BY <2>1, <2>2, <2>3, Weights
<1>3. s[3] = Bit(x, 2)
  <2>1. 8 * (2 - 1) + (3 - 1) = 6 * 1 + 4 /\ 1 \in 0..3 /\ 4 \in 0..5 /\ 1 + 1 = 2 /\ 4 + 1 = 5
    OBVIOUS
  <2>2. Stream(P, 24 * q + (6 * 1 + 4)) = Bit(P[4 * q + (1 + 1)], Weight[4 + 1])
    BY <2>1, StreamBit
  <2>3. s[3] = Stream(P, 24 * q + (8 * (2 - 1) + (3 - 1)))
    OBVIOUS
  <2> HIDE DEF s
  <2> QED
    BY <2>1, <2>2, <2>3, Weights
<1>4. s[4] = Bit(x, 1)
  <2>1. 8 * (2 - 1) + (4 - 1) = 6 * 1 + 5 /\ 1 \in 0..3 /\ 5 \in 0..5 /\ 1 + 1 = 2 /\ 5 + 1 = 6
    OBVIOUS
  <2>2. Stream(P, 24 * q + (6 * 1 + 5)) = Bit(P[4 * q + (1 + 1)], Weight[5 + 1])
    BY <2>1, StreamBit
  <2>3. s[4] = Stream(P, 24 * q + (8 * (2 - 1) + (4 - 1)))
    OBVIOUS
  <2> HIDE DEF s
  <2> QED
    BY <2>1, <2>2, <2>3, Weights
<1>5. s[5] = Bit(y, 32)
  <2>1. 8 * (2 - 1) + (5 - 1) = 6 * 2 + 0 /\ 2 \in 0..3 /\ 0 \in 0..5 /\ 2 + 1 = 3 /\ 0 + 1 = 1
    OBVIOUS
  <2>2. Stream(P, 24 * q + (6 * 2 + 0)) = Bit(P[4 * q + (2 + 1)], Weight[0 + 1])
    BY <2>1, StreamBit
  <2>3. s[5] = Stream(P, 24 * q + (8 * (2 - 1) + (5 - 1)))
    OBVIOUS
  <2> HIDE DEF s
  <2> QED
    BY <2>1, <2>2, <2>3, Weights
<1>6. s[6] = Bit(y, 16)
  <2>1. 8 * (2 - 1) + (6 - 1) = 6 * 2 + 1 /\ 2 \in 0..3 /\ 1 \in 0..5 /\ 2 + 1 = 3 /\ 1 + 1 = 2
    OBVIOUS
  <2>2. Stream(P, 24 * q + (6 * 2 + 1)) = Bit(P[4 * q + (2 + 1)], Weight[1 + 1])
    BY <2>1, StreamBit
  <2>3. s[6] = Stream(P, 24 * q + (8 * (2 - 1) + (6 - 1)))
    OBVIOUS
  <2> HIDE DEF s
  <2> QED
    BY <2>1, <2>2, <2>3, Weights
<1>7. s[7] = Bit(y, 8)
  <2>1. 8 * (2 - 1) + (7 - 1) = 6 * 2 + 2 /\ 2 \in 0..3 /\ 2 \in 0..5 /\ 2 + 1 = 3 /\ 2 + 1 = 3
    OBVIOUS
  <2>2. Stream(P, 24 * q + (6 * 2 + 2)) = Bit(P[4 * q + (2 + 1)], Weight[2 + 1])
    BY <2>1, StreamBit
  <2>3. s[7] = Stream(P, 24 * q + (8 * (2 - 1) + (7 - 1)))
    OBVIOUS
  <2> HIDE DEF s
  <2> QED
    BY <2>1, <2>2, <2>3, Weights
<1>8. s[8] = Bit(y, 4)
  <2>1. 8 * (2 - 1) + (8 - 1) = 6 * 2 + 3 /\ 2 \in 0..3 /\ 3 \in 0..5 /\ 2 + 1 = 3 /\ 3 + 1 = 4
    OBVIOUS
  <2>2. Stream(P, 24 * q + (6 * 2 + 3)) = Bit(P[4 * q + (2 + 1)], Weight[3 + 1])
    BY <2>1, StreamBit
  <2>3. s[8] = Stream(P, 24 * q + (8 * (2 - 1) + (8 - 1)))
    OBVIOUS
  <2> HIDE DEF s
  <2> QED
    BY <2>1, <2>2, <2>3, Weights
<1>9. x \in 0..63 /\ y \in 0..63 /\ x \in Nat /\ y \in Nat
  OBVIOUS
<1>10. s \in [1..8 -> 0..1]
  <2>1. /\ \A w \in {32, 16, 8, 4, 2, 1} : Bit(x, w) \in 0..1
        /\ \A w \in {32, 16, 8, 4, 2, 1} : Bit(y, w) \in 0..1
    BY <1>9, BitRange
  <2>2. s = [k \in 1..8 |-> s[k]]
    BY Zenon
  <2> HIDE DEF s, x, y
  <2>3. \A k \in 1..8 : s[k] \in 0..1
    BY <1>1, <1>2, <1>3, <1>4, <1>5, <1>6, <1>7, <1>8, <2>1
  <2> QED
    BY <2>2, <2>3
<1>11. ByteAt(P, 3 * q + 2) = Value(s, 2)
  BY ByteBits
<1>12. Value(s, 2) = 128 * s[1] + 64 * s[2] + 32 * s[3] + 16 * s[4]
                        + 8 * s[5] + 4 * s[6] + 2 * s[7] + s[8]
  BY <1>10, ValueOfEight
<1> HIDE DEF s, x, y
<1>13. /\ x = 32 * Bit(x, 32) + 16 * Bit(x, 16) + 8 * Bit(x, 8)
                 + 4 * Bit(x, 4) + 2 * Bit(x, 2) + Bit(x, 1)
       /\ y = 32 * Bit(y, 32) + 16 * Bit(y, 16) + 8 * Bit(y, 8)
                 + 4 * Bit(y, 4) + 2 * Bit(y, 2) + Bit(y, 1)
       /\ y \div 16 = 2 * Bit(y, 32) + Bit(y, 16)
       /\ y \div 4 = 8 * Bit(y, 32) + 4 * Bit(y, 16) + 2 * Bit(y, 8) + Bit(y, 4)
  BY <1>9, SixBits
<1> DEFINE x5 == Bit(x, 32)  x4 == Bit(x, 16)  x3 == Bit(x, 8)
           x2 == Bit(x, 4)  x1 == Bit(x, 2)  x0 == Bit(x, 1)
           y5 == Bit(y, 32)  y4 == Bit(y, 16)  y3 == Bit(y, 8)
           y2 == Bit(y, 4)  y1 == Bit(y, 2)  y0 == Bit(y, 1)
           v == Value(s, 2)
<1>14. /\ x5 \in 0..1 /\ x4 \in 0..1 /\ x3 \in 0..1 /\ x2 \in 0..1 /\ x1 \in 0..1 /\ x0 \in 0..1
       /\ y5 \in 0..1 /\ y4 \in 0..1 /\ y3 \in 0..1 /\ y2 \in 0..1 /\ y1 \in 0..1 /\ y0 \in 0..1
  BY <1>9, BitRange
<1>15. /\ x = 32 * x5 + 16 * x4 + 8 * x3 + 4 * x2 + 2 * x1 + x0
       /\ y = 32 * y5 + 16 * y4 + 8 * y3 + 4 * y2 + 2 * y1 + y0
       /\ y \div 16 = 2 * y5 + y4
       /\ y \div 4 = 8 * y5 + 4 * y4 + 2 * y3 + y2
  BY <1>13
<1>16. v = 128 * x3 + 64 * x2 + 32 * x1 + 16 * x0 + 8 * y5 + 4 * y4 + 2 * y3 + y2
  <2>1. s[1] = x3 /\ s[2] = x2 /\ s[3] = x1 /\ s[4] = x0 /\ s[5] = y5 /\ s[6] = y4 /\ s[7] = y3 /\ s[8] = y2
    BY <1>1, <1>2, <1>3, <1>4, <1>5, <1>6, <1>7, <1>8
  <2> QED
    BY <1>12, <2>1, Zenon
<1> HIDE DEF x5, x4, x3, x2, x1, x0, y5, y4, y3, y2, y1, y0, v
<1>17. 16 * x + (y \div 4) = v + 256 * (2 * x5 + x4) /\ v \in 0..255 /\ 2 * x5 + x4 \in Nat
  BY <1>14, <1>15, <1>16
<1>18. v = (16 * x + (y \div 4)) % 256
  BY <1>17
<1> QED
  BY <1>11, <1>18, Zenon DEF v, x, y

LEMMA ThirdByte ==
    ASSUME NEW P, NEW q \in Nat, P[4 * q + 3] \in 0..63, P[4 * q + 4] \in 0..63
    PROVE  ByteAt(P, 3 * q + 3) = (64 * P[4 * q + 3] + P[4 * q + 4]) % 256
<1> DEFINE s == [k \in 1..8 |-> Stream(P, 24 * q + (8 * (3 - 1) + (k - 1)))]
           x == P[4 * q + 3]
           y == P[4 * q + 4]
<1>1. s[1] = Bit(x, 2)
  <2>1. 8 * (3 - 1) + (1 - 1) = 6 * 2 + 4 /\ 2 \in 0..3 /\ 4 \in 0..5 /\ 2 + 1 = 3 /\ 4 + 1 = 5
    OBVIOUS
  <2>2. Stream(P, 24 * q + (6 * 2 + 4)) = Bit(P[4 * q + (2 + 1)], Weight[4 + 1])
    BY <2>1, StreamBit
  <2>3. s[1] = Stream(P, 24 * q + (8 * (3 - 1) + (1 - 1)))
    OBVIOUS
  <2> HIDE DEF s
  <2> QED
    BY <2>1, <2>2, <2>3, Weights
<1>2. s[2] = Bit(x, 1)
  <2>1. 8 * (3 - 1) + (2 - 1) = 6 * 2 + 5 /\ 2 \in 0..3 /\ 5 \in 0..5 /\ 2 + 1 = 3 /\ 5 + 1 = 6
    OBVIOUS
  <2>2. Stream(P, 24 * q + (6 * 2 + 5)) = Bit(P[4 * q + (2 + 1)], Weight[5 + 1])
    BY <2>1, StreamBit
  <2>3. s[2] = Stream(P, 24 * q + (8 * (3 - 1) + (2 - 1)))
    OBVIOUS
  <2> HIDE DEF s
  <2> QED
    BY <2>1, <2>2, <2>3, Weights
<1>3. s[3] = Bit(y, 32)
  <2>1. 8 * (3 - 1) + (3 - 1) = 6 * 3 + 0 /\ 3 \in 0..3 /\ 0 \in 0..5 /\ 3 + 1 = 4 /\ 0 + 1 = 1
    OBVIOUS
  <2>2. Stream(P, 24 * q + (6 * 3 + 0)) = Bit(P[4 * q + (3 + 1)], Weight[0 + 1])
    BY <2>1, StreamBit
  <2>3. s[3] = Stream(P, 24 * q + (8 * (3 - 1) + (3 - 1)))
    OBVIOUS
  <2> HIDE DEF s
  <2> QED
    BY <2>1, <2>2, <2>3, Weights
<1>4. s[4] = Bit(y, 16)
  <2>1. 8 * (3 - 1) + (4 - 1) = 6 * 3 + 1 /\ 3 \in 0..3 /\ 1 \in 0..5 /\ 3 + 1 = 4 /\ 1 + 1 = 2
    OBVIOUS
  <2>2. Stream(P, 24 * q + (6 * 3 + 1)) = Bit(P[4 * q + (3 + 1)], Weight[1 + 1])
    BY <2>1, StreamBit
  <2>3. s[4] = Stream(P, 24 * q + (8 * (3 - 1) + (4 - 1)))
    OBVIOUS
  <2> HIDE DEF s
  <2> QED
    BY <2>1, <2>2, <2>3, Weights
<1>5. s[5] = Bit(y, 8)
  <2>1. 8 * (3 - 1) + (5 - 1) = 6 * 3 + 2 /\ 3 \in 0..3 /\ 2 \in 0..5 /\ 3 + 1 = 4 /\ 2 + 1 = 3
    OBVIOUS
  <2>2. Stream(P, 24 * q + (6 * 3 + 2)) = Bit(P[4 * q + (3 + 1)], Weight[2 + 1])
    BY <2>1, StreamBit
  <2>3. s[5] = Stream(P, 24 * q + (8 * (3 - 1) + (5 - 1)))
    OBVIOUS
  <2> HIDE DEF s
  <2> QED
    BY <2>1, <2>2, <2>3, Weights
<1>6. s[6] = Bit(y, 4)
  <2>1. 8 * (3 - 1) + (6 - 1) = 6 * 3 + 3 /\ 3 \in 0..3 /\ 3 \in 0..5 /\ 3 + 1 = 4 /\ 3 + 1 = 4
    OBVIOUS
  <2>2. Stream(P, 24 * q + (6 * 3 + 3)) = Bit(P[4 * q + (3 + 1)], Weight[3 + 1])
    BY <2>1, StreamBit
  <2>3. s[6] = Stream(P, 24 * q + (8 * (3 - 1) + (6 - 1)))
    OBVIOUS
  <2> HIDE DEF s
  <2> QED
    BY <2>1, <2>2, <2>3, Weights
<1>7. s[7] = Bit(y, 2)
  <2>1. 8 * (3 - 1) + (7 - 1) = 6 * 3 + 4 /\ 3 \in 0..3 /\ 4 \in 0..5 /\ 3 + 1 = 4 /\ 4 + 1 = 5
    OBVIOUS
  <2>2. Stream(P, 24 * q + (6 * 3 + 4)) = Bit(P[4 * q + (3 + 1)], Weight[4 + 1])
    BY <2>1, StreamBit
  <2>3. s[7] = Stream(P, 24 * q + (8 * (3 - 1) + (7 - 1)))
    OBVIOUS
  <2> HIDE DEF s
  <2> QED
    BY <2>1, <2>2, <2>3, Weights
<1>8. s[8] = Bit(y, 1)
  <2>1. 8 * (3 - 1) + (8 - 1) = 6 * 3 + 5 /\ 3 \in 0..3 /\ 5 \in 0..5 /\ 3 + 1 = 4 /\ 5 + 1 = 6
    OBVIOUS
  <2>2. Stream(P, 24 * q + (6 * 3 + 5)) = Bit(P[4 * q + (3 + 1)], Weight[5 + 1])
    BY <2>1, StreamBit
  <2>3. s[8] = Stream(P, 24 * q + (8 * (3 - 1) + (8 - 1)))
    OBVIOUS
  <2> HIDE DEF s
  <2> QED
    BY <2>1, <2>2, <2>3, Weights
<1>9. x \in 0..63 /\ y \in 0..63 /\ x \in Nat /\ y \in Nat
  OBVIOUS
<1>10. s \in [1..8 -> 0..1]
  <2>1. /\ \A w \in {32, 16, 8, 4, 2, 1} : Bit(x, w) \in 0..1
        /\ \A w \in {32, 16, 8, 4, 2, 1} : Bit(y, w) \in 0..1
    BY <1>9, BitRange
  <2>2. s = [k \in 1..8 |-> s[k]]
    BY Zenon
  <2> HIDE DEF s, x, y
  <2>3. \A k \in 1..8 : s[k] \in 0..1
    BY <1>1, <1>2, <1>3, <1>4, <1>5, <1>6, <1>7, <1>8, <2>1
  <2> QED
    BY <2>2, <2>3
<1>11. ByteAt(P, 3 * q + 3) = Value(s, 2)
  BY ByteBits
<1>12. Value(s, 2) = 128 * s[1] + 64 * s[2] + 32 * s[3] + 16 * s[4]
                        + 8 * s[5] + 4 * s[6] + 2 * s[7] + s[8]
  BY <1>10, ValueOfEight
<1> HIDE DEF s, x, y
<1>13. /\ x = 32 * Bit(x, 32) + 16 * Bit(x, 16) + 8 * Bit(x, 8)
                 + 4 * Bit(x, 4) + 2 * Bit(x, 2) + Bit(x, 1)
       /\ y = 32 * Bit(y, 32) + 16 * Bit(y, 16) + 8 * Bit(y, 8)
                 + 4 * Bit(y, 4) + 2 * Bit(y, 2) + Bit(y, 1)
       /\ y \div 16 = 2 * Bit(y, 32) + Bit(y, 16)
       /\ y \div 4 = 8 * Bit(y, 32) + 4 * Bit(y, 16) + 2 * Bit(y, 8) + Bit(y, 4)
  BY <1>9, SixBits
<1> DEFINE x5 == Bit(x, 32)  x4 == Bit(x, 16)  x3 == Bit(x, 8)
           x2 == Bit(x, 4)  x1 == Bit(x, 2)  x0 == Bit(x, 1)
           y5 == Bit(y, 32)  y4 == Bit(y, 16)  y3 == Bit(y, 8)
           y2 == Bit(y, 4)  y1 == Bit(y, 2)  y0 == Bit(y, 1)
           v == Value(s, 2)
<1>14. /\ x5 \in 0..1 /\ x4 \in 0..1 /\ x3 \in 0..1 /\ x2 \in 0..1 /\ x1 \in 0..1 /\ x0 \in 0..1
       /\ y5 \in 0..1 /\ y4 \in 0..1 /\ y3 \in 0..1 /\ y2 \in 0..1 /\ y1 \in 0..1 /\ y0 \in 0..1
  BY <1>9, BitRange
<1>15. /\ x = 32 * x5 + 16 * x4 + 8 * x3 + 4 * x2 + 2 * x1 + x0
       /\ y = 32 * y5 + 16 * y4 + 8 * y3 + 4 * y2 + 2 * y1 + y0
       /\ y \div 16 = 2 * y5 + y4
       /\ y \div 4 = 8 * y5 + 4 * y4 + 2 * y3 + y2
  BY <1>13
<1>16. v = 128 * x1 + 64 * x0 + 32 * y5 + 16 * y4 + 8 * y3 + 4 * y2 + 2 * y1 + y0
  <2>1. s[1] = x1 /\ s[2] = x0 /\ s[3] = y5 /\ s[4] = y4 /\ s[5] = y3 /\ s[6] = y2 /\ s[7] = y1 /\ s[8] = y0
    BY <1>1, <1>2, <1>3, <1>4, <1>5, <1>6, <1>7, <1>8
  <2> QED
    BY <1>12, <2>1, Zenon
<1> HIDE DEF x5, x4, x3, x2, x1, x0, y5, y4, y3, y2, y1, y0, v
<1>17. 64 * x + y = v + 256 * (8 * x5 + 4 * x4 + 2 * x3 + x2) /\ v \in 0..255
       /\ 8 * x5 + 4 * x4 + 2 * x3 + x2 \in Nat
  BY <1>14, <1>15, <1>16
<1>18. v = (64 * x + y) % 256
  BY <1>17
<1> QED
  BY <1>11, <1>18, Zenon DEF v, x, y

-----------------------------------------------------------------------------
(* What decode_base64 has read, one character after another.                  *)

(* What decode_base64 has of its first n characters: m values and then padding. *)
Collected == [out : Seq(Nat), buffer : Seq(0..63), padding : BOOLEAN, ok : BOOLEAN]
ValuesThenPad(P, m, n) ==
    m \in 0 .. n /\ (\A i \in 1 .. m : P[i] \in 0..63) /\ (\A i \in m + 1 .. n : P[i] = Pad)
Decoded(P, m, d) ==
    /\ Len(d.out) = 3 * (m \div 4) /\ \A j \in 1 .. 3 * (m \div 4) : d.out[j] = ByteAt(P, j)
    /\ Len(d.buffer) = m % 4 /\ \A t \in 1 .. m % 4 : d.buffer[t] = P[4 * (m \div 4) + t]
Reads(P, n, d) ==
    /\ d \in Collected
    /\ \/ \E m \in 0 .. n :
              ValuesThenPad(P, m, n) /\ d.ok = TRUE /\ d.padding = (m < n) /\ Decoded(P, m, d)
       \/ d.ok = FALSE /\ \A m \in 0 .. n : ~ ValuesThenPad(P, m, n)

LEMMA FrontNext ==
    ASSUME NEW P, NEW n \in Nat
    PROVE  /\ P[n + 1] = Pad => \A m \in 0 .. n : ValuesThenPad(P, m, n) => ValuesThenPad(P, m, n + 1)
           /\ P[n + 1] \in 0..63 /\ ValuesThenPad(P, n, n) => ValuesThenPad(P, n + 1, n + 1)
           /\ (\A m \in 0 .. n : ~ ValuesThenPad(P, m, n)) => \A m \in 0 .. n + 1 : ~ ValuesThenPad(P, m, n + 1)
           /\ P[n + 1] \in NotBase64 => \A m \in 0 .. n + 1 : ~ ValuesThenPad(P, m, n + 1)
           /\ P[n + 1] # Pad => \A m \in 0 .. n : ValuesThenPad(P, m, n) /\ m < n =>
                  \A l \in 0 .. n + 1 : ~ ValuesThenPad(P, l, n + 1)
<1>1. P[n + 1] = Pad => \A m \in 0 .. n : ValuesThenPad(P, m, n) => ValuesThenPad(P, m, n + 1)
  BY DEF ValuesThenPad
<1>2. P[n + 1] \in 0..63 /\ ValuesThenPad(P, n, n) => ValuesThenPad(P, n + 1, n + 1)
  BY DEF ValuesThenPad
<1>3. (\A m \in 0 .. n : ~ ValuesThenPad(P, m, n)) => \A m \in 0 .. n + 1 : ~ ValuesThenPad(P, m, n + 1)
  <2> SUFFICES ASSUME NEW m \in 0 .. n + 1, ValuesThenPad(P, m, n + 1)
               PROVE  \E l \in 0 .. n : ValuesThenPad(P, l, n)
    OBVIOUS
  <2>1. CASE m = n + 1
    <3>1. ValuesThenPad(P, n, n)
      BY <2>1 DEF ValuesThenPad
    <3> QED
      BY <3>1
  <2>2. CASE m # n + 1
    <3>1. m \in 0 .. n /\ ValuesThenPad(P, m, n)
      BY <2>2 DEF ValuesThenPad
    <3> QED
      BY <3>1
  <2> QED
    BY <2>1, <2>2
<1>4. P[n + 1] \in NotBase64 => \A m \in 0 .. n + 1 : ~ ValuesThenPad(P, m, n + 1)
  <2> SUFFICES ASSUME P[n + 1] \in NotBase64, NEW m \in 0 .. n + 1, ValuesThenPad(P, m, n + 1)
               PROVE  FALSE
    OBVIOUS
  <2>1. m = n + 1 \/ n + 1 \in m + 1 .. n + 1
    OBVIOUS
  <2>2. P[n + 1] \in 0..63 \/ P[n + 1] = Pad
    BY <2>1 DEF ValuesThenPad
  <2> QED
    BY <2>2 DEF NotBase64, Question, Pad
<1>5. P[n + 1] # Pad => \A m \in 0 .. n : ValuesThenPad(P, m, n) /\ m < n =>
          \A l \in 0 .. n + 1 : ~ ValuesThenPad(P, l, n + 1)
  <2> SUFFICES ASSUME P[n + 1] # Pad, NEW m \in 0 .. n, ValuesThenPad(P, m, n), m < n,
                      NEW l \in 0 .. n + 1, ValuesThenPad(P, l, n + 1)
               PROVE  FALSE
    OBVIOUS
  <2>1. l = n + 1
    <3>1. l < n + 1 => n + 1 \in l + 1 .. n + 1
      OBVIOUS
    <3> QED
      BY <3>1 DEF ValuesThenPad
  <2>2. n \in m + 1 .. n /\ n \in 1 .. n + 1
    OBVIOUS
  <2>3. P[n] = Pad /\ P[n] \in 0..63
    BY <2>1, <2>2 DEF ValuesThenPad
  <2> QED
    BY <2>3 DEF Pad
<1> QED
  BY <1>1, <1>2, <1>3, <1>4, <1>5

LEMMA GroupIsBytes ==
    ASSUME NEW P, NEW q \in Nat, NEW b, b = <<P[4 * q + 1], P[4 * q + 2], P[4 * q + 3], P[4 * q + 4]>>,
           \A t \in 1..4 : P[4 * q + t] \in 0..63
    PROVE  /\ whole_group(b) = <<ByteAt(P, 3 * q + 1), ByteAt(P, 3 * q + 2), ByteAt(P, 3 * q + 3)>>
           /\ \A r \in 1..3 : ByteAt(P, 3 * q + r) \in Nat
<1> DEFINE x == P[4 * q + 1]
           y == P[4 * q + 2]
           z == P[4 * q + 3]
           w == P[4 * q + 4]
<1>1. x \in 0..63 /\ y \in 0..63 /\ z \in 0..63 /\ w \in 0..63
  OBVIOUS
<1>2. /\ ByteAt(P, 3 * q + 1) = (4 * x + (y \div 16)) % 256
      /\ ByteAt(P, 3 * q + 2) = (16 * y + (z \div 4)) % 256
      /\ ByteAt(P, 3 * q + 3) = (64 * z + w) % 256
  BY <1>1, FirstByte, SecondByte, ThirdByte
<1>3. b[1] = x /\ b[2] = y /\ b[3] = z /\ b[4] = w
  OBVIOUS
<1> HIDE DEF x, y, z, w
<1>4. whole_group(b) = <<(4 * x + (y \div 16)) % 256, (16 * y + (z \div 4)) % 256, (64 * z + w) % 256>>
  <2>1. whole_group(b) = <<(4 * b[1] + (b[2] \div 16)) % 256, (16 * b[2] + (b[3] \div 4)) % 256,
                           (64 * b[3] + b[4]) % 256>>
    BY Zenon DEF whole_group
  <2> QED
    BY <1>3, <2>1
<1>5. /\ (4 * x + (y \div 16)) % 256 \in Nat /\ (16 * y + (z \div 4)) % 256 \in Nat
      /\ (64 * z + w) % 256 \in Nat
  BY <1>1
<1>6. \A r \in 1..3 : r = 1 \/ r = 2 \/ r = 3
  OBVIOUS
<1>7. \A r \in 1..3 : ByteAt(P, 3 * q + r) \in Nat
  BY <1>2, <1>5, <1>6
<1> QED
  BY <1>2, <1>4, <1>7, Zenon

LEMMA CollectedSteps ==
    ASSUME NEW d \in Collected
    PROVE  /\ LET e == [d EXCEPT !.padding = TRUE]
              IN e \in Collected /\ e.out = d.out /\ e.buffer = d.buffer /\ e.padding = TRUE /\ e.ok = d.ok
           /\ LET e == [d EXCEPT !.ok = FALSE]
              IN e \in Collected /\ e.ok = FALSE
           /\ \A buffer \in Seq(0..63) :
                LET e == [d EXCEPT !.buffer = buffer]
                IN e \in Collected /\ e.out = d.out /\ e.buffer = buffer
                   /\ e.padding = d.padding /\ e.ok = d.ok
           /\ \A out \in Seq(Nat), buffer \in Seq(0..63) :
                LET e == [d EXCEPT !.out = out, !.buffer = buffer]
                IN e \in Collected /\ e.out = out /\ e.buffer = buffer
                   /\ e.padding = d.padding /\ e.ok = d.ok
<1>1. LET e == [d EXCEPT !.padding = TRUE]
      IN e \in Collected /\ e.out = d.out /\ e.buffer = d.buffer /\ e.padding = TRUE /\ e.ok = d.ok
  BY DEF Collected
<1>2. LET e == [d EXCEPT !.ok = FALSE]
      IN e \in Collected /\ e.ok = FALSE
  BY DEF Collected
<1>3. ASSUME NEW buffer \in Seq(0..63)
      PROVE  LET e == [d EXCEPT !.buffer = buffer]
             IN e \in Collected /\ e.out = d.out /\ e.buffer = buffer
                /\ e.padding = d.padding /\ e.ok = d.ok
  BY DEF Collected
<1>4. ASSUME NEW out \in Seq(Nat), NEW buffer \in Seq(0..63)
      PROVE  LET e == [d EXCEPT !.out = out, !.buffer = buffer]
             IN e \in Collected /\ e.out = out /\ e.buffer = buffer
                /\ e.padding = d.padding /\ e.ok = d.ok
  BY DEF Collected
<1> QED
  BY <1>1, <1>2, <1>3, <1>4

LEMMA AppendParts ==
    ASSUME NEW s \in Seq(0..63), NEW x \in 0..63
    PROVE  /\ Append(s, x) \in Seq(0..63) /\ Len(Append(s, x)) = Len(s) + 1 /\ Len(s) \in Nat
           /\ Append(s, x)[Len(s) + 1] = x /\ \A t \in 1 .. Len(s) : Append(s, x)[t] = s[t]
OBVIOUS

LEMMA ConcatBack ==
    ASSUME NEW s \in Seq(Nat), NEW t \in Seq(Nat)
    PROVE  \A j \in 1 .. Len(t) : (s \o t)[Len(s) + j] = t[j]
OBVIOUS

LEMMA ThreeMore ==
    ASSUME NEW m \in Nat
    PROVE  m % 4 = 3 => /\ m \div 4 \in Nat /\ m = 4 * (m \div 4) + 3
                        /\ (m + 1) \div 4 = (m \div 4) + 1 /\ (m + 1) % 4 = 0
OBVIOUS

(* One more value when three are waiting: a group of three bytes. *)
LEMMA GroupRead ==
    ASSUME NEW P, NEW m \in Nat, NEW d \in Collected, NEW e
    PROVE  /\ Decoded(P, m, d) /\ (\A i \in 1 .. m + 1 : P[i] \in 0..63) /\ m % 4 = 3
           /\ e.out = d.out \o whole_group(Append(d.buffer, P[m + 1])) /\ e.buffer = <<>>
           => e.out \in Seq(Nat) /\ Decoded(P, m + 1, e)
<1>0. SUFFICES ASSUME Decoded(P, m, d), \A i \in 1 .. m + 1 : P[i] \in 0..63, m % 4 = 3,
                      e.out = d.out \o whole_group(Append(d.buffer, P[m + 1])), e.buffer = <<>>
               PROVE  e.out \in Seq(Nat) /\ Decoded(P, m + 1, e)
  OBVIOUS
<1> DEFINE q == m \div 4
           ch == P[m + 1]
           b == Append(d.buffer, ch)
           g == whole_group(b)
<1>1. q \in Nat /\ m = 4 * q + 3 /\ (m + 1) \div 4 = q + 1 /\ (m + 1) % 4 = 0
  BY <1>0, ThreeMore
<1>2. d.out \in Seq(Nat) /\ d.buffer \in Seq(0..63)
  BY DEF Collected
<1>3. /\ Len(d.out) = 3 * q /\ \A j \in 1 .. 3 * q : d.out[j] = ByteAt(P, j)
      /\ Len(d.buffer) = 3 /\ \A t \in 1..3 : d.buffer[t] = P[4 * q + t]
  BY <1>0 DEF Decoded
<1>4. e.out = d.out \o g /\ e.buffer = <<>>
  BY <1>0
<1>5. \A t \in 1..4 : P[4 * q + t] \in 0..63
  <2>1. \A t \in 1..4 : 4 * q + t \in 1 .. m + 1
    BY <1>1
  <2> QED
    BY <1>0, <2>1
<1>6. ch = P[4 * q + 4] /\ ch \in 0..63
  <2>1. m + 1 = 4 * q + 4 /\ m + 1 \in 1 .. m + 1
    BY <1>1
  <2> QED
    BY <1>0, <2>1
<1> HIDE DEF q, ch
<1>7. b = <<P[4 * q + 1], P[4 * q + 2], P[4 * q + 3], P[4 * q + 4]>>
  <2>1. b \in Seq(0..63) /\ Len(b) = 4 /\ b[4] = ch /\ \A t \in 1..3 : b[t] = d.buffer[t]
    <3> DEFINE s == d.buffer
    <3>1. s \in Seq(0..63) /\ Len(s) = 3 /\ ch \in 0..63
      BY <1>2, <1>3, <1>6
    <3> HIDE DEF s
    <3> DEFINE a == Append(s, ch)
               n == Len(s)
    <3>2. a \in Seq(0..63) /\ Len(a) = n + 1 /\ a[n + 1] = ch /\ \A t \in 1 .. n : a[t] = s[t]
      BY <3>1, AppendParts
    <3>3. n = 3 /\ n + 1 = 4
      BY <3>1
    <3> HIDE DEF a, n
    <3>4. a \in Seq(0..63) /\ Len(a) = 4 /\ a[4] = ch /\ \A t \in 1 .. 3 : a[t] = s[t]
      BY <3>2, <3>3
    <3> QED
      BY <3>4 DEF s, a
  <2>2. b[1] = P[4 * q + 1] /\ b[2] = P[4 * q + 2] /\ b[3] = P[4 * q + 3] /\ b[4] = P[4 * q + 4]
    BY <1>3, <1>6, <2>1
  <2> HIDE DEF b
  <2>3. b = <<b[1], b[2], b[3], b[4]>>
    BY <2>1
  <2> QED
    BY <2>2, <2>3, Zenon
<1> HIDE DEF b
<1>8. /\ g = <<ByteAt(P, 3 * q + 1), ByteAt(P, 3 * q + 2), ByteAt(P, 3 * q + 3)>>
      /\ \A r \in 1..3 : ByteAt(P, 3 * q + r) \in Nat
  BY <1>1, <1>5, <1>7, GroupIsBytes
<1> HIDE DEF g
<1>9. g \in Seq(Nat) /\ Len(g) = 3 /\ \A r \in 1..3 : g[r] = ByteAt(P, 3 * q + r)
  <2>1. /\ ByteAt(P, 3 * q + 1) \in Nat /\ ByteAt(P, 3 * q + 2) \in Nat /\ ByteAt(P, 3 * q + 3) \in Nat
    BY <1>8
  <2>2. g[1] = ByteAt(P, 3 * q + 1) /\ g[2] = ByteAt(P, 3 * q + 2) /\ g[3] = ByteAt(P, 3 * q + 3)
    BY <1>8
  <2>3. \A r \in 1..3 : r = 1 \/ r = 2 \/ r = 3
    OBVIOUS
  <2>4. g \in Seq(Nat) /\ Len(g) = 3
    BY <1>8, <2>1
  <2> QED
    BY <2>2, <2>3, <2>4
<1> DEFINE c == d.out \o g
<1>10. /\ c \in Seq(Nat) /\ Len(c) = 3 * q + 3
       /\ \A j \in 1 .. 3 * q : c[j] = d.out[j]
       /\ \A r \in 1..3 : c[3 * q + r] = g[r]
  <2>1. d.out \in Seq(Nat) /\ Len(d.out) = 3 * q /\ g \in Seq(Nat) /\ Len(g) = 3
    BY <1>2, <1>3, <1>9
  <2>2. c \in Seq(Nat) /\ Len(c) = Len(d.out) + Len(g) /\ \A j \in 1 .. Len(d.out) : c[j] = d.out[j]
    BY <2>1, ConcatFront
  <2>3. \A r \in 1 .. Len(g) : c[Len(d.out) + r] = g[r]
    BY <2>1, ConcatBack
  <2> HIDE DEF c
  <2> QED
    BY <2>1, <2>2, <2>3
<1> HIDE DEF c
<1>11. ASSUME NEW j \in 1 .. 3 * (q + 1) PROVE c[j] = ByteAt(P, j)
  <2>1. CASE j <= 3 * q
    <3>1. j \in 1 .. 3 * q
      BY <1>1, <2>1
    <3> QED
      BY <1>3, <1>10, <3>1
  <2>2. CASE j > 3 * q
    <3> DEFINE r == j - 3 * q
    <3>1. r \in 1..3 /\ j = 3 * q + r
      BY <1>1, <2>2
    <3> HIDE DEF r
    <3> QED
      BY <1>9, <1>10, <3>1
  <2> QED
    <3>1. j <= 3 * q \/ j > 3 * q
      BY <1>1
    <3> QED
      BY <2>1, <2>2, <3>1
<1>12. e.out = c /\ Len(e.buffer) = 0 /\ 3 * q + 3 = 3 * (q + 1)
  <2>1. 3 * q + 3 = 3 * (q + 1)
    BY <1>1
  <2>2. Len(<<>>) = 0
    OBVIOUS
  <2> QED
    BY <1>4, <2>1, <2>2, Zenon DEF c
<1>13. /\ e.out \in Seq(Nat) /\ Len(e.out) = 3 * (q + 1)
       /\ \A j \in 1 .. 3 * (q + 1) : e.out[j] = ByteAt(P, j)
       /\ Len(e.buffer) = 0 /\ \A t \in 1 .. 0 : e.buffer[t] = P[4 * (q + 1) + t]
  BY <1>10, <1>11, <1>12
<1> QED
  BY <1>1, <1>13 DEF Decoded

(* One more value that waits for its group. *)
LEMMA ValueWaits ==
    ASSUME NEW P, NEW m \in Nat, NEW d \in Collected, NEW e
    PROVE  /\ Decoded(P, m, d) /\ P[m + 1] \in 0..63 /\ m % 4 # 3
           /\ e.out = d.out /\ e.buffer = Append(d.buffer, P[m + 1])
           => Decoded(P, m + 1, e)
<1>0. SUFFICES ASSUME Decoded(P, m, d), P[m + 1] \in 0..63, m % 4 # 3,
                      e.out = d.out, e.buffer = Append(d.buffer, P[m + 1])
               PROVE  Decoded(P, m + 1, e)
  OBVIOUS
<1> DEFINE q == m \div 4
           r == m % 4
           ch == P[m + 1]
           b == Append(d.buffer, ch)
<1>1. q \in Nat /\ r \in 0..2 /\ m = 4 * q + r /\ (m + 1) \div 4 = q /\ (m + 1) % 4 = r + 1
  BY <1>0
<1>2. d.out \in Seq(Nat) /\ d.buffer \in Seq(0..63)
  BY DEF Collected
<1>3. /\ Len(d.out) = 3 * q /\ \A j \in 1 .. 3 * q : d.out[j] = ByteAt(P, j)
      /\ Len(d.buffer) = r /\ \A t \in 1 .. r : d.buffer[t] = P[4 * q + t]
  BY <1>0 DEF Decoded
<1>4. e.out = d.out /\ e.buffer = b /\ ch \in 0..63
  BY <1>0
<1>5. ch = P[4 * q + (r + 1)]
  BY <1>1
<1> HIDE DEF q, r, ch
<1>6. Len(b) = r + 1 /\ b[r + 1] = ch /\ \A t \in 1 .. r : b[t] = d.buffer[t]
  BY <1>1, <1>2, <1>3, <1>4, AppendParts
<1> HIDE DEF b
<1>7. \A t \in 1 .. r + 1 : b[t] = P[4 * q + t]
  <2>1. \A t \in 1 .. r + 1 : t \in 1 .. r \/ t = r + 1
    BY <1>1
  <2> QED
    BY <1>3, <1>5, <1>6, <2>1
<1> QED
  BY <1>1, <1>3, <1>4, <1>6, <1>7 DEF Decoded, q

Emptied(d, out) == [d EXCEPT !.out = out, !.buffer = <<>>]

LEMMA GroupTaken ==
    ASSUME NEW d \in Collected, NEW out \in Seq(Nat)
    PROVE  LET e == Emptied(d, out)
           IN /\ e \in Collected /\ e.out = out /\ e.buffer = <<>>
              /\ e.padding = d.padding /\ e.ok = d.ok
<1>1. <<>> \in Seq(0..63)
  OBVIOUS
<1> QED
  BY <1>1 DEF Collected, Emptied

LEMMA ValuesOf ==
    ASSUME NEW s \in Seq(0..63)
    PROVE  \A i \in 1 .. Len(s) : s[i] \in 0..63
<1> DEFINE T == 0..63
<1>1. s \in Seq(T)
  OBVIOUS
<1> HIDE DEF T
<1>2. \A i \in 1 .. Len(s) : s[i] \in T
  BY <1>1
<1> QED
  BY <1>2, Zenon DEF T

LEMMA GroupTyped ==
    ASSUME NEW s \in Seq(0..63), NEW ch \in 0..63
    PROVE  Len(s) = 3 => whole_group(Append(s, ch)) \in Seq(Nat)
<1> SUFFICES ASSUME Len(s) = 3 PROVE whole_group(Append(s, ch)) \in Seq(Nat)
  OBVIOUS
<1> DEFINE b == Append(s, ch)
           n == Len(s)
<1>0. b \in Seq(0..63) /\ Len(b) = n + 1 /\ n = 3
  BY AppendParts
<1> HIDE DEF b, n
<1>1. b \in Seq(0..63) /\ Len(b) = 4
  BY <1>0
<1>2. b[1] \in 0..63 /\ b[2] \in 0..63 /\ b[3] \in 0..63 /\ b[4] \in 0..63
  <2>1. \A i \in 1 .. Len(b) : b[i] \in 0..63
    BY <1>1, ValuesOf, Zenon
  <2>2. 1 \in 1 .. Len(b) /\ 2 \in 1 .. Len(b) /\ 3 \in 1 .. Len(b) /\ 4 \in 1 .. Len(b)
    BY <1>1
  <2> QED
    BY <2>1, <2>2, Zenon
<1> DEFINE b1 == b[1]
           b2 == b[2]
           b3 == b[3]
           b4 == b[4]
<1>3. b1 \in 0..63 /\ b2 \in 0..63 /\ b3 \in 0..63 /\ b4 \in 0..63
  BY <1>2
<1> HIDE DEF b1, b2, b3, b4
<1>4. /\ (4 * b1 + (b2 \div 16)) % 256 \in Nat /\ (16 * b2 + (b3 \div 4)) % 256 \in Nat
      /\ (64 * b3 + b4) % 256 \in Nat
  BY <1>3
<1>5. whole_group(b) = <<(4 * b1 + (b2 \div 16)) % 256, (16 * b2 + (b3 \div 4)) % 256,
                         (64 * b3 + b4) % 256>>
  BY Zenon DEF whole_group, b1, b2, b3, b4
<1>6. whole_group(b) \in Seq(Nat)
  BY <1>4, <1>5
<1> QED
  BY <1>6 DEF b

(* Every character keeps the account of what was read so far. *)
LEMMA ReadsNext ==
    ASSUME NEW P, NEW n \in Nat, P[n + 1] \in 0..66, NEW d, Reads(P, n, d)
    PROVE  Reads(P, n + 1, base64_step(d, P[n + 1]))
<1> DEFINE ch == P[n + 1]
           e == base64_step(d, ch)
<1>1. d \in Collected /\ ch \in 0..66 /\ d.ok \in BOOLEAN /\ d.padding \in BOOLEAN
  BY DEF Reads, Collected
<1>2. ch = Pad \/ ch \in NotBase64 \/ ch \in 0..63
  BY <1>1 DEF Pad, NotBase64, Question
<1>3. n + 1 \in Nat /\ n \in 0 .. n /\ n + 1 \in 0 .. n + 1 /\ \A m \in 0 .. n : m \in 0 .. n + 1 /\ m < n + 1
  OBVIOUS
<1>4. e = IF ch = Pad THEN [d EXCEPT !.padding = TRUE]
          ELSE IF d.padding \/ ch \in NotBase64 THEN [d EXCEPT !.ok = FALSE]
          ELSE IF Len(d.buffer) = 3
          THEN [d EXCEPT !.out = d.out \o whole_group(Append(d.buffer, ch)), !.buffer = <<>>]
          ELSE [d EXCEPT !.buffer = Append(d.buffer, ch)]
  BY DEF base64_step
<1>5. d.out \in Seq(Nat) /\ d.buffer \in Seq(0..63)
  BY <1>1 DEF Collected
<1>9. SUFFICES Reads(P, n + 1, e)
  OBVIOUS
<1> HIDE DEF e
<1>6. CASE ch = Pad
  <2>1. e = [d EXCEPT !.padding = TRUE]
    BY <1>4, <1>6, Zenon
  <2>2. e \in Collected /\ e.out = d.out /\ e.buffer = d.buffer /\ e.padding = TRUE /\ e.ok = d.ok
    BY <1>1, <2>1, CollectedSteps
  <2>3. CASE d.ok = FALSE /\ \A m \in 0 .. n : ~ ValuesThenPad(P, m, n)
    <3>1. \A m \in 0 .. n + 1 : ~ ValuesThenPad(P, m, n + 1)
      BY <2>3, FrontNext
    <3> QED
      BY <2>2, <2>3, <3>1, Zenon DEF Reads
  <2>4. CASE \E m \in 0 .. n :
                ValuesThenPad(P, m, n) /\ d.ok = TRUE /\ d.padding = (m < n) /\ Decoded(P, m, d)
    <3>1. PICK m \in 0 .. n : ValuesThenPad(P, m, n) /\ d.ok = TRUE /\ Decoded(P, m, d)
      BY <2>4
    <3>2. ValuesThenPad(P, m, n + 1)
      BY <1>6, <3>1, FrontNext
    <3>3. Decoded(P, m, e)
      BY <2>2, <3>1, Zenon DEF Decoded
    <3>4. m \in 0 .. n + 1 /\ e.padding = (m < n + 1)
      BY <1>3, <2>2
    <3> QED
      BY <2>2, <3>1, <3>2, <3>3, <3>4, Zenon DEF Reads
  <2> QED
    BY <2>3, <2>4, Zenon DEF Reads
<1>7. CASE ch # Pad /\ (d.padding \/ ch \in NotBase64)
  <2>1. e = [d EXCEPT !.ok = FALSE]
    BY <1>4, <1>7, Zenon
  <2>2. e \in Collected /\ e.ok = FALSE
    BY <1>1, <2>1, CollectedSteps
  <2>3. \A l \in 0 .. n + 1 : ~ ValuesThenPad(P, l, n + 1)
    <3>1. CASE ch \in NotBase64
      BY <3>1, FrontNext
    <3>2. CASE \A m \in 0 .. n : ~ ValuesThenPad(P, m, n)
      BY <3>2, FrontNext
    <3>3. CASE d.padding /\ \E m \in 0 .. n : ValuesThenPad(P, m, n) /\ d.padding = (m < n)
      <4>1. PICK m \in 0 .. n : ValuesThenPad(P, m, n) /\ m < n
        BY <3>3
      <4> QED
        BY <1>7, <4>1, FrontNext
    <3> QED
      BY <1>7, <3>1, <3>2, <3>3 DEF Reads
  <2> QED
    BY <2>2, <2>3, Zenon DEF Reads
<1>8. CASE ch # Pad /\ ~ (d.padding \/ ch \in NotBase64)
  <2>0. ch \in 0..63
    BY <1>2, <1>8
  <2>1. CASE d.ok = FALSE /\ \A m \in 0 .. n : ~ ValuesThenPad(P, m, n)
    <3>1. \A m \in 0 .. n + 1 : ~ ValuesThenPad(P, m, n + 1)
      BY <2>1, FrontNext
    <3>2. e \in Collected /\ e.ok = FALSE
      <4>1. CASE Len(d.buffer) = 3
        <5> DEFINE out == d.out \o whole_group(Append(d.buffer, ch))
        <5>1. e = Emptied(d, out)
          BY <1>4, <1>8, <4>1, Zenon DEF Emptied
        <5>2. out \in Seq(Nat)
          <6>1. whole_group(Append(d.buffer, ch)) \in Seq(Nat)
            BY <1>5, <2>0, <4>1, GroupTyped
          <6> QED
            BY <1>5, <6>1
        <5> HIDE DEF out, e
        <5>3. e \in Collected /\ e.ok = d.ok
          BY <1>1, <5>1, <5>2, GroupTaken
        <5> QED
          BY <2>1, <5>3, Zenon
      <4>2. CASE Len(d.buffer) # 3
        <5> DEFINE b == Append(d.buffer, ch)
        <5>1. e = [d EXCEPT !.buffer = b]
          BY <1>4, <1>8, <4>2, Zenon
        <5>2. b \in Seq(0..63)
          BY <1>5, <2>0
        <5> HIDE DEF b
        <5> QED
          BY <1>1, <2>1, <5>1, <5>2, CollectedSteps
      <4> QED
        BY <4>1, <4>2
    <3> QED
      BY <3>1, <3>2, Zenon DEF Reads
  <2>2. CASE \E m \in 0 .. n :
                ValuesThenPad(P, m, n) /\ d.ok = TRUE /\ d.padding = (m < n) /\ Decoded(P, m, d)
    <3>1. ValuesThenPad(P, n, n) /\ d.ok = TRUE /\ d.padding = FALSE /\ Decoded(P, n, d)
      <4>1. PICK m \in 0 .. n :
                ValuesThenPad(P, m, n) /\ d.ok = TRUE /\ d.padding = (m < n) /\ Decoded(P, m, d)
        BY <2>2
      <4>2. m = n
        <5>1. ~ (m < n)
          BY <1>8, <4>1, Zenon
        <5> QED
          BY <5>1
      <4> QED
        BY <1>1, <1>8, <4>1, <4>2, Zenon
    <3>2. ValuesThenPad(P, n + 1, n + 1)
      BY <2>0, <3>1, FrontNext
    <3>3. \A i \in 1 .. n + 1 : P[i] \in 0..63
      BY <3>2 DEF ValuesThenPad
    <3>4. Len(d.buffer) = n % 4
      BY <3>1 DEF Decoded
    <3>5. e \in Collected /\ e.ok = TRUE /\ e.padding = FALSE /\ Decoded(P, n + 1, e)
      <4>1. CASE n % 4 = 3
        <5> DEFINE out == d.out \o whole_group(Append(d.buffer, ch))
                   f == [out |-> out, buffer |-> <<>>]
        <5>1. e = Emptied(d, out)
          BY <1>4, <1>8, <3>4, <4>1, Zenon DEF Emptied
        <5>2. f.out = out /\ f.buffer = <<>>
          OBVIOUS
        <5> HIDE DEF f
        <5>3. f.out \in Seq(Nat) /\ Decoded(P, n + 1, f)
          BY <1>1, <3>1, <3>3, <4>1, <5>2, GroupRead
        <5>4. out \in Seq(Nat)
          BY <5>2, <5>3
        <5> HIDE DEF out
        <5>5. e \in Collected /\ e.out = out /\ e.buffer = <<>> /\ e.padding = d.padding /\ e.ok = d.ok
          <6> HIDE DEF e
          <6> QED
            BY <1>1, <5>1, <5>4, GroupTaken
        <5>6. Decoded(P, n + 1, e)
          BY <5>2, <5>3, <5>5, Zenon DEF Decoded
        <5> QED
          BY <3>1, <5>5, <5>6, Zenon
      <4>2. CASE n % 4 # 3
        <5> DEFINE b == Append(d.buffer, ch)
        <5>1. e = [d EXCEPT !.buffer = b]
          BY <1>4, <1>8, <3>4, <4>2, Zenon
        <5>2. b \in Seq(0..63)
          BY <1>5, <2>0
        <5> HIDE DEF b
        <5>3. e \in Collected /\ e.out = d.out /\ e.buffer = b /\ e.padding = d.padding /\ e.ok = d.ok
          BY <1>1, <5>1, <5>2, CollectedSteps
        <5>4. Decoded(P, n + 1, e)
          BY <1>1, <2>0, <3>1, <4>2, <5>3, ValueWaits DEF b
        <5> QED
          BY <3>1, <5>3, <5>4, Zenon
      <4> QED
        BY <4>1, <4>2, Zenon
    <3>6. e.padding = (n + 1 < n + 1)
      <4>1. (n + 1 < n + 1) = FALSE
        OBVIOUS
      <4> QED
        BY <3>5, <4>1, Zenon
    <3> QED
      BY <1>3, <3>2, <3>5, <3>6, Zenon DEF Reads
  <2> QED
    BY <2>1, <2>2, Zenon DEF Reads
<1> QED
  BY <1>6, <1>7, <1>8, Zenon

LEMMA StepTyped ==
    ASSUME NEW d \in Collected, NEW ch \in 0..66
    PROVE  base64_step(d, ch) \in Collected
<1> DEFINE e == base64_step(d, ch)
<1>1. d.out \in Seq(Nat) /\ d.buffer \in Seq(0..63)
  BY DEF Collected
<1>2. ch = Pad \/ ch \in NotBase64 \/ ch \in 0..63
  BY DEF Pad, NotBase64, Question
<1>3. e = IF ch = Pad THEN [d EXCEPT !.padding = TRUE]
          ELSE IF d.padding \/ ch \in NotBase64 THEN [d EXCEPT !.ok = FALSE]
          ELSE IF Len(d.buffer) = 3
          THEN [d EXCEPT !.out = d.out \o whole_group(Append(d.buffer, ch)), !.buffer = <<>>]
          ELSE [d EXCEPT !.buffer = Append(d.buffer, ch)]
  BY DEF base64_step
<1> SUFFICES e \in Collected
  OBVIOUS
<1> HIDE DEF e
<1>4. CASE ch = Pad
  <2>1. e = [d EXCEPT !.padding = TRUE]
    BY <1>3, <1>4, Zenon
  <2> QED
    BY <2>1, CollectedSteps
<1>5. CASE ch # Pad /\ (d.padding \/ ch \in NotBase64)
  <2>1. e = [d EXCEPT !.ok = FALSE]
    BY <1>3, <1>5, Zenon
  <2> QED
    BY <2>1, CollectedSteps
<1>6. CASE ch # Pad /\ ~ (d.padding \/ ch \in NotBase64) /\ Len(d.buffer) = 3
  <2> DEFINE out == d.out \o whole_group(Append(d.buffer, ch))
  <2>1. e = Emptied(d, out)
    BY <1>3, <1>6, Zenon DEF Emptied
  <2>2. out \in Seq(Nat)
    <3>1. ch \in 0..63
      BY <1>2, <1>6
    <3>2. whole_group(Append(d.buffer, ch)) \in Seq(Nat)
      BY <1>1, <1>6, <3>1, GroupTyped
    <3> QED
      BY <1>1, <3>2
  <2> HIDE DEF out
  <2> QED
    BY <2>1, <2>2, GroupTaken
<1>7. CASE ch # Pad /\ ~ (d.padding \/ ch \in NotBase64) /\ Len(d.buffer) # 3
  <2> DEFINE b == Append(d.buffer, ch)
  <2>1. e = [d EXCEPT !.buffer = b]
    BY <1>3, <1>7, Zenon
  <2>2. b \in Seq(0..63)
    BY <1>1, <1>2, <1>7
  <2> HIDE DEF b
  <2> QED
    BY <2>1, <2>2, CollectedSteps
<1> QED
  BY <1>4, <1>5, <1>6, <1>7, Zenon

Start == [out |-> <<>>, buffer |-> <<>>, padding |-> FALSE, ok |-> TRUE]

LEMMA StartReads ==
    ASSUME NEW P
    PROVE  Start \in Collected /\ Reads(P, 0, Start)
<1>1. Start \in Collected
  BY DEF Start, Collected
<1>2. Start.out = <<>> /\ Start.buffer = <<>> /\ Start.padding = FALSE /\ Start.ok = TRUE
  BY DEF Start
<1>3. 0 \div 4 = 0 /\ 0 % 4 = 0 /\ 3 * 0 = 0 /\ 0 \in 0 .. 0 /\ (0 < 0) = FALSE
      /\ 1 .. 0 = {} /\ 0 + 1 .. 0 = {} /\ Len(<<>>) = 0
  OBVIOUS
<1>4. ValuesThenPad(P, 0, 0)
  BY <1>3 DEF ValuesThenPad
<1>5. Decoded(P, 0, Start)
  BY <1>2, <1>3 DEF Decoded
<1> QED
  BY <1>1, <1>2, <1>3, <1>4, <1>5, Zenon DEF Reads

(* What decode_base64 has at its end. *)
LEMMA DecodeEnds ==
    ASSUME NEW P \in Seq(0..66)
    PROVE  \E end : /\ Reads(P, Len(P), end)
                    /\ decode_base64(P) =
                         IF ~ end.ok \/ Len(end.buffer) = 1 THEN {}
                         ELSE {end.out \o SubSeq(whole_group(end.buffer \o <<0, 0, 0, 0>>),
                                                 1, Len(end.buffer) - 1)}
<1> DEFINE N == Len(P)
           Def(f) == f = [n \in 0 .. N |-> IF n = 0 THEN Start ELSE base64_step(f[n - 1], P[n])]
           e == CHOOSE f : Def(f)
           next == [k \in 1 .. N |-> [d \in Collected |-> base64_step(d, P[k])]]
<1>1. N \in Nat /\ \A k \in 1 .. N : P[k] \in 0..66
  <2> DEFINE T == 0..66
  <2>1. P \in Seq(T)
    OBVIOUS
  <2> HIDE DEF T
  <2>2. N \in Nat /\ \A k \in 1 .. N : P[k] \in T
    BY <2>1
  <2> QED
    BY <2>2, Zenon DEF T
<1>2. decode_base64(P) =
          IF ~ e[N].ok \/ Len(e[N].buffer) = 1 THEN {}
          ELSE {e[N].out \o SubSeq(whole_group(e[N].buffer \o <<0, 0, 0, 0>>),
                                   1, Len(e[N].buffer) - 1)}
  BY Zenon DEF decode_base64, Start
<1> HIDE DEF N
<1>3. next \in [1 .. N -> [Collected -> Collected]]
  BY <1>1, StepTyped
<1> HIDE DEF next
<1>4. PICK f : f \in Runs(Collected, Start, N, next)
  BY <1>1, <1>3, StartReads, RecursionExists
<1>5. f \in [0 .. N -> Collected] /\ f[0] = Start /\ \A k \in 1 .. N : f[k] = next[k][f[k - 1]]
  BY <1>4 DEF Runs
<1>6. ASSUME NEW k \in 1 .. N PROVE f[k] = base64_step(f[k - 1], P[k])
  <2>1. f[k - 1] \in Collected
    BY <1>1, <1>5
  <2>2. f[k] = next[k][f[k - 1]]
    BY <1>5
  <2> QED
    BY <2>1, <2>2, Zenon DEF next
<1>7. Def(f)
  <2>1. ASSUME NEW n \in 0 .. N
        PROVE  f[n] = IF n = 0 THEN Start ELSE base64_step(f[n - 1], P[n])
    <3>1. CASE n = 0
      BY <1>5, <3>1
    <3>2. CASE n # 0
      <4>1. n \in 1 .. N
        BY <1>1, <3>2
      <4> QED
        BY <1>6, <3>2, <4>1, Zenon
    <3> QED
      BY <3>1, <3>2
  <2>2. f = [n \in 0 .. N |-> f[n]]
    BY <1>5
  <2> QED
    BY <2>1, <2>2, Zenon
<1>8. Def(e)
  BY <1>7, Zenon
<1> HIDE DEF e
<1>9. Reads(P, 0, e[0])
  <2>1. 0 \in 0 .. N
    BY <1>1
  <2>2. e[0] = Start
    BY <1>8, <2>1
  <2> QED
    BY <2>2, StartReads, Zenon
<1>10. ASSUME NEW k \in 1 .. N, Reads(P, k - 1, e[k - 1]) PROVE Reads(P, k, e[k])
  <2>1. k \in 0 .. N /\ k # 0 /\ k - 1 \in Nat /\ (k - 1) + 1 = k
    BY <1>1
  <2>2. e[k] = base64_step(e[k - 1], P[k])
    BY <1>8, <2>1, Zenon
  <2> DEFINE n == k - 1
  <2>3. n \in Nat /\ n + 1 = k /\ P[n + 1] \in 0..66 /\ Reads(P, n, e[n])
    BY <1>1, <1>10, <2>1
  <2> HIDE DEF n
  <2>4. Reads(P, n + 1, base64_step(e[n], P[n + 1]))
    BY <2>3, ReadsNext
  <2> QED
    BY <2>2, <2>3, <2>4, Zenon DEF n
<1> DEFINE h == [k \in 0 .. N |-> IF Reads(P, k, e[k]) THEN 1 ELSE 0]
           One == {1}
<1>11. \A k \in 0 .. N : h[k] \in One <=> Reads(P, k, e[k])
  OBVIOUS
<1> HIDE DEF h, One
<1>12. \A k \in 0 .. N : h[k] \in One
  <2>1. 0 \in 0 .. N /\ \A k \in 1 .. N : k \in 0 .. N /\ k - 1 \in 0 .. N
    BY <1>1
  <2>2. h[0] \in One
    BY <1>9, <1>11, <2>1
  <2>3. \A k \in 1 .. N : h[k - 1] \in One => h[k] \in One
    BY <1>10, <1>11, <2>1
  <2> QED
    BY <1>1, <2>2, <2>3, StepsKeep
<1>13. Reads(P, N, e[N])
  <2>1. N \in 0 .. N
    BY <1>1
  <2> QED
    BY <1>11, <1>12, <2>1
<1> QED
  BY <1>2, <1>13, Zenon DEF N

-----------------------------------------------------------------------------
(* What it stores at the end, and what one OSC 52 asks for.                   *)

LEMMA BytesAre ==
    ASSUME NEW P, NEW n \in Nat, NEW s \in Seq(Nat)
    PROVE  Len(s) = n /\ (\A j \in 1 .. n : s[j] = ByteAt(P, j)) => s = [j \in 1 .. n |-> ByteAt(P, j)]
<1> SUFFICES ASSUME Len(s) = n, \A j \in 1 .. n : s[j] = ByteAt(P, j)
             PROVE  s = [j \in 1 .. n |-> ByteAt(P, j)]
  OBVIOUS
<1>1. s = [j \in 1 .. n |-> s[j]]
  OBVIOUS
<1> QED
  BY <1>1, Zenon

LEMMA TailPart ==
    ASSUME NEW x \in Nat, NEW y \in Nat, NEW z \in Nat
    PROVE  /\ SubSeq(<<x, y, z>>, 1, -1) = <<>>
           /\ SubSeq(<<x, y, z>>, 1, 1) = <<x>>
           /\ SubSeq(<<x, y, z>>, 1, 2) = <<x, y>>
<1> DEFINE g == <<x, y, z>>
<1>1. g \in Seq(Nat) /\ Len(g) = 3 /\ g[1] = x /\ g[2] = y
  OBVIOUS
<1> SUFFICES SubSeq(g, 1, -1) = <<>> /\ SubSeq(g, 1, 1) = <<x>> /\ SubSeq(g, 1, 2) = <<x, y>>
  OBVIOUS
<1> HIDE DEF g
<1>2. SubSeq(g, 1, -1) = <<>>
  BY <1>1
<1>3. SubSeq(g, 1, 1) = <<x>>
  <2> DEFINE t == SubSeq(g, 1, 1)
  <2>1. t \in Seq(Nat) /\ Len(t) = 1 /\ t[1] = x
    BY <1>1, SubSeqProperties
  <2> HIDE DEF t
  <2>2. t = <<x>>
    BY <2>1
  <2> QED
    BY <2>2 DEF t
<1>4. SubSeq(g, 1, 2) = <<x, y>>
  <2> DEFINE t == SubSeq(g, 1, 2)
  <2>1. t \in Seq(Nat) /\ Len(t) = 2 /\ t[1] = x /\ t[2] = y
    BY <1>1, SubSeqProperties
  <2> HIDE DEF t
  <2>2. t = <<x, y>>
    BY <2>1
  <2> QED
    BY <2>2 DEF t
<1> QED
  BY <1>2, <1>3, <1>4

LEMMA ConcatParts ==
    ASSUME NEW T, NEW s, NEW t, s \in Seq(T) /\ t \in Seq(T)
    PROVE  /\ \A i \in 1 .. Len(s) : (s \o t)[i] = s[i]
           /\ \A i \in 1 .. Len(t) : (s \o t)[Len(s) + i] = t[i]
           /\ Len(s) \in Nat
OBVIOUS

LEMMA PaddedParts ==
    ASSUME NEW b
    PROVE  b \in Seq(0..63) =>
               /\ \A i \in 1 .. Len(b) : (b \o <<0, 0, 0, 0>>)[i] = b[i]
               /\ \A i \in 1..4 : (b \o <<0, 0, 0, 0>>)[Len(b) + i] = 0
               /\ Len(b) \in Nat
<1>0. SUFFICES ASSUME b \in Seq(0..63)
               PROVE  /\ \A i \in 1 .. Len(b) : (b \o <<0, 0, 0, 0>>)[i] = b[i]
                      /\ \A i \in 1..4 : (b \o <<0, 0, 0, 0>>)[Len(b) + i] = 0
                      /\ Len(b) \in Nat
  OBVIOUS
<1> DEFINE z == <<0, 0, 0, 0>>
           T == 0..63
<1>1. z \in Seq(T) /\ Len(z) = 4
  OBVIOUS
<1>2. \A i \in 1..4 : z[i] = 0
  OBVIOUS
<1>3. b \in Seq(T)
  BY <1>0
<1> SUFFICES /\ \A i \in 1 .. Len(b) : (b \o z)[i] = b[i]
             /\ \A i \in 1..4 : (b \o z)[Len(b) + i] = 0
             /\ Len(b) \in Nat
  OBVIOUS
<1> HIDE DEF z, T
<1>4. /\ \A i \in 1 .. Len(b) : (b \o z)[i] = b[i]
      /\ \A i \in 1 .. Len(z) : (b \o z)[Len(b) + i] = z[i]
      /\ Len(b) \in Nat
  <2>1. b \in Seq(T) /\ z \in Seq(T)
    BY <1>1, <1>3
  <2> QED
    BY <2>1, ConcatParts
<1> QED
  BY <1>1, <1>2, <1>4, Zenon

(* The group that is cut short. *)
LEMMA TailGroup ==
    ASSUME NEW b \in Seq(0..63)
    PROVE  /\ Len(b) = 0 => SubSeq(whole_group(b \o <<0, 0, 0, 0>>), 1, Len(b) - 1) = <<>>
           /\ Len(b) = 2 => SubSeq(whole_group(b \o <<0, 0, 0, 0>>), 1, Len(b) - 1)
                                = <<(4 * b[1] + (b[2] \div 16)) % 256>>
           /\ Len(b) = 3 => SubSeq(whole_group(b \o <<0, 0, 0, 0>>), 1, Len(b) - 1)
                                = <<(4 * b[1] + (b[2] \div 16)) % 256, (16 * b[2] + (b[3] \div 4)) % 256>>
<1> DEFINE g == b \o <<0, 0, 0, 0>>
           n == Len(b)
           x == (4 * g[1] + (g[2] \div 16)) % 256
           y == (16 * g[2] + (g[3] \div 4)) % 256
           z == (64 * g[3] + g[4]) % 256
<1>1. /\ \A i \in 1 .. n : g[i] = b[i]
      /\ \A i \in 1..4 : g[n + i] = 0
      /\ n \in Nat
  BY PaddedParts
<1>2. \A i \in 1 .. n : b[i] \in 0..63
  BY ValuesOf
<1>3. whole_group(g) = <<x, y, z>>
  BY Zenon DEF whole_group
<1> SUFFICES /\ n = 0 => SubSeq(whole_group(g), 1, n - 1) = <<>>
             /\ n = 2 => SubSeq(whole_group(g), 1, n - 1) = <<(4 * b[1] + (b[2] \div 16)) % 256>>
             /\ n = 3 => SubSeq(whole_group(g), 1, n - 1)
                           = <<(4 * b[1] + (b[2] \div 16)) % 256, (16 * b[2] + (b[3] \div 4)) % 256>>
  OBVIOUS
<1> HIDE DEF g, n
<1>4. ASSUME n \in {0, 2, 3} PROVE g[1] \in 0..63 /\ g[2] \in 0..63 /\ g[3] \in 0..63 /\ g[4] \in 0..63
  <2>1. CASE n = 0
    <3>1. 0 + 1 = 1 /\ 0 + 2 = 2 /\ 0 + 3 = 3 /\ 0 + 4 = 4
      OBVIOUS
    <3>2. \A i \in 1..4 : g[0 + i] = 0
      BY <1>1, <2>1
    <3>3. g[1] = 0 /\ g[2] = 0 /\ g[3] = 0 /\ g[4] = 0
      BY <3>1, <3>2
    <3> QED
      BY <3>3
  <2>2. CASE n = 2
    <3>1. 2 + 1 = 3 /\ 2 + 2 = 4
      OBVIOUS
    <3>2. \A i \in 1..4 : g[2 + i] = 0
      BY <1>1, <2>2
    <3>3. g[1] = b[1] /\ g[2] = b[2]
      BY <1>1, <2>2
    <3>4. g[3] = 0 /\ g[4] = 0
      BY <3>1, <3>2
    <3>5. b[1] \in 0..63 /\ b[2] \in 0..63
      BY <1>2, <2>2
    <3> QED
      BY <3>3, <3>4, <3>5
  <2>3. CASE n = 3
    <3>1. 3 + 1 = 4
      OBVIOUS
    <3>2. g[3 + 1] = 0
      BY <1>1, <2>3
    <3>3. g[1] = b[1] /\ g[2] = b[2] /\ g[3] = b[3]
      BY <1>1, <2>3
    <3>5. b[1] \in 0..63 /\ b[2] \in 0..63 /\ b[3] \in 0..63
      BY <1>2, <2>3
    <3> QED
      BY <3>1, <3>2, <3>3, <3>5
  <2> QED
    BY <1>4, <2>1, <2>2, <2>3
<1>5. ASSUME n \in {0, 2, 3} PROVE x \in Nat /\ y \in Nat /\ z \in Nat
  <2> DEFINE g1 == g[1]
             g2 == g[2]
             g3 == g[3]
             g4 == g[4]
  <2>1. g1 \in 0..63 /\ g2 \in 0..63 /\ g3 \in 0..63 /\ g4 \in 0..63
    BY <1>4, <1>5
  <2> HIDE DEF g1, g2, g3, g4
  <2>2. /\ (4 * g1 + (g2 \div 16)) % 256 \in Nat
        /\ (16 * g2 + (g3 \div 4)) % 256 \in Nat
        /\ (64 * g3 + g4) % 256 \in Nat
    BY <2>1
  <2> QED
    BY <2>2 DEF g1, g2, g3, g4
<1>6. n = 2 => x = (4 * b[1] + (b[2] \div 16)) % 256
  BY <1>1
<1>7. n = 3 => x = (4 * b[1] + (b[2] \div 16)) % 256 /\ y = (16 * b[2] + (b[3] \div 4)) % 256
  BY <1>1
<1> HIDE DEF x, y, z
<1>8. CASE n = 0
  BY <1>3, <1>5, <1>8, TailPart
<1>9. CASE n = 2
  BY <1>3, <1>5, <1>6, <1>9, TailPart
<1>10. CASE n = 3
  BY <1>3, <1>5, <1>7, <1>10, TailPart
<1> QED
  BY <1>8, <1>9, <1>10

(* What is stored of m values, with whole groups and what is left of one. *)
Stored(d) == d.out \o SubSeq(whole_group(d.buffer \o <<0, 0, 0, 0>>), 1, Len(d.buffer) - 1)

AreBytes(P, s, at) == \A j \in 1 .. Len(s) : s[j] = ByteAt(P, at + j)
LEMMA BytesJoin ==
    ASSUME NEW P, NEW s \in Seq(Nat), NEW t \in Seq(Nat)
    PROVE  AreBytes(P, s, 0) /\ AreBytes(P, t, Len(s)) =>
               s \o t = [j \in 1 .. Len(s) + Len(t) |-> ByteAt(P, j)]
<1>0. SUFFICES ASSUME AreBytes(P, s, 0), AreBytes(P, t, Len(s))
               PROVE  s \o t = [j \in 1 .. Len(s) + Len(t) |-> ByteAt(P, j)]
  OBVIOUS
<1> DEFINE l == Len(s)
           n == l + Len(t)
<1>1. l \in Nat /\ n \in Nat
  OBVIOUS
<1>2. \A j \in 1 .. l : s[j] = ByteAt(P, j)
  <2> SUFFICES ASSUME NEW j \in 1 .. l PROVE s[j] = ByteAt(P, j)
    OBVIOUS
  <2>1. 0 + j = j
    BY <1>1
  <2>2. s[j] = ByteAt(P, 0 + j)
    BY <1>0 DEF AreBytes
  <2> QED
    BY <2>1, <2>2
<1>3. \A j \in 1 .. Len(t) : t[j] = ByteAt(P, l + j)
  BY <1>0, Zenon DEF AreBytes
<1> DEFINE c == s \o t
<1>4. c \in Seq(Nat) /\ Len(c) = n /\ Len(t) \in Nat
  OBVIOUS
<1>5. /\ \A j \in 1 .. l : c[j] = s[j]
      /\ \A j \in 1 .. Len(t) : c[l + j] = t[j]
  BY ConcatBack
<1> SUFFICES c = [j \in 1 .. n |-> ByteAt(P, j)]
  OBVIOUS
<1>6. n = l + Len(t)
  OBVIOUS
<1> HIDE DEF c, l, n
<1>7. ASSUME NEW j \in 1 .. n PROVE c[j] = ByteAt(P, j)
  <2>1. CASE j <= l
    BY <1>1, <1>2, <1>5, <2>1
  <2>2. CASE j > l
    <3> DEFINE k == j - l
    <3>1. k \in 1 .. Len(t) /\ l + k = j
      BY <1>1, <1>4, <1>6, <2>2
    <3> HIDE DEF k
    <3> QED
      BY <1>3, <1>5, <3>1
  <2> QED
    BY <1>1, <2>1, <2>2
<1> QED
  BY <1>1, <1>4, <1>7, BytesAre

LEMMA StoredIsBytes ==
    ASSUME NEW P, NEW m \in Nat, NEW d \in Collected
    PROVE  /\ Decoded(P, m, d) /\ (\A i \in 1 .. m : P[i] \in 0..63) /\ m % 4 # 1
           => Stored(d) = [j \in 1 .. (6 * m) \div 8 |-> ByteAt(P, j)]
<1>0. SUFFICES ASSUME Decoded(P, m, d), \A i \in 1 .. m : P[i] \in 0..63, m % 4 # 1
               PROVE  Stored(d) = [j \in 1 .. (6 * m) \div 8 |-> ByteAt(P, j)]
  OBVIOUS
<1> DEFINE q == m \div 4
           r == m % 4
           out == d.out
           b == d.buffer
           n == (6 * m) \div 8
           t == SubSeq(whole_group(b \o <<0, 0, 0, 0>>), 1, Len(b) - 1)
<1>1. q \in Nat /\ r \in {0, 2, 3} /\ m = 4 * q + r
  BY <1>0
<1>2. out \in Seq(Nat) /\ b \in Seq(0..63)
  BY DEF Collected
<1>3. /\ Len(out) = 3 * q /\ \A j \in 1 .. 3 * q : out[j] = ByteAt(P, j)
      /\ Len(b) = r /\ \A i \in 1 .. r : b[i] = P[4 * q + i]
  BY <1>0, Zenon DEF Decoded
<1>4. /\ r = 0 => n = 3 * q
      /\ r = 2 => n = 3 * q + 1
      /\ r = 3 => n = 3 * q + 2
  <2> HIDE DEF q, r
  <2> QED
    BY <1>1
<1>5. \A i \in 1 .. r : 4 * q + i \in 1 .. m
  <2> HIDE DEF q, r
  <2> QED
    BY <1>1
<1>6. Stored(d) = out \o t
  BY Zenon DEF Stored
<1>7. /\ Len(b) = 0 => t = <<>>
      /\ Len(b) = 2 => t = <<(4 * b[1] + (b[2] \div 16)) % 256>>
      /\ Len(b) = 3 => t = <<(4 * b[1] + (b[2] \div 16)) % 256, (16 * b[2] + (b[3] \div 4)) % 256>>
  BY <1>2, TailGroup
<1> SUFFICES out \o t = [j \in 1 .. n |-> ByteAt(P, j)]
  BY <1>6, Zenon
<1> HIDE DEF q, r, out, b, n, t
<1>8. ASSUME NEW i \in 1 .. r PROVE b[i] = P[4 * q + i] /\ P[4 * q + i] \in 0..63
  BY <1>0, <1>3, <1>5
<1>9. 3 * q \in Nat /\ n \in Nat
  BY <1>1, <1>4
<1>10. SUFFICES t \in Seq(Nat) /\ n = 3 * q + Len(t) /\ \A j \in 1 .. Len(t) : t[j] = ByteAt(P, 3 * q + j)
  <2>1. AreBytes(P, t, Len(out))
    <3> SUFFICES ASSUME NEW j \in 1 .. Len(t) PROVE t[j] = ByteAt(P, Len(out) + j)
      BY DEF AreBytes
    <3> QED
      BY <1>3, <1>10
  <2>2. AreBytes(P, out, 0)
    <3> SUFFICES ASSUME NEW j \in 1 .. 3 * q PROVE out[j] = ByteAt(P, 0 + j)
      BY <1>3 DEF AreBytes
    <3>1. 0 + j = j
      BY <1>9
    <3> QED
      BY <1>3, <3>1
  <2>3. out \o t = [j \in 1 .. Len(out) + Len(t) |-> ByteAt(P, j)]
    BY <1>2, <1>10, <2>1, <2>2, BytesJoin
  <2> QED
    BY <1>3, <1>10, <2>3
<1>11. CASE r = 0
  <2>1. t = <<>> /\ n = 3 * q
    BY <1>3, <1>4, <1>7, <1>11
  <2>2. <<>> \in Seq(Nat) /\ Len(<<>>) = 0 /\ 1 .. 0 = {} /\ 3 * q = 3 * q + 0
    BY <1>1
  <2> QED
    BY <2>1, <2>2
<1>12. CASE r = 2
  <2> DEFINE x == (4 * b[1] + (b[2] \div 16)) % 256
  <2>1. 1 \in 1 .. r /\ 2 \in 1 .. r
    BY <1>12
  <2>2. b[1] = P[4 * q + 1] /\ P[4 * q + 1] \in 0..63 /\ b[2] = P[4 * q + 2] /\ P[4 * q + 2] \in 0..63
    BY <1>8, <2>1
  <2>3. x = ByteAt(P, 3 * q + 1)
    BY <1>1, <2>2, FirstByte
  <2>4. x \in Nat
    <3>1. b[1] \in 0..63 /\ b[2] \in 0..63
      BY <2>2
    <3> QED
      BY <3>1
  <2>5. t = <<x>>
    BY <1>3, <1>7, <1>12
  <2> HIDE DEF x
  <2>6. t \in Seq(Nat) /\ Len(t) = 1 /\ t[1] = x
    BY <2>4, <2>5
  <2>7. \A j \in 1 .. 1 : j = 1
    OBVIOUS
  <2> QED
    BY <1>4, <1>12, <2>3, <2>6, <2>7
<1>13. CASE r = 3
  <2> DEFINE x == (4 * b[1] + (b[2] \div 16)) % 256
             y == (16 * b[2] + (b[3] \div 4)) % 256
  <2>1. 1 \in 1 .. r /\ 2 \in 1 .. r /\ 3 \in 1 .. r
    BY <1>13
  <2>2. /\ b[1] = P[4 * q + 1] /\ P[4 * q + 1] \in 0..63
        /\ b[2] = P[4 * q + 2] /\ P[4 * q + 2] \in 0..63
        /\ b[3] = P[4 * q + 3] /\ P[4 * q + 3] \in 0..63
    BY <1>8, <2>1
  <2>3. x = ByteAt(P, 3 * q + 1) /\ y = ByteAt(P, 3 * q + 2)
    BY <1>1, <2>2, FirstByte, SecondByte
  <2>4. x \in Nat /\ y \in Nat
    <3> DEFINE b1 == b[1]
               b2 == b[2]
               b3 == b[3]
    <3>1. b1 \in 0..63 /\ b2 \in 0..63 /\ b3 \in 0..63
      BY <2>2
    <3> HIDE DEF b1, b2, b3
    <3>2. (4 * b1 + (b2 \div 16)) % 256 \in Nat /\ (16 * b2 + (b3 \div 4)) % 256 \in Nat
      BY <3>1
    <3> QED
      BY <3>2 DEF b1, b2, b3
  <2>5. t = <<x, y>>
    BY <1>3, <1>7, <1>13
  <2> HIDE DEF x, y
  <2>6. t \in Seq(Nat) /\ Len(t) = 2 /\ t[1] = x /\ t[2] = y
    BY <2>4, <2>5
  <2>7. \A j \in 1 .. 2 : j = 1 \/ j = 2
    OBVIOUS
  <2> QED
    BY <1>4, <1>13, <2>3, <2>6, <2>7
<1> QED
  BY <1>1, <1>11, <1>12, <1>13

(* The values in front of the padding are as many as are not padding. *)
LEMMA FrontIsSize ==
    ASSUME NEW P, NEW n \in Nat, NEW m \in 0 .. n
    PROVE  ValuesThenPad(P, m, n) => Cardinality({i \in 1 .. n : P[i] # Pad}) = m
<1> SUFFICES ASSUME ValuesThenPad(P, m, n) PROVE Cardinality({i \in 1 .. n : P[i] # Pad}) = m
  OBVIOUS
<1>1. \A i \in 1 .. n : (P[i] # Pad) <=> i <= m
  <2> SUFFICES ASSUME NEW i \in 1 .. n PROVE (P[i] # Pad) <=> i <= m
    OBVIOUS
  <2>1. i <= m => P[i] \in 0..63
    BY DEF ValuesThenPad
  <2>2. i > m => P[i] = Pad
    BY DEF ValuesThenPad
  <2> QED
    BY <2>1, <2>2 DEF Pad
<1>2. {i \in 1 .. n : P[i] # Pad} = 1 .. m
  BY <1>1
<1>3. Cardinality(1 .. m) = m
  BY FS_Interval
<1> QED
  BY <1>2, <1>3, Zenon

LEMMA SizeIsFront ==
    ASSUME NEW P, NEW n \in Nat, \A i \in 1 .. n : P[i] \in 0..66,
           NEW s, s = Cardinality({i \in 1 .. n : P[i] # Pad})
    PROVE  /\ (\A i \in 1 .. n : P[i] \notin NotBase64) /\ (\A i \in 1 .. n : i > s => P[i] = Pad)
           => s \in 0 .. n /\ ValuesThenPad(P, s, n)
<1> DEFINE S == {i \in 1 .. n : P[i] # Pad}
<1> SUFFICES ASSUME \A i \in 1 .. n : P[i] \notin NotBase64, \A i \in 1 .. n : i > s => P[i] = Pad
             PROVE  s \in 0 .. n /\ ValuesThenPad(P, s, n)
  OBVIOUS
<1>1. S \in SUBSET (1 .. n) /\ IsFiniteSet(1 .. n) /\ Cardinality(1 .. n) = n
  BY FS_Interval
<1>2. IsFiniteSet(S) /\ Cardinality(S) <= n
  <2> HIDE DEF S
  <2> QED
    BY <1>1, FS_Subset
<1>3. s \in Nat /\ s <= n
  BY <1>2, FS_CardinalityType
<1>4. S \subseteq 1 .. s
  BY <1>3
<1>5. IsFiniteSet(1 .. s) /\ Cardinality(1 .. s) = s
  BY <1>3, FS_Interval
<1>6. S = 1 .. s
  <2>1. Cardinality(S) = s
    OBVIOUS
  <2> HIDE DEF S
  <2> QED
    BY <1>4, <1>5, <2>1, FS_Subset
<1>7. ASSUME NEW i \in 1 .. s PROVE P[i] \in 0..63
  <2>1. i \in S
    BY <1>6
  <2>2. P[i] # Pad /\ P[i] \notin NotBase64 /\ P[i] \in 0..66
    BY <2>1
  <2> QED
    BY <2>2 DEF Pad, NotBase64, Question
<1>8. \A i \in s + 1 .. n : P[i] = Pad
  BY <1>3
<1> QED
  BY <1>3, <1>7, <1>8 DEF ValuesThenPad

(* What a payload has to be for it to be stored, with s characters that are not padding. *)
Whole(P, s) ==
    /\ \A i \in 1 .. Len(P) : P[i] \notin NotBase64
    /\ \A i \in 1 .. Len(P) : i > s => P[i] = Pad
    /\ s % 4 # 1

LEMMA DecodeExact ==
    ASSUME NEW P \in Seq(0..66), NEW s, s = Cardinality({i \in 1 .. Len(P) : P[i] # Pad})
    PROVE  decode_base64(P) =
               IF Whole(P, s) THEN {[j \in 1 .. (6 * s) \div 8 |-> ByteAt(P, j)]} ELSE {}
<1> DEFINE N == Len(P)
<1>1. N \in Nat /\ \A k \in 1 .. N : P[k] \in 0..66
  <2> DEFINE T == 0..66
  <2>1. P \in Seq(T)
    OBVIOUS
  <2> HIDE DEF T
  <2>2. N \in Nat /\ \A k \in 1 .. N : P[k] \in T
    BY <2>1
  <2> QED
    BY <2>2, Zenon DEF T
<1>2. PICK end : /\ Reads(P, N, end)
                 /\ decode_base64(P) = IF ~ end.ok \/ Len(end.buffer) = 1 THEN {} ELSE {Stored(end)}
  BY DecodeEnds, Zenon DEF Stored
<1>3. end \in Collected
  BY <1>2, Zenon DEF Reads
<1>4. s = Cardinality({i \in 1 .. N : P[i] # Pad})
  OBVIOUS
<1>5. \A m \in 0 .. N : ValuesThenPad(P, m, N) => s = m
  BY <1>1, <1>4, FrontIsSize
<1>6. CASE Whole(P, s)
  <2>1. s \in 0 .. N /\ ValuesThenPad(P, s, N) /\ s % 4 # 1
    BY <1>1, <1>4, <1>6, SizeIsFront DEF Whole
  <2>2. end.ok = TRUE /\ Decoded(P, s, end)
    BY <1>2, <1>5, <2>1, Zenon DEF Reads
  <2>3. s \in Nat /\ (\A i \in 1 .. s : P[i] \in 0..63) /\ Len(end.buffer) # 1
    BY <2>1, <2>2 DEF ValuesThenPad, Decoded
  <2>4. Stored(end) = [j \in 1 .. (6 * s) \div 8 |-> ByteAt(P, j)]
    BY <1>3, <2>1, <2>2, <2>3, StoredIsBytes
  <2> QED
    BY <1>2, <1>6, <2>2, <2>3, <2>4, Zenon
<1>7. CASE ~ Whole(P, s)
  <2>1. CASE end.ok = FALSE
    BY <1>2, <1>7, <2>1, Zenon
  <2>2. CASE end.ok # FALSE
    <3>1. PICK m \in 0 .. N : ValuesThenPad(P, m, N) /\ Decoded(P, m, end)
      BY <1>2, <2>2, Zenon DEF Reads
    <3>2. ValuesThenPad(P, s, N) /\ Decoded(P, s, end) /\ s \in 0 .. N
      BY <1>5, <3>1, Zenon
    <3>3. ASSUME NEW i \in 1 .. N PROVE P[i] \notin NotBase64 /\ (i > s => P[i] = Pad)
      <4>1. i <= s => P[i] \in 0..63
        BY <3>2 DEF ValuesThenPad
      <4>2. i > s => P[i] = Pad
        BY <1>1, <3>2 DEF ValuesThenPad
      <4> QED
        <5>1. /\ \A c \in 0..63 : c \notin NotBase64
              /\ Pad \notin NotBase64
          BY DEF NotBase64, Question, Pad
        <5>2. i <= s \/ i > s
          BY <1>1, <3>2
        <5>3. ~ (i <= s /\ i > s)
          BY <1>1, <3>2
        <5> QED
          BY <4>1, <4>2, <5>1, <5>2, <5>3, Zenon
    <3>4. s % 4 = 1
      BY <1>7, <3>3, Zenon DEF Whole
    <3>5. Len(end.buffer) = 1
      BY <3>2, <3>4, Zenon DEF Decoded
    <3> QED
      BY <1>2, <1>7, <3>5, Zenon
  <2> QED
    BY <2>1, <2>2, Zenon
<1> QED
  BY <1>6, <1>7, Zenon

LEMMA TailTyped ==
    ASSUME NEW T, NEW s \in Seq(T), s # <<>>
    PROVE  Tail(s) \in Seq(T)
OBVIOUS

(* A message, what is read of it and what it asks for. *)
ReadAs(given, selection, append, P, size, target) ==
    /\ given \in Seq(0..66) /\ selection \in {"missing", "c", "p"}
    /\ append = (given # <<>> /\ given[1] = Plus)
    /\ P = (IF append THEN Tail(given) ELSE given)
    /\ size = Cardinality({i \in 1 .. Len(P) : P[i] # Pad})
    /\ target = (IF selection = "p" THEN "p" ELSE "c")
AsksFor(given, selection, append, P, size, target) ==
    osc_clipboard(selection, given) =
        IF given = <<Question>> THEN <<GetClipboard(target)>>
        ELSE IF Whole(P, size)
        THEN <<SetClipboard(target, [j \in 1 .. (6 * size) \div 8 |-> ByteAt(P, j)], append)>>
        ELSE <<>>

LEMMA ClipboardOf ==
    ASSUME NEW given, NEW selection, NEW append, NEW P, NEW size, NEW target,
           ReadAs(given, selection, append, P, size, target)
    PROVE  AsksFor(given, selection, append, P, size, target)
<1>0. /\ given \in Seq(0..66) /\ selection \in {"missing", "c", "p"}
      /\ append = (given # <<>> /\ given[1] = Plus)
      /\ P = (IF append THEN Tail(given) ELSE given)
      /\ size = Cardinality({i \in 1 .. Len(P) : P[i] # Pad})
      /\ target = (IF selection = "p" THEN "p" ELSE "c")
  BY Zenon DEF ReadAs
<1> DEFINE bytes == [j \in 1 .. (6 * size) \div 8 |-> ByteAt(P, j)]
           text == decode_base64(P)
<1>1. P \in Seq(0..66)
  <2> DEFINE T == 0..66
  <2>1. given \in Seq(T)
    BY <1>0
  <2> HIDE DEF T
  <2>2. append => Tail(given) \in Seq(T)
    BY <1>0, <2>1, TailTyped
  <2>3. P \in Seq(T)
    BY <1>0, <2>1, <2>2, Zenon
  <2> QED
    BY <2>3, Zenon DEF T
<1>2. text = IF Whole(P, size) THEN {bytes} ELSE {}
  BY <1>0, <1>1, DecodeExact
<1>3. target = IF selection = "missing" THEN "c" ELSE selection
  BY <1>0
<1>4. osc_clipboard(selection, given) =
        IF given = <<Question>> THEN <<GetClipboard(target)>>
        ELSE IF text = {} THEN <<>>
        ELSE <<SetClipboard(target, CHOOSE t \in text : TRUE, append)>>
  <2> DEFINE a == given # <<>> /\ given[1] = Plus
             p == IF a THEN Tail(given) ELSE given
             c == IF selection = "missing" THEN "c" ELSE selection
  <2>1. osc_clipboard(selection, given) =
            IF given = <<Question>> THEN <<GetClipboard(c)>>
            ELSE IF decode_base64(p) = {} THEN <<>>
            ELSE <<SetClipboard(c, CHOOSE t \in decode_base64(p) : TRUE, a)>>
    BY Zenon DEF osc_clipboard
  <2>2. append = a
    BY <1>0, Zenon
  <2>3. c = target
    BY <1>3
  <2>4. P = p
    <3>1. CASE a
      BY <1>0, <3>1
    <3>2. CASE ~ a
      BY <1>0, <3>2
    <3> QED
      BY <3>1, <3>2, Zenon
  <2> HIDE DEF a, c
  <2> HIDE DEF p
  <2> QED
    BY <2>1, <2>2, <2>3, <2>4
<1> SUFFICES osc_clipboard(selection, given) =
                  IF given = <<Question>> THEN <<GetClipboard(target)>>
                  ELSE IF Whole(P, size) THEN <<SetClipboard(target, bytes, append)>>
                  ELSE <<>>
  BY Zenon DEF AsksFor
<1> HIDE DEF bytes, text
<1>5. {bytes} # {} /\ (CHOOSE t \in {bytes} : TRUE) = bytes
  OBVIOUS
<1>6. CASE given = <<Question>>
  BY <1>4, <1>6, Zenon
<1>7. CASE given # <<Question>> /\ Whole(P, size)
  BY <1>2, <1>4, <1>5, <1>7, Zenon
<1>8. CASE given # <<Question>> /\ ~ Whole(P, size)
  BY <1>2, <1>4, <1>8, Zenon
<1> QED
  BY <1>6, <1>7, <1>8, Zenon

(* What ClipboardExact says of a message, apart from the sample it is in. *)
StoredExactly(given, selection) ==
    LET append == given # <<>> /\ given[1] = Plus
        payload == IF append THEN Tail(given) ELSE given
        size == Cardinality({i \in DOMAIN payload : payload[i] # Pad})
        stream(k) == Bit(payload[k \div 6 + 1], <<32, 16, 8, 4, 2, 1>>[(k % 6) + 1])
        byte(j) == Value([k \in 1..8 |-> stream(8 * (j - 1) + k - 1)], 2)
        wellformed == /\ \A i \in DOMAIN payload : payload[i] \notin NotBase64
                      /\ \A i \in DOMAIN payload : i > size => payload[i] = Pad
                      /\ size % 4 # 1
        target == IF selection = "p" THEN "p" ELSE "c"
    IN osc_clipboard(selection, given)
           = IF given = <<Question>> THEN <<GetClipboard(target)>>
             ELSE IF wellformed
             THEN <<SetClipboard(target, [j \in 1 .. (6 * size) \div 8 |-> byte(j)], append)>>
             ELSE <<>>

(* Every clipboard message that is sampled is stored whole or not at all. *)
LEMMA ClipboardSampled == TakeClipboard => ClipboardExact'
<1> SUFFICES ASSUME NEW given \in Lists(Characters, MaxCharacters),
                    NEW selection \in {"missing", "c", "p"},
                    sample' = [of |-> "clipboard", payload |-> given, selection |-> selection]
             PROVE  ClipboardExact'
  BY Zenon DEF TakeClipboard
<1> DEFINE append == given # <<>> /\ given[1] = Plus
           P == IF append THEN Tail(given) ELSE given
           size == Cardinality({i \in DOMAIN P : P[i] # Pad})
           stream(k) == Bit(P[k \div 6 + 1], <<32, 16, 8, 4, 2, 1>>[(k % 6) + 1])
           byte(j) == Value([k \in 1..8 |-> stream(8 * (j - 1) + k - 1)], 2)
           wellformed == /\ \A i \in DOMAIN P : P[i] \notin NotBase64
                         /\ \A i \in DOMAIN P : i > size => P[i] = Pad
                         /\ size % 4 # 1
           target == IF selection = "p" THEN "p" ELSE "c"
           bytes == [j \in 1 .. (6 * size) \div 8 |-> byte(j)]
           asked == IF given = <<Question>> THEN <<GetClipboard(target)>>
                    ELSE IF wellformed THEN <<SetClipboard(target, bytes, append)>>
                    ELSE <<>>
<1>1. sample'.payload = given /\ sample'.selection = selection
  OBVIOUS
<1>2. given \in Seq(0..66)
  <2>1. given \in Seq(Characters)
    <3>1. MaxCharacters \in Nat
      BY ConversionsAssumption
    <3> QED
      BY <3>1, ListTyped
  <2>2. Characters \subseteq 0..66
    BY ConversionsAssumption
  <2> QED
    BY <2>1, <2>2, SeqWider
<1>3. DOMAIN P = 1 .. Len(P)
  <2> DEFINE T == 0..66
  <2>1. given \in Seq(T)
    BY <1>2
  <2> HIDE DEF T
  <2>2. given # <<>> => Tail(given) \in Seq(T)
    BY <2>1, TailTyped
  <2>3. P \in Seq(T)
    BY <2>1, <2>2, Zenon
  <2> HIDE DEF P
  <2> QED
    BY <2>3
<1>4. bytes = [j \in 1 .. (6 * size) \div 8 |-> ByteAt(P, j)]
  <2> HIDE DEF P, size
  <2> QED
    BY Zenon DEF ByteAt, Stream
<1>5. wellformed <=> Whole(P, size)
  <2> HIDE DEF P, size
  <2> QED
    BY <1>3, Zenon DEF Whole
<1>6. ClipboardExact' = ((sample'.of = "clipboard") => osc_clipboard(selection, given) = asked)
  <2>1. ClipboardExact' = ((sample'.of = "clipboard") =>
                                StoredExactly(sample'.payload, sample'.selection))
    BY Zenon DEF ClipboardExact, StoredExactly
  <2>2. StoredExactly(given, selection) <=> osc_clipboard(selection, given) = asked
    BY Zenon DEF StoredExactly
  <2> HIDE DEF asked
  <2> QED
    BY <1>1, <2>1, <2>2, Zenon
<1>7. size = Cardinality({i \in 1 .. Len(P) : P[i] # Pad})
  BY <1>3, Zenon
<1> HIDE DEF append, P, size, wellformed, target, bytes
<1>8. osc_clipboard(selection, given) = asked
  <2>1. append = (given # <<>> /\ given[1] = Plus)
    BY Zenon DEF append
  <2>2. P = (IF append THEN Tail(given) ELSE given)
    BY Zenon DEF P, append
  <2>3. target = (IF selection = "p" THEN "p" ELSE "c")
    BY Zenon DEF target
  <2>4. selection \in {"missing", "c", "p"}
    OBVIOUS
  <2>5. osc_clipboard(selection, given) =
                  IF given = <<Question>> THEN <<GetClipboard(target)>>
                  ELSE IF Whole(P, size)
                  THEN <<SetClipboard(target, [j \in 1 .. (6 * size) \div 8 |-> ByteAt(P, j)], append)>>
                  ELSE <<>>
    <3>1. ReadAs(given, selection, append, P, size, target)
      BY <1>2, <1>7, <2>1, <2>2, <2>3, <2>4, Zenon DEF ReadAs
    <3>2. AsksFor(given, selection, append, P, size, target)
      BY <3>1, ClipboardOf, Zenon
    <3> QED
      BY <3>2, Zenon DEF AsksFor
  <2> QED
    BY <1>4, <1>5, <2>5, Zenon
<1> QED
  BY <1>6, <1>8, Zenon

-----------------------------------------------------------------------------
(* The properties, of every behaviour.                                        *)

(* A step samples one kind of value, or puts the sample away, or does nothing. *)
LEMMA Kinds ==
    /\ TakeKeys => sample'.of = "keys"
    /\ TakeMouse => sample'.of = "mouse"
    /\ TakeColor => sample'.of = "color"
    /\ TakeSgr => sample'.of = "sgr"
    /\ TakePalette => sample'.of = "palette"
    /\ TakeChannel => sample'.of = "channel"
    /\ TakeClipboard => sample'.of = "clipboard"
    /\ Done => sample'.of = "nothing"
    /\ Init => sample.of = "nothing"
<1>1. TakeKeys => sample'.of = "keys"
  BY DEF TakeKeys
<1>2. TakeMouse => sample'.of = "mouse"
  BY DEF TakeMouse
<1>3. TakeColor => sample'.of = "color"
  BY DEF TakeColor
<1>4. TakeSgr => sample'.of = "sgr"
  BY DEF TakeSgr
<1>5. TakePalette => sample'.of = "palette"
  BY DEF TakePalette
<1>6. TakeChannel => sample'.of = "channel"
  BY DEF TakeChannel
<1>7. TakeClipboard => sample'.of = "clipboard"
  BY DEF TakeClipboard
<1>8. Nothing.of = "nothing"
  BY DEF Nothing
<1>9. Done => sample'.of = "nothing"
  BY <1>8 DEF Done
<1>10. Init => sample.of = "nothing"
  BY <1>8 DEF Init
<1> QED
  BY <1>1, <1>2, <1>3, <1>4, <1>5, <1>6, <1>7, <1>9, <1>10, Zenon

(* A property of one kind of sample holds of every other kind. *)
LEMMA Silent ==
    /\ sample.of # "mouse" => MouseReadable
    /\ sample.of # "keys" => KeysReadable
    /\ sample.of # "color" => ColorReadable
    /\ sample.of # "sgr" => PenFollowsSgr
    /\ sample.of # "palette" => PairsIndependent
    /\ sample.of # "channel" => ChannelsScale
    /\ sample.of # "clipboard" => ClipboardExact
BY Zenon DEF MouseReadable, KeysReadable, ColorReadable, PenFollowsSgr, PairsIndependent,
             ChannelsScale, ClipboardExact

LEMMA SilentNext ==
    /\ sample'.of # "mouse" => MouseReadable'
    /\ sample'.of # "keys" => KeysReadable'
    /\ sample'.of # "color" => ColorReadable'
    /\ sample'.of # "sgr" => PenFollowsSgr'
    /\ sample'.of # "palette" => PairsIndependent'
    /\ sample'.of # "channel" => ChannelsScale'
    /\ sample'.of # "clipboard" => ClipboardExact'
BY Zenon DEF MouseReadable, KeysReadable, ColorReadable, PenFollowsSgr, PairsIndependent,
             ChannelsScale, ClipboardExact

(* Every kind of sample there is, for a step. *)
LEMMA NextKinds ==
    Next => \/ TakeMouse \/ TakeKeys \/ TakeColor \/ TakeSgr
            \/ TakePalette \/ TakeChannel \/ TakeClipboard
            \/ sample'.of = "nothing"
BY Kinds, Zenon DEF Next

Readable == InputReadable /\ PenFollowsSgr /\ RequestsExact

LEMMA ReadableStep == Next => Readable'
<1> USE NextKinds
<1>0. Readable' = (MouseReadable' /\ KeysReadable' /\ ColorReadable' /\ PenFollowsSgr'
                   /\ PairsIndependent' /\ ChannelsScale' /\ ClipboardExact')
  BY Zenon DEF Readable, InputReadable, RequestsExact
<1>1. TakeMouse => Readable'
  BY <1>0, Kinds, SilentNext, MouseSampled
<1>2. TakeKeys => Readable'
  BY <1>0, Kinds, SilentNext, KeysSampled
<1>3. TakeColor => Readable'
  BY <1>0, Kinds, SilentNext, ColorSampled
<1>4. TakeSgr => Readable'
  BY <1>0, Kinds, SilentNext, SgrSampled
<1>5. TakePalette => Readable'
  BY <1>0, Kinds, SilentNext, PaletteSampled
<1>6. TakeChannel => Readable'
  BY <1>0, Kinds, SilentNext, ChannelSampled
<1>7. TakeClipboard => Readable'
  BY <1>0, Kinds, SilentNext, ClipboardSampled
<1>8. sample'.of = "nothing" => Readable'
  BY <1>0, SilentNext
<1> QED
  BY <1>1, <1>2, <1>3, <1>4, <1>5, <1>6, <1>7, <1>8, Zenon

LEMMA ReadableStarts == Init => Readable
BY Kinds, Silent DEF Readable, InputReadable, RequestsExact

(* A step that leaves the sample alone leaves the properties alone. *)
LEMMA MouseStays == UNCHANGED sample => MouseReadable' = MouseReadable
BY DEF MouseReadable
LEMMA KeysStay == UNCHANGED sample => KeysReadable' = KeysReadable
BY DEF KeysReadable
LEMMA ColorStays == UNCHANGED sample => ColorReadable' = ColorReadable
BY DEF ColorReadable
LEMMA SgrStays == UNCHANGED sample => PenFollowsSgr' = PenFollowsSgr
BY DEF PenFollowsSgr
LEMMA PaletteStays == UNCHANGED sample => PairsIndependent' = PairsIndependent
BY DEF PairsIndependent
LEMMA ChannelStays == UNCHANGED sample => ChannelsScale' = ChannelsScale
BY DEF ChannelsScale
LEMMA ClipboardStays == UNCHANGED sample => ClipboardExact' = ClipboardExact
BY DEF ClipboardExact

LEMMA ReadableStays == UNCHANGED sample /\ Readable => Readable'
<1> DEFINE all == /\ MouseReadable /\ KeysReadable /\ ColorReadable /\ PenFollowsSgr
                  /\ PairsIndependent /\ ChannelsScale /\ ClipboardExact
<1>1. Readable = all
  BY Zenon DEF Readable, InputReadable, RequestsExact
<1>2. Readable' = all'
  BY Zenon DEF Readable, InputReadable, RequestsExact
<1>3. UNCHANGED sample /\ all => all'
  BY MouseStays, KeysStay, ColorStays, SgrStays, PaletteStays, ChannelStays, ClipboardStays
<1> QED
  BY <1>1, <1>2, <1>3, Zenon

(* All that the conversions promise, of every sample there can be. *)
THEOREM ConversionsReadable == Spec => []Readable
<1>1. Init => Readable
  BY ReadableStarts
<1>2. Readable /\ [Next]_sample => Readable'
  BY ReadableStep, ReadableStays, Zenon
<1> QED
  BY <1>1, <1>2, PTL DEF Spec

(* In the modes it was encoded for, a mouse report says which event it was,   *)
(* two keys without modifiers are the same bytes only if they are the same    *)
(* character, and a colour report is what the reader of colour messages takes *)
(* it for: for every key, mouse event, mode and colour (src/src/input.rs).    *)
THEOREM InputHolds == Spec => []InputReadable
<1>1. Readable => InputReadable
  BY DEF Readable
<1> QED
  BY <1>1, ConversionsReadable, PTL

(* Any number of SGR commands in one sequence makes of the pen what they make *)
(* of it one after another, semicolons or colons (handle_sgr).                *)
THEOREM SgrHolds == Spec => []PenFollowsSgr
<1>1. Readable => PenFollowsSgr
  BY DEF Readable
<1> QED
  BY <1>1, ConversionsReadable, PTL

(* OSC 4 pairs are independent whatever their number, a colour channel keeps  *)
(* its first two digits, and a clipboard payload of any length is decoded     *)
(* whole or stores nothing (osc_palette, parse_osc_channel, decode_base64).   *)
THEOREM RequestsHold == Spec => []RequestsExact
<1>1. Readable => RequestsExact
  BY DEF Readable
<1> QED
  BY <1>1, ConversionsReadable, PTL
=============================================================================
