--------------------------- MODULE TerminalProofs ----------------------------
(* For screens of every size and every number a control sequence can carry,   *)
(* the cursor and the scroll region stay on the screen, what the terminal     *)
(* reports is enough for a caller to stay up to date, and a wrap is pending   *)
(* only at the edge.  Cells are opaque where the cursor is concerned: what a  *)
(* handler writes into them never decides where it goes, but for the one step *)
(* off a trailing half, which keeps it on its line.                           *)
EXTENDS Terminal, FiniteSetTheorems, SequenceTheorems, TLAPS

Fields ==
    {"size", "primary", "alternate", "on_alternate", "cursor", "saved", "wrap_pending",
     "pen", "modes", "title", "scroll_top", "scroll_bottom", "replies", "scrollback",
     "scrollback_cells", "hyperlink_counter", "events"}

(* A terminal is a record of these fields. *)
Shape(t) == t = [f \in Fields |-> t[f]]

(* The inductive invariant: a saved cursor may lie off the screen, because a  *)
(* resize leaves it alone, but it is a pair of numbers that can be clamped.   *)
Sound(t) ==
    /\ Shape(t)
    /\ t.size \in Size
    /\ Bounded(t)
    /\ t.saved.cursor \in [row : Nat, col : Nat]

(* Nothing that matters to Sound changed. *)
Same(t, u) ==
    /\ Shape(u)
    /\ u.size = t.size /\ u.cursor = t.cursor /\ u.saved = t.saved
    /\ u.scroll_top = t.scroll_top /\ u.scroll_bottom = t.scroll_bottom
    /\ DOMAIN u.primary.cells = DOMAIN t.primary.cells
    /\ DOMAIN u.alternate.cells = DOMAIN t.alternate.cells

LEMMA SoundFrame ==
    ASSUME NEW t, NEW u, Sound(t), Same(t, u)
    PROVE  Sound(u)
BY DEF Sound, Same, Bounded, last_row, last_col, full_screen

LEMMA SameTrans ==
    ASSUME NEW t, NEW u, NEW v, Same(t, u), Same(u, v)
    PROVE  Same(t, v)
BY DEF Same

LEMMA WithActiveSame ==
    ASSUME NEW t, Shape(t), NEW screen, DOMAIN screen.cells = DOMAIN active(t).cells
    PROVE  Same(t, with_active(t, screen))
BY DEF Same, Shape, Fields, active, with_active

(* No operation but resize changes how many rows a screen has. *)
LEMMA RowsKept ==
    /\ \A s, row, r : DOMAIN with_row(s, row, r).cells = DOMAIN s.cells
    /\ \A s, row, start, end, e :
          DOMAIN erase_row_cells(s, row, start, end, e).cells = DOMAIN s.cells
    /\ \A s, start, end, e : DOMAIN erase_rows(s, start, end, e).cells = DOMAIN s.cells
    /\ \A s, e : DOMAIN clear_all(s, e).cells = DOMAIN s.cells
BY DEF with_row, erase_row_cells, erase_rows, clear_all

LEMMA LinesKept ==
    /\ \A s, row, n, top, bottom, e :
          /\ DOMAIN insert_lines(s, row, n, top, bottom, e).cells = DOMAIN s.cells
          /\ DOMAIN delete_lines(s, row, n, top, bottom, e).cells = DOMAIN s.cells
    /\ \A s, n, top, bottom, e :
          /\ DOMAIN scroll_up(s, n, top, bottom, e).cells = DOMAIN s.cells
          /\ DOMAIN scroll_down(s, n, top, bottom, e).cells = DOMAIN s.cells
<1>1. \A s, n, top, bottom, e :
          /\ DOMAIN rotate_up(s, n, top, bottom, e).cells = DOMAIN s.cells
          /\ DOMAIN rotate_down(s, n, top, bottom, e).cells = DOMAIN s.cells
  BY DEF rotate_up, rotate_down
<1> QED
  BY <1>1, RowsKept DEF insert_lines, delete_lines, scroll_up, scroll_down

LEMMA ReportSame ==
    ASSUME NEW t, Shape(t), NEW flag
    PROVE  Same(t, report(t, flag))
BY DEF Same, Shape, Fields, report

LEMMA OfferSame ==
    ASSUME NEW t, Shape(t), NEW payload
    PROVE  Same(t, offer(t, payload))
BY DEF Same, Shape, Fields, offer

LEMMA PushSame ==
    ASSUME NEW t, Shape(t), NEW rows
    PROVE  Same(t, push_displaced_to_scrollback(t, rows))
<1> DEFINE lines == contents(rows)
           u == [t EXCEPT !.scrollback = @ \o lines, !.scrollback_cells = @ + CellCount(lines)]
<1>1. Same(t, u)
  BY DEF Same, Shape, Fields
<1>2. Same(u, report(u, "scrollback_line_added"))
  BY <1>1, ReportSame DEF Same
<1>3. Same(t, t)
  BY DEF Same
<1> QED
  BY <1>1, <1>2, <1>3, SameTrans DEF push_displaced_to_scrollback

LEMMA AtSound ==
    ASSUME NEW t, Sound(t), NEW row \in 0 .. last_row(t), NEW col \in 0 .. last_col(t)
    PROVE  Sound(at(t, row, col))
BY DEF Sound, Shape, Fields, Bounded, at, last_row, last_col, full_screen

-----------------------------------------------------------------------------
(* The limits of the screen are numbers, and clamping stays between them.     *)
LEMMA Limits0 ==
    ASSUME NEW t, Sound(t)
    PROVE  /\ last_row(t) \in Nat /\ last_col(t) \in Nat
           /\ 0 \in 0 .. last_row(t) /\ 0 \in 0 .. last_col(t)
           /\ t.cursor.row \in 0 .. last_row(t) /\ t.cursor.col \in 0 .. last_col(t)
           /\ t.scroll_top \in 0 .. last_row(t) /\ t.scroll_bottom \in 0 .. last_row(t)
           /\ t.scroll_top <= t.scroll_bottom
           /\ t.size.rows = last_row(t) + 1 /\ t.size.cols = last_col(t) + 1
<1> DEFINE rows == t.size.rows
           cols == t.size.cols
<1>1. rows \in Nat \ {0} /\ cols \in Nat \ {0}
  BY DEF Sound, Size
<1>2. last_row(t) = rows - 1 /\ last_col(t) = cols - 1
  BY DEF last_row, last_col
<1>3. /\ t.cursor.row \in 0 .. rows - 1 /\ t.cursor.col \in 0 .. cols - 1
      /\ t.scroll_top \in 0 .. rows - 1 /\ t.scroll_bottom \in 0 .. rows - 1
      /\ t.scroll_top <= t.scroll_bottom
  BY <1>2 DEF Sound, Bounded, full_screen
<1> HIDE DEF rows, cols
<1>4. /\ rows - 1 \in Nat /\ cols - 1 \in Nat
      /\ 0 \in 0 .. rows - 1 /\ 0 \in 0 .. cols - 1
      /\ rows = (rows - 1) + 1 /\ cols = (cols - 1) + 1
  BY <1>1
<1>5. t.size.rows = rows /\ t.size.cols = cols
  BY DEF rows, cols
<1> QED
  BY <1>2, <1>3, <1>4, <1>5

LEMMA ClampInside ==
    ASSUME NEW t, Sound(t), NEW row \in Nat
    PROVE  clamp(row, origin_bounds(t)) \in 0 .. last_row(t)
BY Limits0 DEF clamp, origin_bounds, Least, Greatest

LEMMA RepairSound ==
    ASSUME NEW t, Sound(t)
    PROVE  Sound(repair_cursor_cell(t))
<1>1. CASE t.cursor.col > 0
  <2> DEFINE u == [t EXCEPT !.cursor.col = @ - 1]
  <2>1. u.cursor = [row |-> t.cursor.row, col |-> t.cursor.col - 1]
    BY DEF Sound, Bounded, Shape, Fields
  <2>2. t.cursor.col - 1 \in 0 .. last_col(t)
    BY <1>1, Limits0
  <2>3. /\ Shape(u) /\ u.size = t.size /\ u.saved = t.saved
        /\ u.primary = t.primary /\ u.alternate = t.alternate
        /\ u.scroll_top = t.scroll_top /\ u.scroll_bottom = t.scroll_bottom
    BY DEF Sound, Shape, Fields
  <2>4. Sound(u)
    BY <2>1, <2>2, <2>3, Limits0 DEF Sound, Bounded, last_row, last_col, full_screen
  <2> QED
    BY <2>4 DEF repair_cursor_cell
<1>2. CASE ~(t.cursor.col > 0)
  BY <1>2 DEF repair_cursor_cell
<1> QED
  BY <1>1, <1>2

(* What RIS makes of a new terminal, and then reports. *)
Restarted(t) ==
    [new(t.size) EXCEPT !.primary = mark_dirty(@), !.replies = t.replies,
                        !.hyperlink_counter = t.hyperlink_counter,
                        !.events = clear_requests(t.events)]

LEMMA RestartedParts ==
    ASSUME NEW t
    PROVE  LET u == Restarted(t)
           IN /\ Shape(u) /\ u.size = t.size /\ u.on_alternate = FALSE
              /\ u.events = clear_requests(t.events)
              /\ u.modes = DefaultModes /\ u.saved = DefaultSaved /\ u.wrap_pending = FALSE
<1> DEFINE n == new(t.size)
           u == [n EXCEPT !.primary = mark_dirty(@), !.replies = t.replies,
                          !.hyperlink_counter = t.hyperlink_counter,
                          !.events = clear_requests(t.events)]
<1>1. /\ n.size = t.size /\ n.on_alternate = FALSE
      /\ n.modes = DefaultModes /\ n.saved = DefaultSaved /\ n.wrap_pending = FALSE
  BY DEF new
<1>2. n = [f \in Fields |-> n[f]]
  BY DEF new, Fields
<1> HIDE DEF n
<1>3. u = [f \in Fields |-> u[f]]
  BY <1>2
<1>4. u.size = n.size /\ u.on_alternate = n.on_alternate /\ u.events = clear_requests(t.events)
  BY <1>2 DEF Fields
<1>5. u.modes = n.modes /\ u.saved = n.saved /\ u.wrap_pending = n.wrap_pending
  BY <1>2 DEF Fields
<1>6. u = Restarted(t)
  BY Zenon DEF Restarted, n
<1> HIDE DEF u
<1> QED
  BY <1>1, <1>3, <1>4, <1>5, <1>6 DEF Shape

(* A new terminal, and so a terminal after RIS. *)
LEMMA NewSound ==
    ASSUME NEW size \in Size
    PROVE  Sound(new(size))
<1> DEFINE u == new(size)
<1>1. /\ u.size = size /\ u.cursor = Home /\ u.saved.cursor = Home
      /\ u.scroll_top = 0 /\ u.scroll_bottom = size.rows - 1
  BY DEF new, DefaultSaved
<1>0. DOMAIN u.primary.cells = 1 .. size.rows /\ DOMAIN u.alternate.cells = 1 .. size.rows
  BY DEF new, blank_screen
<1>2. Shape(u)
  BY DEF Shape, Fields, new
<1>3. /\ 0 \in 0 .. size.rows - 1 /\ 0 \in 0 .. size.cols - 1
      /\ size.rows - 1 \in 0 .. size.rows - 1
  BY DEF Size
<1> HIDE DEF u
<1> QED
  BY <1>0, <1>1, <1>2, <1>3 DEF Sound, Bounded, last_row, last_col, full_screen, Home, u

-----------------------------------------------------------------------------
(* C0 and ESC *)

LEMMA ScrollUpSame ==
    ASSUME NEW t, Shape(t), NEW count
    PROVE  Same(t, scroll_up_screen(t, count))
<1> DEFINE s == scroll_up(active(t), count, t.scroll_top, t.scroll_bottom, t.pen)
           u == with_active(t, s)
           rows == scrolled_off(active(t), count, t.scroll_top, t.scroll_bottom)
<1>1. Same(t, u)
  BY WithActiveSame, LinesKept
<1>2. Same(u, push_displaced_to_scrollback(u, rows))
  BY <1>1, PushSame DEF Same
<1> QED
  BY <1>1, <1>2, SameTrans DEF scroll_up_screen

LEMMA LineFeedSound ==
    ASSUME NEW t, Sound(t)
    PROVE  Sound(line_feed(t))
<1> DEFINE u == [t EXCEPT !.wrap_pending = FALSE]
<1>1. Same(t, u)
  BY DEF Same, Sound, Shape, Fields
<1>2. Sound(u)
  BY <1>1, SoundFrame
<1>3. Sound(scroll_up_screen(u, 1))
  BY <1>2, ScrollUpSame, SoundFrame DEF Sound
<1>4. ASSUME t.cursor.row + 1 < t.size.rows PROVE Sound([u EXCEPT !.cursor.row = @ + 1])
  <2> DEFINE v == [u EXCEPT !.cursor.row = @ + 1]
  <2>1. v.cursor = [row |-> t.cursor.row + 1, col |-> t.cursor.col]
    <3>1. /\ u.cursor = t.cursor /\ v.cursor = [u.cursor EXCEPT !.row = @ + 1]
      BY <1>1 DEF Same, Shape, Fields
    <3>2. t.cursor = [row |-> t.cursor.row, col |-> t.cursor.col]
      BY DEF Sound, Bounded
    <3> HIDE DEF u, v
    <3> QED
      BY <3>1, <3>2
  <2>2. t.cursor.row + 1 \in 0 .. last_row(t)
    BY <1>4, Limits0
  <2>3. /\ Shape(v) /\ v.size = t.size /\ v.saved = t.saved
        /\ v.primary = t.primary /\ v.alternate = t.alternate
        /\ v.scroll_top = t.scroll_top /\ v.scroll_bottom = t.scroll_bottom
    <3>1. /\ u = [f \in Fields |-> u[f]] /\ u.size = t.size /\ u.saved = t.saved
          /\ u.primary = t.primary /\ u.alternate = t.alternate
          /\ u.scroll_top = t.scroll_top /\ u.scroll_bottom = t.scroll_bottom
      BY DEF Sound, Shape, Fields
    <3> HIDE DEF u
    <3>2. v = [f \in Fields |-> v[f]]
      BY <3>1
    <3>3. /\ v.size = u.size /\ v.saved = u.saved /\ v.primary = u.primary
          /\ v.alternate = u.alternate /\ v.scroll_top = u.scroll_top
          /\ v.scroll_bottom = u.scroll_bottom
      BY <3>1 DEF Fields
    <3> QED
      BY <3>1, <3>2, <3>3, Zenon DEF Shape
  <2> QED
    BY <2>1, <2>2, <2>3, Limits0 DEF Sound, Bounded, last_row, last_col, full_screen
<1> QED
  BY <1>2, <1>3, <1>4 DEF line_feed

LEMMA CarriageReturnSound ==
    ASSUME NEW t, Sound(t)
    PROVE  Sound(carriage_return(t))
BY Limits0, AtSound DEF carriage_return

LEMMA NextLineSound ==
    ASSUME NEW t, Sound(t)
    PROVE  Sound(next_line(t))
BY CarriageReturnSound, LineFeedSound DEF next_line

LEMMA BackspaceSound ==
    ASSUME NEW t, Sound(t)
    PROVE  Sound(backspace(t))
<1>1. Monus(t.cursor.col, 1) \in 0 .. last_col(t)
  BY Limits0 DEF Monus
<1> QED
  BY <1>1, Limits0, AtSound DEF backspace

LEMMA HorizontalTabSound ==
    ASSUME NEW t, Sound(t)
    PROVE  Sound(horizontal_tab(t))
<1>1. (t.cursor.col \div 8) * 8 + 8 \in Nat
  BY Limits0
<1> DEFINE next == ((t.cursor.col \div 8) * 8 + 8) % U16
<1>2. next \in Nat
  BY <1>1 DEF U16
<1> HIDE DEF next
<1>3. Least(next, last_col(t)) \in 0 .. last_col(t)
  BY <1>2, Limits0 DEF Least
<1> QED
  BY <1>3, Limits0, AtSound DEF horizontal_tab, next

LEMMA ReverseIndexSound ==
    ASSUME NEW t, Sound(t)
    PROVE  Sound(reverse_index(t))
<1> DEFINE u == [t EXCEPT !.wrap_pending = FALSE]
<1>1. Same(t, u)
  BY DEF Same, Sound, Shape, Fields
<1>2. Sound(u)
  BY <1>1, SoundFrame
<1> DEFINE screen == scroll_down(active(t), 1, t.scroll_top, t.scroll_bottom, t.pen)
<1>3. Sound(with_active(u, screen))
  <2>1. active(u) = active(t)
    BY DEF active, Sound, Shape, Fields
  <2>2. DOMAIN screen.cells = DOMAIN active(u).cells
    BY <2>1, LinesKept
  <2>3. Shape(u)
    BY <1>1 DEF Same
  <2> HIDE DEF u, screen
  <2>4. Same(u, with_active(u, screen))
    BY <2>2, <2>3, WithActiveSame
  <2> QED
    BY <1>2, <2>4, SoundFrame
<1>4. ASSUME t.cursor.row > 0 PROVE Sound([u EXCEPT !.cursor.row = @ - 1])
  <2> DEFINE v == [u EXCEPT !.cursor.row = @ - 1]
  <2>1. v.cursor = [row |-> t.cursor.row - 1, col |-> t.cursor.col]
    <3>1. /\ u.cursor = t.cursor /\ v.cursor = [u.cursor EXCEPT !.row = @ - 1]
      BY <1>1 DEF Same, Shape, Fields
    <3>2. t.cursor = [row |-> t.cursor.row, col |-> t.cursor.col]
      BY DEF Sound, Bounded
    <3> HIDE DEF u, v
    <3> QED
      BY <3>1, <3>2
  <2>2. t.cursor.row - 1 \in 0 .. last_row(t)
    BY <1>4, Limits0
  <2>3. /\ Shape(v) /\ v.size = t.size /\ v.saved = t.saved
        /\ v.primary = t.primary /\ v.alternate = t.alternate
        /\ v.scroll_top = t.scroll_top /\ v.scroll_bottom = t.scroll_bottom
    <3>1. /\ u = [f \in Fields |-> u[f]] /\ u.size = t.size /\ u.saved = t.saved
          /\ u.primary = t.primary /\ u.alternate = t.alternate
          /\ u.scroll_top = t.scroll_top /\ u.scroll_bottom = t.scroll_bottom
      BY DEF Sound, Shape, Fields
    <3> HIDE DEF u
    <3>2. v = [f \in Fields |-> v[f]]
      BY <3>1
    <3>3. /\ v.size = u.size /\ v.saved = u.saved /\ v.primary = u.primary
          /\ v.alternate = u.alternate /\ v.scroll_top = u.scroll_top
          /\ v.scroll_bottom = u.scroll_bottom
      BY <3>1 DEF Fields
    <3> QED
      BY <3>1, <3>2, <3>3, Zenon DEF Shape
  <2> QED
    BY <2>1, <2>2, <2>3, Limits0 DEF Sound, Bounded, last_row, last_col, full_screen
<1> QED
  BY <1>2, <1>3, <1>4 DEF reverse_index

LEMMA SaveCursorSound ==
    ASSUME NEW t, Sound(t)
    PROVE  /\ Sound(save_cursor(t))
           /\ Sound([save_cursor(t) EXCEPT !.on_alternate = TRUE])
<1> DEFINE u == save_cursor(t)
           v == [u EXCEPT !.on_alternate = TRUE]
<1>1. /\ Shape(u) /\ u.size = t.size /\ u.cursor = t.cursor
      /\ u.primary = t.primary /\ u.alternate = t.alternate
      /\ u.scroll_top = t.scroll_top /\ u.scroll_bottom = t.scroll_bottom
      /\ u.saved.cursor = t.cursor
  BY DEF save_cursor, Sound, Shape, Fields
<1>2. t.cursor \in [row : Nat, col : Nat]
  BY Limits0 DEF Sound, Bounded
<1>3. Sound(u)
  BY <1>1, <1>2 DEF Sound, Bounded, last_row, last_col, full_screen
<1>4. Same(u, v)
  BY <1>1 DEF Same, Shape, Fields
<1> QED
  BY <1>3, <1>4, SoundFrame

(* A cursor anywhere, once clamped, is on the screen. *)
LEMMA ClampCursorSound ==
    ASSUME NEW t, NEW u, Sound(t), Shape(u),
           u.size = t.size, u.scroll_top = t.scroll_top, u.scroll_bottom = t.scroll_bottom,
           u.primary = t.primary, u.alternate = t.alternate,
           u.saved = t.saved, u.cursor \in [row : Nat, col : Nat]
    PROVE  Sound(clamp_cursor(u))
<1> DEFINE row == clamp(u.cursor.row, origin_bounds(u))
           col == Least(u.cursor.col, last_col(u))
           v == [u EXCEPT !.cursor = [row |-> clamp(@.row, origin_bounds(u)),
                                      col |-> Least(@.col, last_col(u))]]
<1>1. row \in 0 .. last_row(t)
  BY Limits0 DEF clamp, origin_bounds, Least, Greatest, last_row
<1>2. col \in 0 .. last_col(t)
  BY Limits0 DEF Least, last_col
<1>3. /\ Shape(v) /\ v.size = t.size /\ v.saved = t.saved
      /\ v.primary = t.primary /\ v.alternate = t.alternate
      /\ v.scroll_top = t.scroll_top /\ v.scroll_bottom = t.scroll_bottom
      /\ v.cursor = [row |-> row, col |-> col]
  BY DEF Shape, Fields
<1> HIDE DEF row, col, v
<1>4. Sound(v)
  BY <1>1, <1>2, <1>3, Limits0 DEF Sound, Bounded, last_row, last_col, full_screen
<1> QED
  BY <1>4, RepairSound DEF clamp_cursor, v

LEMMA RestoreCursorSound ==
    ASSUME NEW t, Sound(t)
    PROVE  Sound(restore_cursor(t))
<1> DEFINE u == [t EXCEPT !.cursor = t.saved.cursor, !.pen = t.saved.pen,
                          !.wrap_pending = t.saved.wrap_pending,
                          !.modes.on = IF t.saved.origin THEN @ \cup {"origin"}
                                       ELSE @ \ {"origin"}]
<1>1. /\ Shape(u) /\ u.size = t.size /\ u.saved = t.saved
      /\ u.primary = t.primary /\ u.alternate = t.alternate
      /\ u.scroll_top = t.scroll_top /\ u.scroll_bottom = t.scroll_bottom
      /\ u.cursor = t.saved.cursor
  BY DEF Sound, Shape, Fields
<1> HIDE DEF u
<1>2. Sound(clamp_cursor(u))
  BY <1>1, ClampCursorSound DEF Sound
<1> QED
  BY <1>2 DEF restore_cursor, u

LEMMA ResetSound ==
    ASSUME NEW t, Sound(t)
    PROVE  Sound(reset_child_state(t))
<1> DEFINE u == [new(t.size) EXCEPT !.primary = mark_dirty(@), !.replies = t.replies,
                                    !.hyperlink_counter = t.hyperlink_counter,
                                    !.events = clear_requests(t.events)]
<1>1. Sound(new(t.size))
  BY NewSound DEF Sound
<1>2. Same(new(t.size), u)
  <2>1. DOMAIN u.primary.cells = DOMAIN new(t.size).primary.cells
    BY DEF new, blank_screen, mark_dirty
  <2>2. /\ Shape(u)
        /\ u.size = new(t.size).size /\ u.cursor = new(t.size).cursor
        /\ u.saved = new(t.size).saved /\ u.alternate = new(t.size).alternate
        /\ u.scroll_top = new(t.size).scroll_top
        /\ u.scroll_bottom = new(t.size).scroll_bottom
    BY <1>1 DEF Sound, Shape, Fields
  <2> QED
    BY <2>1, <2>2 DEF Same
<1>3. Same(u, report(u, "terminal_reset"))
  BY <1>2, ReportSame DEF Same
<1> QED
  BY <1>1, <1>2, <1>3, SameTrans, SoundFrame DEF reset_child_state

-----------------------------------------------------------------------------
(* print *)

LEMMA AfterPendingWrapSound ==
    ASSUME NEW t, Sound(t)
    PROVE  Sound(after_pending_wrap(t))
<1> DEFINE u == [t EXCEPT !.wrap_pending = FALSE]
<1>1. Same(t, u)
  BY DEF Same, Sound, Shape, Fields
<1>2. Sound(u)
  BY <1>1, SoundFrame
<1> QED
  BY <1>2, NextLineSound DEF after_pending_wrap

LEMMA ToColumnSound ==
    ASSUME NEW t, Sound(t), NEW col \in 0 .. last_col(t)
    PROVE  Sound([t EXCEPT !.cursor.col = col])
<1> DEFINE u == [t EXCEPT !.cursor.col = col]
<1>1. u.cursor = [row |-> t.cursor.row, col |-> col]
  BY DEF Sound, Bounded, Shape, Fields
<1>2. /\ Shape(u) /\ u.size = t.size /\ u.saved = t.saved
      /\ u.primary = t.primary /\ u.alternate = t.alternate
      /\ u.scroll_top = t.scroll_top /\ u.scroll_bottom = t.scroll_bottom
  BY DEF Sound, Shape, Fields
<1> HIDE DEF u
<1> QED
  BY <1>1, <1>2, Limits0 DEF Sound, Bounded, last_row, last_col, full_screen, u

LEMMA MakeRoomSound ==
    ASSUME NEW t, Sound(t), NEW width
    PROVE  Sound(make_room(t, width))
<1>1. last_col(t) \in 0 .. last_col(t)
  BY Limits0
<1>2. Sound([t EXCEPT !.cursor.col = last_col(t)])
  BY <1>1, ToColumnSound
<1> QED
  BY <1>2, NextLineSound DEF make_room

LEMMA WrapSame ==
    ASSUME NEW t, Shape(t), NEW pending
    PROVE  Same(t, [t EXCEPT !.wrap_pending = pending])
BY DEF Same, Shape, Fields

LEMMA PutSound ==
    ASSUME NEW t, Sound(t), NEW ch
    PROVE  Sound(put(t, ch))
<1> DEFINE line == IF "insert" \in t.modes.on
                   THEN insert_columns(cursor_line(t), t.cursor.col, Width(ch), t.pen)
                   ELSE cursor_line(t)
           u == with_cursor_line(t, put_glyph(line, t.cursor.col, ch, Width(ch), t.pen))
           next_col == t.cursor.col + Width(ch)
           edge == [u EXCEPT !.cursor.col = last_col(t), !.wrap_pending = autowrap(t)]
           next == [u EXCEPT !.cursor.col = next_col, !.wrap_pending = FALSE]
<1>1. Same(t, u)
  BY WithActiveSame, RowsKept DEF with_cursor_line, Sound
<1>2. Sound(u) /\ last_col(u) = last_col(t)
  BY <1>1, SoundFrame DEF Same, last_col
<1> HIDE DEF u
<1>3. Sound(edge)
  <2>1. last_col(t) \in 0 .. last_col(u)
    BY <1>2, Limits0
  <2>2. Sound([u EXCEPT !.cursor.col = last_col(t)])
    BY <1>2, <2>1, ToColumnSound
  <2>3. Same([u EXCEPT !.cursor.col = last_col(t)],
             [[u EXCEPT !.cursor.col = last_col(t)] EXCEPT !.wrap_pending = autowrap(t)])
    BY <2>2, WrapSame DEF Sound
  <2>4. edge = [[u EXCEPT !.cursor.col = last_col(t)] EXCEPT !.wrap_pending = autowrap(t)]
    OBVIOUS
  <2> QED
    BY <2>2, <2>3, <2>4, SoundFrame
<1>4. ASSUME ~(next_col >= t.size.cols) PROVE Sound(next)
  <2>1. next_col \in 0 .. last_col(u)
    BY <1>2, <1>4, Limits0 DEF Width
  <2>2. Sound([u EXCEPT !.cursor.col = next_col])
    BY <1>2, <2>1, ToColumnSound
  <2>3. Same([u EXCEPT !.cursor.col = next_col],
             [[u EXCEPT !.cursor.col = next_col] EXCEPT !.wrap_pending = FALSE])
    BY <2>2, WrapSame DEF Sound
  <2>4. next = [[u EXCEPT !.cursor.col = next_col] EXCEPT !.wrap_pending = FALSE]
    OBVIOUS
  <2> QED
    BY <2>2, <2>3, <2>4, SoundFrame
<1> QED
  BY <1>3, <1>4 DEF put, u

LEMMA PrintSound ==
    ASSUME NEW t, Sound(t), NEW ch
    PROVE  Sound(print_char(t, ch))
BY AfterPendingWrapSound, MakeRoomSound, PutSound DEF print_char

-----------------------------------------------------------------------------
(* CSI: cursor movement *)

LEMMA MovesSound ==
    ASSUME NEW t, Sound(t), NEW n \in Nat
    PROVE  /\ Sound(cursor_up(t, n)) /\ Sound(cursor_down(t, n))
           /\ Sound(cursor_forward(t, n)) /\ Sound(cursor_backward(t, n))
           /\ Sound(set_col(t, n))
<1>1. Greatest(Monus(t.cursor.row, n), IF origin(t) THEN t.scroll_top ELSE 0)
          \in 0 .. last_row(t)
  BY Limits0 DEF Greatest, Monus
<1>2. Least(t.cursor.row + n, IF origin(t) THEN t.scroll_bottom ELSE last_row(t))
          \in 0 .. last_row(t)
  BY Limits0 DEF Least
<1>3. /\ Least(t.cursor.col + n, last_col(t)) \in 0 .. last_col(t)
      /\ Monus(t.cursor.col, n) \in 0 .. last_col(t)
      /\ Least(Monus(n, 1), last_col(t)) \in 0 .. last_col(t)
  BY Limits0 DEF Least, Monus
<1> QED
  BY <1>1, <1>2, <1>3, Limits0, AtSound
  DEF cursor_up, cursor_down, cursor_forward, cursor_backward, set_col

LEMMA ToFirstColSound ==
    ASSUME NEW t, Sound(t)
    PROVE  Sound(to_first_col(t))
BY Limits0, ToColumnSound DEF to_first_col

LEMMA TargetRowInside ==
    ASSUME NEW t, Sound(t), NEW row \in Nat
    PROVE  target_row(t, row) \in 0 .. last_row(t)
<1> DEFINE sum == (Monus(row, 1) + (IF origin(t) THEN t.scroll_top ELSE 0)) % U16
<1>1. Monus(row, 1) + (IF origin(t) THEN t.scroll_top ELSE 0) \in Nat
  BY Limits0 DEF Monus
<1>2. sum \in Nat
  BY <1>1 DEF U16
<1> HIDE DEF sum
<1> QED
  BY <1>2, ClampInside DEF target_row, sum

LEMMA SetPositionSound ==
    ASSUME NEW t, Sound(t), NEW row \in Nat, NEW col \in Nat
    PROVE  Sound(set_row(t, row)) /\ Sound(set_position(t, row, col))
<1>1. Least(Monus(col, 1), last_col(t)) \in 0 .. last_col(t)
  BY Limits0 DEF Least, Monus
<1> QED
  BY <1>1, TargetRowInside, Limits0, AtSound DEF set_row, set_position

-----------------------------------------------------------------------------
(* CSI: editing.  None of it moves the cursor, except DECSTBM. *)

LEMMA CellsSame ==
    ASSUME NEW t, Shape(t), NEW n
    PROVE  /\ Same(t, erase_display(t, n)) /\ Same(t, erase_line(t, n))
           /\ Same(t, erase_chars(t, n))
           /\ Same(t, insert_chars(t, n)) /\ Same(t, delete_chars(t, n))
           /\ Same(t, insert_rows(t, n)) /\ Same(t, delete_rows(t, n))
           /\ Same(t, scroll_down_screen(t, n))
<1>1. Same(t, t)
  BY DEF Same
<1>2. \A screen : DOMAIN screen.cells = DOMAIN active(t).cells
                    => Same(t, with_active(t, screen))
  BY WithActiveSame
<1>3. Same(t, erase_saved_lines(t))
  BY DEF erase_saved_lines, Same, Shape, Fields
<1>4. Same(t, erase_display(t, n))
  <2> DEFINE s == active(t)
             line0 == erase_row_cells(s, t.cursor.row, t.cursor.col, t.size.cols, t.pen)
             rows1 == erase_rows(s, 0, t.cursor.row, t.pen)
  <2>1. DOMAIN erase_rows(line0, t.cursor.row + 1, t.size.rows, t.pen).cells = DOMAIN s.cells
    BY RowsKept
  <2>2. DOMAIN erase_row_cells(rows1, t.cursor.row, 0, t.cursor.col + 1, t.pen).cells
            = DOMAIN s.cells
    BY RowsKept
  <2>3. DOMAIN erase_rows(s, 0, t.size.rows, t.pen).cells = DOMAIN s.cells
    BY RowsKept
  <2> QED
    BY <1>1, <1>2, <1>3, <2>1, <2>2, <2>3 DEF erase_display
<1>5. Same(t, erase_line(t, n)) /\ Same(t, erase_chars(t, n))
  BY <1>1, <1>2, RowsKept DEF erase_line, erase_chars
<1>6. Same(t, insert_chars(t, n)) /\ Same(t, delete_chars(t, n))
  BY <1>2, RowsKept DEF insert_chars, delete_chars, with_cursor_line
<1>7. /\ Same(t, insert_rows(t, n)) /\ Same(t, delete_rows(t, n))
      /\ Same(t, scroll_down_screen(t, n))
  BY <1>2, LinesKept DEF insert_rows, delete_rows, scroll_down_screen
<1> QED
  BY <1>4, <1>5, <1>6, <1>7

LEMMA SetScrollRegionSound ==
    ASSUME NEW t, Sound(t), NEW top \in Nat, NEW bottom \in Nat
    PROVE  Sound(set_scroll_region(t, top, bottom))
<1> DEFINE ok == /\ Monus(top, 1) < t.size.rows /\ Monus(bottom, 1) < t.size.rows
                 /\ Monus(top, 1) < Monus(bottom, 1)
           v == [t EXCEPT !.scroll_top = Monus(top, 1), !.scroll_bottom = Monus(bottom, 1)]
           u == IF ok THEN v ELSE t
<1>1. ASSUME ok PROVE Sound(v)
  <2>1. /\ Monus(top, 1) \in 0 .. last_row(t) /\ Monus(bottom, 1) \in 0 .. last_row(t)
        /\ Monus(top, 1) < Monus(bottom, 1)
    BY <1>1, Limits0 DEF Monus
  <2>2. /\ Shape(v) /\ v.size = t.size /\ v.saved = t.saved /\ v.cursor = t.cursor
        /\ v.primary = t.primary /\ v.alternate = t.alternate
        /\ v.scroll_top = Monus(top, 1) /\ v.scroll_bottom = Monus(bottom, 1)
    BY DEF Sound, Shape, Fields
  <2> HIDE DEF v
  <2> QED
    BY <2>1, <2>2 DEF Sound, Bounded, last_row, last_col, full_screen
<1>2. Sound(u) /\ u.size = t.size
  BY <1>1 DEF Sound, Shape, Fields
<1> HIDE DEF u
<1>3. Sound(at(u, IF origin(t) THEN u.scroll_top ELSE 0, 0))
  BY <1>2, Limits0, AtSound
<1> QED
  BY <1>3 DEF set_scroll_region, u

-----------------------------------------------------------------------------
(* CSI: modes, pen, queries; OSC *)

LEMMA SetModeSound ==
    ASSUME NEW t, Sound(t), NEW mode, NEW enable
    PROVE  Sound(set_mode(t, mode, enable))
<1>1. Same(t, with_mode(t, mode, enable))
  BY DEF with_mode, Same, Sound, Shape, Fields
<1>2. Sound(with_mode(t, mode, enable))
  BY <1>1, SoundFrame
<1> QED
  BY <1>2, SetPositionSound DEF set_mode

LEMMA EnterAlternateSound ==
    ASSUME NEW t, Sound(t)
    PROVE  Sound(enter_alternate(t))
BY SaveCursorSound DEF enter_alternate

LEMMA ClearAlternateSound ==
    ASSUME NEW t, Sound(t)
    PROVE  Sound(clear_alternate(t))
<1> DEFINE u == [t EXCEPT !.alternate = clear_all(@, DefaultStyle),
                          !.scroll_top = 0, !.scroll_bottom = last_row(t)]
<1>1. /\ Shape(u) /\ u.size = t.size /\ u.saved = t.saved /\ u.cursor = t.cursor
      /\ u.primary = t.primary /\ u.alternate = clear_all(t.alternate, DefaultStyle)
      /\ u.scroll_top = 0 /\ u.scroll_bottom = last_row(t)
  BY DEF Sound, Shape, Fields
<1> HIDE DEF u
<1>2. Sound(u)
  BY <1>1, Limits0, RowsKept DEF Sound, Bounded, last_row, last_col, full_screen
<1> QED
  BY <1>2, Limits0, AtSound DEF clear_alternate, u

LEMMA SetAlternateSound ==
    ASSUME NEW t, Sound(t), NEW enable, NEW clear_on_enter
    PROVE  Sound(set_alternate(t, enable, clear_on_enter))
<1>1. Sound(enter_alternate(t)) /\ Sound(clear_alternate(enter_alternate(t)))
  BY EnterAlternateSound, ClearAlternateSound
<1>2. Same(t, [t EXCEPT !.on_alternate = FALSE])
  BY DEF Same, Sound, Shape, Fields
<1>3. Sound(restore_cursor([t EXCEPT !.on_alternate = FALSE]))
  BY <1>2, SoundFrame, RestoreCursorSound
<1> QED
  BY <1>1, <1>3 DEF set_alternate

LEMMA QuietSame ==
    ASSUME NEW t, Shape(t), NEW a, NEW b
    PROVE  /\ Same(t, ring_bell(t)) /\ Same(t, osc_request(t))
           /\ Same(t, set_mouse(t, a, b))
           /\ Same(t, primary_da(t)) /\ Same(t, device_status(t, a))
           /\ Same(t, sgr_reset(t)) /\ Same(t, sgr_look(t, a))
           /\ Same(t, osc_title(t, a))
           /\ Same(t, osc_hyperlink_open(t)) /\ Same(t, osc_hyperlink_close(t))
<1>1. Same(t, ring_bell(t)) /\ Same(t, osc_request(t))
  BY OfferSame DEF ring_bell, osc_request
<1>2. Same(t, set_mouse(t, a, b)) /\ Same(t, primary_da(t)) /\ Same(t, device_status(t, a))
  BY DEF Same, Shape, Fields, set_mouse, primary_da, device_status, reply
<1>3. Same(t, sgr_reset(t)) /\ Same(t, sgr_look(t, a)) /\ Same(t, osc_hyperlink_close(t))
  BY DEF Same, Shape, Fields, sgr_reset, sgr_look, osc_hyperlink_close
<1>4. Same(t, osc_title(t, a))
  <2> DEFINE u == [t EXCEPT !.title = a]
  <2>1. Same(t, u)
    BY DEF Same, Shape, Fields
  <2>2. Shape(u)
    BY <2>1 DEF Same
  <2>3. Same(u, report(u, "title_updated"))
    BY <2>2, ReportSame
  <2> QED
    BY <2>1, <2>3, SameTrans DEF osc_title
<1>5. Same(t, osc_hyperlink_open(t))
  <2> DEFINE id == t.hyperlink_counter
             u == [t EXCEPT !.hyperlink_counter = IF id = IdMax THEN 1 ELSE id + 1,
                            !.pen.link = id]
  <2>1. Same(t, u)
    BY DEF Same, Shape, Fields
  <2>2. Shape(u)
    BY <2>1 DEF Same
  <2>3. Same(u, offer(u, HyperlinkAdded(id)))
    BY <2>2, OfferSame
  <2> QED
    BY <2>1, <2>3, SameTrans DEF osc_hyperlink_open
<1> QED
  BY <1>1, <1>2, <1>3, <1>4, <1>5

-----------------------------------------------------------------------------
(* What the caller does. *)

LEMMA ShiftIsNumber ==
    ASSUME NEW t, Sound(t), NEW rows \in Nat
    PROVE  active_shift(t, rows) \in Nat
<1> DEFINE s == active(t)
           kept == {i \in DOMAIN s.cells :
                       \E j \in DOMAIN s.cells : i <= j /\ HasContent(s.cells[j])}
<1>1. DOMAIN s.cells = 1 .. t.size.rows /\ t.size.rows \in Nat
  BY DEF Sound, Bounded, active, Size
<1>2. IsFiniteSet(1 .. t.size.rows)
  BY <1>1, FS_Interval
<1>3. IsFiniteSet(kept) /\ kept \subseteq 1 .. t.size.rows
  BY <1>1, <1>2, FS_Subset
<1>4. content_rows(s) \in Nat
  BY <1>3, FS_CardinalityType DEF content_rows
<1> QED
  BY <1>4 DEF active_shift, row_shift, Monus

LEMMA ResizeSound ==
    ASSUME NEW t, Sound(t), NEW size \in Size
    PROVE  Sound(resize_terminal(t, size))
<1> DEFINE u == IF t.on_alternate THEN t
                ELSE push_displaced_to_scrollback(t, dropped_rows(t.primary, size.rows))
           row == Least(Monus(t.cursor.row, active_shift(t, size.rows)), size.rows - 1)
           col == Least(t.cursor.col, size.cols - 1)
           v == at(u, row, col)
           w == [v EXCEPT !.size = size, !.scroll_top = 0, !.scroll_bottom = size.rows - 1,
                          !.primary = take_dirty(resize(@, size.rows, size.cols)),
                          !.alternate = resize(@, size.rows, size.cols)]
<1>1. Same(t, u)
  BY PushSame DEF Same, Sound
<1>2. Shape(v) /\ v.cursor = [row |-> row, col |-> col] /\ v.saved = t.saved
  BY <1>1 DEF Same, at, Shape, Fields
<1> HIDE DEF u, v
<1>3. /\ Shape(w) /\ w.cursor = [row |-> row, col |-> col] /\ w.saved = t.saved
      /\ w.size = size /\ w.scroll_top = 0 /\ w.scroll_bottom = size.rows - 1
      /\ DOMAIN w.primary.cells = 1 .. size.rows
      /\ DOMAIN w.alternate.cells = 1 .. size.rows
  <2>1. /\ Shape(w) /\ w.cursor = v.cursor /\ w.saved = v.saved
        /\ w.size = size /\ w.scroll_top = 0 /\ w.scroll_bottom = size.rows - 1
    BY <1>2 DEF Shape, Fields
  <2>2. /\ w.primary = take_dirty(resize(v.primary, size.rows, size.cols))
        /\ w.alternate = resize(v.alternate, size.rows, size.cols)
    BY <1>2 DEF Shape, Fields
  <2>3. \A s : DOMAIN resize(s, size.rows, size.cols).cells = 1 .. size.rows
    BY DEF resize
  <2>4. \A s : take_dirty(s).cells = s.cells
    BY DEF take_dirty
  <2> HIDE DEF w
  <2> QED
    BY <1>2, <2>1, <2>2, <2>3, <2>4
<1>4. row \in 0 .. size.rows - 1 /\ col \in 0 .. size.cols - 1
  BY ShiftIsNumber, Limits0 DEF Size, Least, Monus
<1>5. size.rows - 1 \in 0 .. size.rows - 1 /\ 0 \in 0 .. size.rows - 1
  BY DEF Size
<1> HIDE DEF row, col, w
<1>6. Sound(w)
  BY <1>3, <1>4, <1>5 DEF Sound, Bounded, last_row, last_col, full_screen
<1>7. Sound(repair_cursor_cell(w))
  BY <1>6, RepairSound
<1>8. Sound(report(repair_cursor_cell(w), "screen_updated"))
  BY <1>7, ReportSame, SoundFrame DEF Sound
<1> QED
  BY <1>8 DEF resize_terminal, u, v, w, row, col

LEMMA FeedEndSound ==
    ASSUME NEW t, Sound(t), NEW snapshot
    PROVE  Sound(feed_end(t, snapshot))
<1> DEFINE u == [t EXCEPT !.primary = take_dirty(@)]
<1>1. Same(t, u)
  BY DEF Same, Sound, Shape, Fields, take_dirty
<1>2. Sound(u) /\ Shape(u)
  BY <1>1, SoundFrame DEF Same
<1> HIDE DEF u
<1>3. Sound(report(u, "screen_updated"))
  BY <1>2, ReportSame, SoundFrame
<1> QED
  BY <1>2, <1>3 DEF feed_end, u

LEMMA CallerSame ==
    ASSUME NEW t, Shape(t), NEW a, NEW b
    PROVE  /\ Same(t, trim_scrollback(t, a, b))
           /\ Same(t, [t EXCEPT !.events = after_next(@)])
           /\ Same(t, [t EXCEPT !.replies = @ - a])
BY DEF Same, Shape, Fields, trim_scrollback, erase_saved_lines, drop_lines

-----------------------------------------------------------------------------
(* The steps of the specification. *)

SoundTerm == Sound(term)

LEMMA ParamIsNumber ==
    ASSUME NEW n \in Params, NEW default \in Nat
    PROVE  n \in Nat /\ param_or(n, default) \in Nat
<1>1. n \in 0 .. U16 - 1
  BY TerminalAssumption
<1>2. \A m, limit : m \in 0 .. limit - 1 /\ limit \in Nat => m \in Nat
  OBVIOUS
<1>3. U16 \in Nat
  BY DEF U16
<1>4. n \in Nat
  BY <1>1, <1>2, <1>3, Zenon
<1> QED
  BY <1>4 DEF param_or

LEMMA EscapeStep ==
    ASSUME SoundTerm,
           \/ PrintChar \/ Backspace \/ HorizontalTab \/ LineFeed \/ CarriageReturn
           \/ SaveCursor \/ RestoreCursor \/ NextLine \/ ReverseIndex \/ ResetChildState
    PROVE  SoundTerm'
BY PrintSound, BackspaceSound, HorizontalTabSound, LineFeedSound, CarriageReturnSound,
   SaveCursorSound, RestoreCursorSound, NextLineSound, ReverseIndexSound, ResetSound
DEF SoundTerm, Handle, PrintChar, Backspace, HorizontalTab, LineFeed, CarriageReturn,
    SaveCursor, RestoreCursor, NextLine, ReverseIndex, ResetChildState

LEMMA MoveStep ==
    ASSUME SoundTerm,
           \/ CursorUp \/ CursorDown \/ CursorForward \/ CursorBackward
           \/ CursorNextLine \/ CursorPreviousLine \/ SetCol \/ SetRow \/ SetPosition
    PROVE  SoundTerm'
<1>1. PICK n \in Params, m \in Params :
          \/ term' = cursor_up(term, param_or(n, 1)) \/ term' = cursor_down(term, param_or(n, 1))
          \/ term' = cursor_forward(term, param_or(n, 1))
          \/ term' = cursor_backward(term, param_or(n, 1))
          \/ term' = to_first_col(cursor_down(term, param_or(n, 1)))
          \/ term' = to_first_col(cursor_up(term, param_or(n, 1)))
          \/ term' = set_col(term, param_or(n, 1)) \/ term' = set_row(term, param_or(n, 1))
          \/ term' = set_position(term, param_or(n, 1), param_or(m, 1))
  BY DEF Handle, CursorUp, CursorDown, CursorForward, CursorBackward, CursorNextLine,
         CursorPreviousLine, SetCol, SetRow, SetPosition
<1>2. param_or(n, 1) \in Nat /\ param_or(m, 1) \in Nat
  BY ParamIsNumber
<1> QED
  BY <1>1, <1>2, MovesSound, ToFirstColSound, SetPositionSound DEF SoundTerm

LEMMA EditStep ==
    ASSUME SoundTerm,
           \/ EraseDisplay \/ EraseLine \/ EraseChars \/ InsertChars \/ DeleteChars
           \/ InsertLines \/ DeleteLines \/ ScrollUp \/ ScrollDown \/ SetScrollRegion
    PROVE  SoundTerm'
<1>1. CASE SetScrollRegion
  <2>1. PICK top \in Params, bottom \in Params :
            term' = set_scroll_region(term, param_or(top, 1), param_or(bottom, term.size.rows))
    BY <1>1 DEF Handle, SetScrollRegion
  <2>2. term.size.rows \in Nat
    BY DEF SoundTerm, Sound, Size
  <2>3. param_or(top, 1) \in Nat /\ param_or(bottom, term.size.rows) \in Nat
    BY <2>2, ParamIsNumber
  <2> QED
    BY <2>1, <2>3, SetScrollRegionSound DEF SoundTerm
<1>2. CASE ~SetScrollRegion
  <2>1. Same(term, term')
    BY <1>2, CellsSame, ScrollUpSame
    DEF SoundTerm, Sound, Handle, EraseDisplay, EraseLine, EraseChars, InsertChars, DeleteChars,
        InsertLines, DeleteLines, ScrollUp, ScrollDown
  <2> QED
    BY <2>1, SoundFrame DEF SoundTerm
<1> QED
  BY <1>1, <1>2

LEMMA ModeStep ==
    ASSUME SoundTerm,
           \/ SetMode \/ SetMouse \/ SetAlternate \/ DeviceStatus \/ PrimaryDa
           \/ SgrReset \/ SgrLook \/ OscTitle \/ OscRequest \/ OscHyperlink \/ RingBell
    PROVE  SoundTerm'
<1>1. CASE SetMode
  BY <1>1, SetModeSound DEF SoundTerm, Handle, SetMode
<1>2. CASE SetAlternate
  BY <1>2, SetAlternateSound DEF SoundTerm, Handle, SetAlternate
<1>3. CASE \/ SetMouse \/ DeviceStatus \/ PrimaryDa \/ SgrReset \/ SgrLook \/ OscTitle
           \/ OscRequest \/ OscHyperlink \/ RingBell
  <2>1. Shape(term)
    BY DEF SoundTerm, Sound
  <2>2. PICK a, b :
            \/ term' = ring_bell(term) \/ term' = osc_request(term)
            \/ term' = set_mouse(term, a, b)
            \/ term' = primary_da(term) \/ term' = device_status(term, a)
            \/ term' = sgr_reset(term) \/ term' = sgr_look(term, a)
            \/ term' = osc_title(term, a)
            \/ term' = osc_hyperlink_open(term) \/ term' = osc_hyperlink_close(term)
    BY <1>3
    DEF Handle, SetMouse, DeviceStatus, PrimaryDa, SgrReset, SgrLook,
        OscTitle, OscRequest, OscHyperlink, RingBell
  <2>3. Same(term, term')
    BY <2>1, <2>2, QuietSame
  <2> QED
    BY <2>3, SoundFrame DEF SoundTerm
<1> QED
  BY <1>1, <1>2, <1>3

LEMMA CallerStep ==
    ASSUME SoundTerm,
           EndFeed \/ DequeueEvent \/ Resize \/ TrimScrollback \/ AdvanceReplyBytes
    PROVE  SoundTerm'
<1>1. CASE EndFeed
  BY <1>1, FeedEndSound DEF SoundTerm, EndFeed
<1>2. CASE Resize
  <2>1. PICK size \in Sizes : term' = resize_terminal(term, size)
    BY <1>2 DEF Resize
  <2> QED
    BY <2>1, ResizeSound, TerminalAssumption DEF SoundTerm
<1>3. CASE DequeueEvent \/ TrimScrollback \/ AdvanceReplyBytes
  <2>1. Shape(term)
    BY DEF SoundTerm, Sound
  <2>2. PICK a, b :
            \/ term' = trim_scrollback(term, a, b)
            \/ term' = [term EXCEPT !.events = after_next(@)]
            \/ term' = [term EXCEPT !.replies = @ - a]
    BY <1>3 DEF DequeueEvent, TrimScrollback, AdvanceReplyBytes
  <2>3. /\ Same(term, trim_scrollback(term, a, b))
        /\ Same(term, [term EXCEPT !.events = after_next(@)])
        /\ Same(term, [term EXCEPT !.replies = @ - a])
    <3> HIDE <1>3, <2>2
    <3> QED
      BY <2>1, CallerSame
  <2>4. Same(term, term')
    BY <2>2, <2>3
  <2> QED
    BY <2>4, SoundFrame DEF SoundTerm
<1> QED
  BY <1>1, <1>2, <1>3

LEMMA SoundInit ==
    Init => SoundTerm
BY NewSound, TerminalAssumption DEF Init, SoundTerm

LEMMA SoundStep ==
    ASSUME SoundTerm, [Next]_vars
    PROVE  SoundTerm'
<1>1. CASE Next
  BY <1>1, EscapeStep, MoveStep, EditStep, ModeStep, CallerStep DEF Next, Feed
<1>2. CASE UNCHANGED vars
  BY <1>2 DEF vars, SoundTerm
<1> QED
  BY <1>1, <1>2

(* Whatever the child sends and however the caller resizes, the cursor and    *)
(* the scroll region are on the screen: every cell access of terminal_emu.rs  *)
(* that says "cursor in range" is, for every size and every parameter.        *)
THEOREM CursorStaysOnScreen == Spec => []InBounds
<1>1. SoundTerm => InBounds
  BY DEF SoundTerm, Sound, InBounds
<1> QED
  BY <1>1, SoundInit, SoundStep, PTL DEF Spec

-----------------------------------------------------------------------------
(* What a handler may do to the screens, the history and the title, and what  *)
(* it must report of that.                                                    *)

Channel(events) == events = [flags |-> events.flags, payload |-> events.payload]

(* No line of the history but the ones before, or none at all. *)
NoNewLines(t, u) == u.scrollback \in {t.scrollback, <<>>}

(* What the caller is not told of did not happen. *)
Told(t, u) ==
    /\ t.events.flags \subseteq u.events.flags
    /\ u.title = t.title \/ "title_updated" \in u.events.flags
    /\ NoNewLines(t, u) \/ "scrollback_line_added" \in u.events.flags

(* Only what is shown is drawn on, and that is noted. *)
Drawn(t, u) ==
    /\ u.on_alternate <=> t.on_alternate
    /\ t.on_alternate => u.primary = t.primary /\ NoNewLines(t, u)
    /\ ~t.on_alternate => u.primary = t.primary \/ u.primary.dirty

(* What most handlers do to the screen shown, the history and the title. *)
Works(t, u) ==
    /\ Shape(u) /\ Channel(u.events)
    /\ u.size = t.size /\ u.on_alternate = t.on_alternate
    /\ Told(t, u) /\ Drawn(t, u)

Ready(t) == Shape(t) /\ Channel(t.events)

LEMMA WorksTrans ==
    ASSUME NEW t, NEW u, NEW v, Works(t, u), Works(u, v)
    PROVE  Works(t, v)
<1>1. NoNewLines(t, u) /\ NoNewLines(u, v) => NoNewLines(t, v)
  BY DEF NoNewLines
<1>2. Told(t, v)
  BY <1>1 DEF Works, Told
<1>3. Drawn(t, v)
  BY <1>1, Zenon DEF Works, Drawn
<1> QED
  BY <1>2, <1>3 DEF Works

LEMMA WorksStart ==
    ASSUME NEW t, Ready(t)
    PROVE  Works(t, t)
<1>1. NoNewLines(t, t)
  BY DEF NoNewLines
<1> QED
  BY <1>1 DEF Works, Ready, Told, Drawn

LEMMA WorksReady ==
    ASSUME NEW t, NEW u, Works(t, u)
    PROVE  Ready(u)
BY DEF Works, Ready

(* The cursor, the pending wrap, the pen, the modes, the region, the saved    *)
(* cursor and the pending replies are nobody's concern here.                  *)
Private == {"cursor", "saved", "wrap_pending", "pen", "modes", "scroll_top", "scroll_bottom",
            "replies", "hyperlink_counter", "scrollback_cells"}

LEMMA PrivateWorks ==
    ASSUME NEW t, Ready(t), NEW u, Shape(u), \A f \in Fields \ Private : u[f] = t[f]
    PROVE  Works(t, u)
<1>1. /\ u.size = t.size /\ u.on_alternate = t.on_alternate /\ u.events = t.events
      /\ u.title = t.title /\ u.scrollback = t.scrollback /\ u.primary = t.primary
  BY DEF Fields, Private
<1>2. NoNewLines(t, u)
  BY <1>1 DEF NoNewLines
<1>3. Drawn(t, u)
  BY <1>1, <1>2, Zenon DEF Drawn
<1> QED
  BY <1>1, <1>2, <1>3 DEF Works, Ready, Told

LEMMA DrawingWorks ==
    ASSUME NEW t, Ready(t), NEW screen, screen = active(t) \/ screen.dirty
    PROVE  Works(t, with_active(t, screen))
<1> DEFINE u == with_active(t, screen)
<1>1. /\ Shape(u) /\ u.size = t.size /\ u.on_alternate = t.on_alternate /\ u.events = t.events
      /\ u.title = t.title /\ u.scrollback = t.scrollback
  BY DEF Ready, Shape, Fields, with_active
<1>2. u.primary = IF t.on_alternate THEN t.primary ELSE screen
  BY DEF Ready, Shape, Fields, with_active
<1> HIDE DEF u
<1>3. NoNewLines(t, u)
  BY <1>1 DEF NoNewLines
<1>4. Drawn(t, u)
  BY <1>1, <1>2, <1>3, Zenon DEF Drawn, active
<1>5. Told(t, u)
  BY <1>1, <1>3 DEF Told
<1>6. Works(t, u)
  BY <1>1, <1>4, <1>5 DEF Works, Ready
<1> QED
  BY <1>6 DEF u

LEMMA ReportWorks ==
    ASSUME NEW t, Ready(t), NEW flag
    PROVE  Works(t, report(t, flag)) /\ flag \in report(t, flag).events.flags
<1> DEFINE u == report(t, flag)
<1>1. /\ Shape(u) /\ u.size = t.size /\ u.on_alternate = t.on_alternate
      /\ u.events = mark(t.events, flag)
      /\ u.title = t.title /\ u.scrollback = t.scrollback /\ u.primary = t.primary
  BY DEF Ready, Shape, Fields, report
<1>2. Channel(mark(t.events, flag)) /\ mark(t.events, flag).flags = t.events.flags \cup {flag}
  BY DEF Ready, Channel, mark
<1> HIDE DEF u
<1>3. NoNewLines(t, u)
  BY <1>1 DEF NoNewLines
<1>4. Drawn(t, u)
  BY <1>1, <1>3, Zenon DEF Drawn
<1>5. Told(t, u)
  BY <1>1, <1>2, <1>3 DEF Told
<1>6. Works(t, u)
  BY <1>1, <1>2, <1>4, <1>5 DEF Works, Ready
<1> QED
  BY <1>1, <1>2, <1>6 DEF u

LEMMA OfferWorks ==
    ASSUME NEW t, Ready(t), NEW payload
    PROVE  Works(t, offer(t, payload))
<1> DEFINE u == offer(t, payload)
<1>1. /\ Shape(u) /\ u.size = t.size /\ u.on_alternate = t.on_alternate
      /\ u.events = push(t.events, payload)
      /\ u.title = t.title /\ u.scrollback = t.scrollback /\ u.primary = t.primary
  BY DEF Ready, Shape, Fields, offer
<1>2. Channel(push(t.events, payload)) /\ push(t.events, payload).flags = t.events.flags
  BY DEF Ready, Channel, push
<1> HIDE DEF u
<1>3. NoNewLines(t, u)
  BY <1>1 DEF NoNewLines
<1>4. Drawn(t, u)
  BY <1>1, <1>3, Zenon DEF Drawn
<1>5. Told(t, u)
  BY <1>1, <1>2, <1>3 DEF Told
<1>6. Works(t, u)
  BY <1>1, <1>2, <1>4, <1>5 DEF Works, Ready
<1> QED
  BY <1>2, <1>6 DEF u

(* Lines join the history of the primary screen only. *)
LEMMA PushWorks ==
    ASSUME NEW t, Ready(t), ~t.on_alternate, NEW rows
    PROVE  Works(t, push_displaced_to_scrollback(t, rows))
<1> DEFINE lines == contents(rows)
           u == [t EXCEPT !.scrollback = @ \o lines, !.scrollback_cells = @ + CellCount(lines)]
           v == report(u, "scrollback_line_added")
<1>1. /\ Shape(u) /\ u.size = t.size /\ u.on_alternate = t.on_alternate /\ u.events = t.events
      /\ u.title = t.title /\ u.primary = t.primary
  BY DEF Ready, Shape, Fields
<1> HIDE DEF u
<1>2. Ready(u)
  BY <1>1 DEF Ready
<1>3. Works(u, v) /\ "scrollback_line_added" \in v.events.flags
  BY <1>2, ReportWorks
<1>4. Told(t, v)
  BY <1>1, <1>3 DEF Works, Told
<1>5. Drawn(t, v)
  BY <1>1, <1>3, Zenon DEF Works, Drawn
<1>6. Works(t, v)
  BY <1>1, <1>3, <1>4, <1>5 DEF Works
<1> QED
  BY <1>6, WorksStart DEF push_displaced_to_scrollback, u

(* A screen operation leaves the screen as it was or marks it dirty. *)
LEMMA RowsDirty ==
    /\ \A s, row, r : with_row(s, row, r).dirty
    /\ \A s, row, start, end, e :
          LET new_ == erase_row_cells(s, row, start, end, e) IN new_ = s \/ new_.dirty
    /\ \A s, start, end, e :
          LET new_ == erase_rows(s, start, end, e) IN new_ = s \/ new_.dirty
BY DEF with_row, erase_row_cells, erase_rows

LEMMA LinesDirty ==
    /\ \A s, row, n, top, bottom, e :
          /\ LET new_ == insert_lines(s, row, n, top, bottom, e) IN new_ = s \/ new_.dirty
          /\ LET new_ == delete_lines(s, row, n, top, bottom, e) IN new_ = s \/ new_.dirty
    /\ \A s, n, top, bottom, e :
          /\ LET new_ == scroll_up(s, n, top, bottom, e) IN new_ = s \/ new_.dirty
          /\ LET new_ == scroll_down(s, n, top, bottom, e) IN new_ = s \/ new_.dirty
<1>1. \A s, n, top, bottom, e :
          rotate_up(s, n, top, bottom, e).dirty /\ rotate_down(s, n, top, bottom, e).dirty
  BY DEF rotate_up, rotate_down
<1> QED
  BY <1>1, RowsDirty DEF insert_lines, delete_lines, scroll_up, scroll_down

-----------------------------------------------------------------------------
(* Every control sequence works within those bounds.                          *)

LEMMA AtWorks ==
    ASSUME NEW t, Ready(t), NEW row, NEW col
    PROVE  Works(t, at(t, row, col))
<1>1. Shape(at(t, row, col)) /\ \A f \in Fields \ Private : at(t, row, col)[f] = t[f]
  BY DEF at, Ready, Shape, Fields, Private
<1> QED
  BY <1>1, PrivateWorks

LEMMA CursorWorks ==
    ASSUME NEW t, Ready(t), NEW x
    PROVE  /\ Works(t, [t EXCEPT !.cursor.row = x]) /\ Works(t, [t EXCEPT !.cursor.col = x])
           /\ Works(t, [t EXCEPT !.cursor = x]) /\ Works(t, [t EXCEPT !.wrap_pending = x])
<1>1. \A u \in {[t EXCEPT !.cursor.row = x], [t EXCEPT !.cursor.col = x],
                [t EXCEPT !.cursor = x], [t EXCEPT !.wrap_pending = x]} :
          Shape(u) /\ \A f \in Fields \ Private : u[f] = t[f]
  BY DEF Ready, Shape, Fields, Private
<1> QED
  BY <1>1, PrivateWorks

LEMMA ScrollUpWorks ==
    ASSUME NEW t, Ready(t), NEW count
    PROVE  Works(t, scroll_up_screen(t, count))
<1> DEFINE s == scroll_up(active(t), count, t.scroll_top, t.scroll_bottom, t.pen)
           u == with_active(t, s)
           rows == scrolled_off(active(t), count, t.scroll_top, t.scroll_bottom)
<1>1. s = active(t) \/ s.dirty
  BY LinesDirty
<1>2. Works(t, u)
  BY <1>1, DrawingWorks
<1>3. Ready(u) /\ u.on_alternate = t.on_alternate
  BY <1>2, WorksReady DEF Works
<1> HIDE DEF u, rows
<1>4. ASSUME ~t.on_alternate PROVE Works(t, push_displaced_to_scrollback(u, rows))
  BY <1>2, <1>3, <1>4, PushWorks, WorksTrans
<1> QED
  BY <1>2, <1>4 DEF scroll_up_screen, u, rows

LEMMA LineFeedWorks ==
    ASSUME NEW t, Ready(t)
    PROVE  Works(t, line_feed(t))
<1> DEFINE u == [t EXCEPT !.wrap_pending = FALSE]
<1>1. Works(t, u) /\ Ready(u)
  BY CursorWorks, WorksReady
<1> HIDE DEF u
<1>2. Works(t, scroll_up_screen(u, 1))
  BY <1>1, ScrollUpWorks, WorksTrans
<1>3. Works(t, [u EXCEPT !.cursor.row = @ + 1])
  BY <1>1, CursorWorks, WorksTrans
<1> QED
  BY <1>1, <1>2, <1>3 DEF line_feed, u

LEMMA NextLineWorks ==
    ASSUME NEW t, Ready(t)
    PROVE  Works(t, carriage_return(t)) /\ Works(t, next_line(t))
BY AtWorks, LineFeedWorks, WorksReady, WorksTrans DEF carriage_return, next_line

LEMMA ReverseIndexWorks ==
    ASSUME NEW t, Ready(t)
    PROVE  Works(t, reverse_index(t))
<1> DEFINE u == [t EXCEPT !.wrap_pending = FALSE]
           screen == scroll_down(active(t), 1, t.scroll_top, t.scroll_bottom, t.pen)
<1>1. Works(t, u) /\ Ready(u)
  BY CursorWorks, WorksReady
<1>2. active(u) = active(t)
  BY DEF active, Ready, Shape, Fields
<1>3. screen = active(t) \/ screen.dirty
  BY LinesDirty
<1> HIDE DEF u, screen
<1>4. Works(t, with_active(u, screen))
  BY <1>1, <1>2, <1>3, DrawingWorks, WorksTrans
<1>5. Works(t, [u EXCEPT !.cursor.row = @ - 1])
  BY <1>1, CursorWorks, WorksTrans
<1> QED
  BY <1>1, <1>4, <1>5 DEF reverse_index, u, screen

LEMMA RepairWorks ==
    ASSUME NEW t, Ready(t)
    PROVE  Works(t, repair_cursor_cell(t))
BY CursorWorks, WorksStart DEF repair_cursor_cell

LEMMA SaveRestoreWorks ==
    ASSUME NEW t, Ready(t)
    PROVE  Works(t, save_cursor(t)) /\ Works(t, restore_cursor(t))
<1>1. Shape(save_cursor(t)) /\ \A f \in Fields \ Private : save_cursor(t)[f] = t[f]
  BY DEF save_cursor, Ready, Shape, Fields, Private
<1> DEFINE u == [t EXCEPT !.cursor = t.saved.cursor, !.pen = t.saved.pen,
                          !.wrap_pending = t.saved.wrap_pending,
                          !.modes.on = IF t.saved.origin THEN @ \cup {"origin"}
                                       ELSE @ \ {"origin"}]
<1>2. Shape(u) /\ \A f \in Fields \ Private : u[f] = t[f]
  BY DEF Ready, Shape, Fields, Private
<1> HIDE DEF u
<1>3. Works(t, u) /\ Ready(u)
  BY <1>2, PrivateWorks, WorksReady
<1>4. Works(u, clamp_cursor(u))
  BY <1>3, CursorWorks, RepairWorks, WorksReady, WorksTrans DEF clamp_cursor
<1>5. Works(t, restore_cursor(t))
  BY <1>3, <1>4, WorksTrans DEF restore_cursor, u
<1> QED
  BY <1>1, <1>5, PrivateWorks

LEMMA PutWorks ==
    ASSUME NEW t, Ready(t), NEW ch
    PROVE  Works(t, put(t, ch))
<1> DEFINE line == IF "insert" \in t.modes.on
                   THEN insert_columns(cursor_line(t), t.cursor.col, Width(ch), t.pen)
                   ELSE cursor_line(t)
           u == with_cursor_line(t, put_glyph(line, t.cursor.col, ch, Width(ch), t.pen))
           next_col == t.cursor.col + Width(ch)
           x == IF next_col >= t.size.cols THEN last_col(t) ELSE next_col
           v == [u EXCEPT !.cursor.col = x]
<1>1. Works(t, u) /\ Ready(u)
  BY DrawingWorks, RowsDirty, WorksReady DEF with_cursor_line
<1> HIDE DEF u, x
<1>2. Works(u, v) /\ Ready(v)
  BY <1>1, CursorWorks, WorksReady
<1>3. \A p : [u EXCEPT !.cursor.col = x, !.wrap_pending = p] = [v EXCEPT !.wrap_pending = p]
  BY <1>1 DEF Ready, Shape, Fields
<1> HIDE DEF v
<1>4. \A p : Works(t, [u EXCEPT !.cursor.col = x, !.wrap_pending = p])
  BY <1>1, <1>2, <1>3, CursorWorks, WorksTrans
<1> QED
  BY <1>4 DEF put, u, x

LEMMA PrintWorks ==
    ASSUME NEW t, Ready(t), NEW ch
    PROVE  Works(t, print_char(t, ch))
<1>1. Works(t, [t EXCEPT !.wrap_pending = FALSE])
  BY CursorWorks
<1>2. Works(t, after_pending_wrap(t))
  BY <1>1, NextLineWorks, WorksReady, WorksTrans DEF after_pending_wrap
<1>3. ASSUME NEW u, Ready(u), NEW width PROVE Works(u, make_room(u, width))
  BY <1>3, CursorWorks, NextLineWorks, WorksStart DEF make_room
<1> DEFINE v == make_room(after_pending_wrap(t), Width(ch))
<1>4. Works(t, v) /\ Ready(v)
  BY <1>2, <1>3, WorksReady, WorksTrans
<1> HIDE DEF v
<1>5. Works(t, put(v, ch))
  BY <1>4, PutWorks, WorksTrans
<1> QED
  BY <1>4, <1>5 DEF print_char, v

LEMMA MovesWork ==
    ASSUME NEW t, Ready(t), NEW n, NEW m
    PROVE  /\ Works(t, cursor_up(t, n)) /\ Works(t, cursor_down(t, n))
           /\ Works(t, cursor_forward(t, n)) /\ Works(t, cursor_backward(t, n))
           /\ Works(t, set_col(t, n)) /\ Works(t, set_row(t, n))
           /\ Works(t, set_position(t, n, m))
           /\ Works(t, backspace(t)) /\ Works(t, horizontal_tab(t))
BY AtWorks DEF cursor_up, cursor_down, cursor_forward, cursor_backward, set_col, set_row,
               set_position, backspace, horizontal_tab

LEMMA FirstColWorks ==
    ASSUME NEW t, Ready(t), NEW n
    PROVE  Works(t, to_first_col(cursor_down(t, n))) /\ Works(t, to_first_col(cursor_up(t, n)))
BY MovesWork, CursorWorks, WorksReady, WorksTrans DEF to_first_col

LEMMA EraseSavedWorks ==
    ASSUME NEW t, Ready(t)
    PROVE  Works(t, erase_saved_lines(t))
<1> DEFINE u == erase_saved_lines(t)
<1>1. /\ Shape(u) /\ u.size = t.size /\ u.on_alternate = t.on_alternate /\ u.events = t.events
      /\ u.title = t.title /\ u.scrollback = <<>> /\ u.primary = t.primary
  BY DEF Ready, Shape, Fields, erase_saved_lines
<1> HIDE DEF u
<1>2. NoNewLines(t, u)
  BY <1>1 DEF NoNewLines
<1>3. Drawn(t, u)
  BY <1>1, <1>2, Zenon DEF Drawn
<1>4. Told(t, u)
  BY <1>1, <1>2 DEF Told
<1>5. Works(t, u)
  BY <1>1, <1>3, <1>4 DEF Works, Ready
<1> QED
  BY <1>5 DEF u

LEMMA CellsWork ==
    ASSUME NEW t, Ready(t), NEW n
    PROVE  /\ Works(t, erase_display(t, n)) /\ Works(t, erase_line(t, n))
           /\ Works(t, erase_chars(t, n))
           /\ Works(t, insert_chars(t, n)) /\ Works(t, delete_chars(t, n))
           /\ Works(t, insert_rows(t, n)) /\ Works(t, delete_rows(t, n))
           /\ Works(t, scroll_down_screen(t, n))
<1> DEFINE s == active(t)
<1>1. \A screen : screen = s \/ screen.dirty => Works(t, with_active(t, screen))
  BY DrawingWorks
<1>2. Works(t, erase_display(t, n))
  <2> DEFINE line0 == erase_row_cells(s, t.cursor.row, t.cursor.col, t.size.cols, t.pen)
             rows0 == erase_rows(line0, t.cursor.row + 1, t.size.rows, t.pen)
             rows1 == erase_rows(s, 0, t.cursor.row, t.pen)
             line1 == erase_row_cells(rows1, t.cursor.row, 0, t.cursor.col + 1, t.pen)
             rows2 == erase_rows(s, 0, t.size.rows, t.pen)
  <2>1. rows0 = s \/ rows0.dirty
    <3>1. (line0 = s \/ line0.dirty) /\ (rows0 = line0 \/ rows0.dirty)
      BY RowsDirty
    <3> HIDE DEF line0, rows0, s
    <3> QED
      BY <3>1, Zenon
  <2>2. line1 = s \/ line1.dirty
    <3>1. (rows1 = s \/ rows1.dirty) /\ (line1 = rows1 \/ line1.dirty)
      BY RowsDirty
    <3> HIDE DEF line1, rows1, s
    <3> QED
      BY <3>1, Zenon
  <2>3. rows2 = s \/ rows2.dirty
    BY RowsDirty
  <2>4. /\ Works(t, with_active(t, rows0)) /\ Works(t, with_active(t, line1))
        /\ Works(t, with_active(t, rows2))
    <3> HIDE DEF line1, rows0, rows2, s
    <3> QED
      BY <1>1, <2>1, <2>2, <2>3
  <2> QED
    BY <2>4, EraseSavedWorks, WorksStart DEF erase_display
<1>3. Works(t, erase_line(t, n)) /\ Works(t, erase_chars(t, n))
  BY <1>1, RowsDirty, WorksStart DEF erase_line, erase_chars
<1>4. Works(t, insert_chars(t, n)) /\ Works(t, delete_chars(t, n))
  BY <1>1, RowsDirty DEF insert_chars, delete_chars, with_cursor_line
<1>5. /\ Works(t, insert_rows(t, n)) /\ Works(t, delete_rows(t, n))
      /\ Works(t, scroll_down_screen(t, n))
  BY <1>1, LinesDirty DEF insert_rows, delete_rows, scroll_down_screen
<1> QED
  BY <1>2, <1>3, <1>4, <1>5

LEMMA SetScrollRegionWorks ==
    ASSUME NEW t, Ready(t), NEW top, NEW bottom
    PROVE  Works(t, set_scroll_region(t, top, bottom))
<1> DEFINE v == [t EXCEPT !.scroll_top = Monus(top, 1), !.scroll_bottom = Monus(bottom, 1)]
<1>1. Shape(v) /\ \A f \in Fields \ Private : v[f] = t[f]
  BY DEF Ready, Shape, Fields, Private
<1> HIDE DEF v
<1>2. \A u \in {t, v} : Works(t, u) /\ Ready(u)
  BY <1>1, PrivateWorks, WorksStart, WorksReady
<1>3. \A u \in {t, v} : \A row : Works(t, at(u, row, 0))
  BY <1>2, AtWorks, WorksTrans
<1> QED
  BY <1>3 DEF set_scroll_region, v

LEMMA ModesWork ==
    ASSUME NEW t, Ready(t), NEW a, NEW b
    PROVE  /\ Works(t, set_mode(t, a, b)) /\ Works(t, set_mouse(t, a, b))
           /\ Works(t, primary_da(t)) /\ Works(t, device_status(t, a))
           /\ Works(t, sgr_reset(t)) /\ Works(t, sgr_look(t, a))
           /\ Works(t, osc_hyperlink_close(t))
<1>1. /\ Shape(with_mode(t, a, b))
      /\ \A f \in Fields \ Private : with_mode(t, a, b)[f] = t[f]
  BY DEF with_mode, Ready, Shape, Fields, Private
<1>2. Works(t, with_mode(t, a, b)) /\ Ready(with_mode(t, a, b))
  BY <1>1, PrivateWorks, WorksReady
<1>3. Works(t, set_mode(t, a, b))
  BY <1>2, MovesWork, WorksTrans DEF set_mode
<1>4. \A u \in {set_mouse(t, a, b), reply(t, a), sgr_reset(t), sgr_look(t, a),
                osc_hyperlink_close(t)} :
          Shape(u) /\ \A f \in Fields \ Private : u[f] = t[f]
  BY DEF set_mouse, reply, sgr_reset, sgr_look, osc_hyperlink_close,
         Ready, Shape, Fields, Private
<1>5. \A len : Shape(reply(t, len)) /\ \A f \in Fields \ Private : reply(t, len)[f] = t[f]
  BY DEF reply, Ready, Shape, Fields, Private
<1>6. Works(t, primary_da(t)) /\ Works(t, device_status(t, a))
  BY <1>5, PrivateWorks, WorksStart DEF primary_da, device_status
<1> QED
  BY <1>3, <1>4, <1>6, PrivateWorks

LEMMA OscWorks ==
    ASSUME NEW t, Ready(t), NEW a
    PROVE  /\ Works(t, ring_bell(t)) /\ Works(t, osc_request(t))
           /\ Works(t, osc_title(t, a)) /\ Works(t, osc_hyperlink_open(t))
<1>1. Works(t, osc_title(t, a))
  <2> DEFINE u == [t EXCEPT !.title = a]
             v == report(u, "title_updated")
  <2>1. /\ Shape(u) /\ u.size = t.size /\ u.on_alternate = t.on_alternate
        /\ u.events = t.events /\ u.scrollback = t.scrollback /\ u.primary = t.primary
    BY DEF Ready, Shape, Fields
  <2> HIDE DEF u
  <2>2. Ready(u)
    BY <2>1 DEF Ready
  <2>3. Works(u, v) /\ "title_updated" \in v.events.flags
    BY <2>2, ReportWorks
  <2> HIDE DEF v
  <2>4. NoNewLines(t, v) <=> NoNewLines(u, v)
    BY <2>1 DEF NoNewLines
  <2>5. Told(t, v)
    BY <2>1, <2>3, <2>4 DEF Told, Works
  <2>6. Drawn(t, v)
    BY <2>1, <2>3, <2>4, Zenon DEF Drawn, Works
  <2>7. Works(t, v)
    BY <2>1, <2>3, <2>5, <2>6 DEF Works
  <2> QED
    BY <2>7 DEF osc_title, u, v
<1>2. Works(t, osc_hyperlink_open(t))
  <2> DEFINE id == t.hyperlink_counter
             u == [t EXCEPT !.hyperlink_counter = IF id = IdMax THEN 1 ELSE id + 1,
                            !.pen.link = id]
  <2>1. Shape(u) /\ \A f \in Fields \ Private : u[f] = t[f]
    BY DEF Ready, Shape, Fields, Private
  <2> HIDE DEF u
  <2>2. Works(t, u) /\ Ready(u)
    BY <2>1, PrivateWorks, WorksReady
  <2>3. Works(t, offer(u, HyperlinkAdded(id)))
    BY <2>2, OfferWorks, WorksTrans
  <2> QED
    BY <2>3 DEF osc_hyperlink_open, u
<1> QED
  BY <1>1, <1>2, OfferWorks DEF ring_bell, osc_request

(* The control sequences that neither switch the screens nor reset all. *)
Ordinary ==
    \/ PrintChar \/ Backspace \/ HorizontalTab \/ LineFeed \/ CarriageReturn \/ RingBell
    \/ SaveCursor \/ RestoreCursor \/ NextLine \/ ReverseIndex
    \/ CursorUp \/ CursorDown \/ CursorForward \/ CursorBackward
    \/ CursorNextLine \/ CursorPreviousLine \/ SetCol \/ SetRow \/ SetPosition
    \/ EraseDisplay \/ EraseLine \/ EraseChars \/ InsertChars \/ DeleteChars
    \/ InsertLines \/ DeleteLines \/ ScrollUp \/ ScrollDown \/ SetScrollRegion
    \/ SetMode \/ SetMouse \/ DeviceStatus \/ PrimaryDa
    \/ SgrReset \/ SgrLook \/ OscTitle \/ OscRequest \/ OscHyperlink

LEMMA OrdinaryWorks ==
    ASSUME Ready(term), Ordinary
    PROVE  Works(term, term')
<1>1. CASE \/ PrintChar \/ Backspace \/ HorizontalTab \/ LineFeed \/ CarriageReturn
           \/ SaveCursor \/ RestoreCursor \/ NextLine \/ ReverseIndex
  BY <1>1, PrintWorks, MovesWork, LineFeedWorks, NextLineWorks, SaveRestoreWorks,
     ReverseIndexWorks
  DEF Handle, PrintChar, Backspace, HorizontalTab, LineFeed, CarriageReturn,
      SaveCursor, RestoreCursor, NextLine, ReverseIndex
<1>2. CASE \/ CursorUp \/ CursorDown \/ CursorForward \/ CursorBackward
           \/ CursorNextLine \/ CursorPreviousLine \/ SetCol \/ SetRow \/ SetPosition
  BY <1>2, MovesWork, FirstColWorks
  DEF Handle, CursorUp, CursorDown, CursorForward, CursorBackward, CursorNextLine,
      CursorPreviousLine, SetCol, SetRow, SetPosition
<1>3. CASE \/ EraseDisplay \/ EraseLine \/ EraseChars \/ InsertChars \/ DeleteChars
           \/ InsertLines \/ DeleteLines \/ ScrollUp \/ ScrollDown \/ SetScrollRegion
  BY <1>3, CellsWork, ScrollUpWorks, SetScrollRegionWorks
  DEF Handle, EraseDisplay, EraseLine, EraseChars, InsertChars, DeleteChars,
      InsertLines, DeleteLines, ScrollUp, ScrollDown, SetScrollRegion
<1>4. CASE \/ SetMode \/ SetMouse \/ DeviceStatus \/ PrimaryDa \/ SgrReset \/ SgrLook
           \/ OscTitle \/ OscRequest \/ OscHyperlink \/ RingBell
  BY <1>4, ModesWork, OscWorks
  DEF Handle, SetMode, SetMouse, DeviceStatus, PrimaryDa, SgrReset, SgrLook,
      OscTitle, OscRequest, OscHyperlink, RingBell
<1> QED
  BY <1>1, <1>2, <1>3, <1>4 DEF Ordinary

LEMMA ToldTrans ==
    ASSUME NEW t, NEW u, NEW v, Told(t, u), Told(u, v)
    PROVE  Told(t, v)
BY DEF Told, NoNewLines

LEMMA ResetTells ==
    ASSUME NEW t, Ready(t)
    PROVE  LET u == reset_child_state(t)
           IN /\ Ready(u) /\ u.size = t.size /\ u.on_alternate = FALSE
              /\ t.events.flags \subseteq u.events.flags
              /\ "terminal_reset" \in u.events.flags
<1> DEFINE u == Restarted(t)
           v == report(u, "terminal_reset")
<1>1. /\ Shape(u) /\ u.size = t.size /\ u.on_alternate = FALSE
      /\ u.events = clear_requests(t.events)
  BY RestartedParts, Zenon
<1>2. Channel(clear_requests(t.events)) /\ clear_requests(t.events).flags = t.events.flags
  BY DEF Ready, Channel, clear_requests
<1> HIDE DEF u
<1>3. Ready(u)
  BY <1>1, <1>2 DEF Ready
<1>4. Works(u, v) /\ "terminal_reset" \in v.events.flags /\ Ready(v)
  BY <1>3, ReportWorks, WorksReady
<1> HIDE DEF v
<1>5. t.events.flags \subseteq v.events.flags
  BY <1>1, <1>2, <1>4 DEF Works, Told
<1>6. v.size = t.size /\ v.on_alternate = FALSE
  BY <1>1, <1>4 DEF Works
<1> QED
  <2>1. reset_child_state(t) = v
    BY Zenon DEF reset_child_state, Restarted, u, v
  <2> QED
    BY <1>4, <1>5, <1>6, <2>1

(* Switching the screens touches neither of the two, nor what is reported. *)
LEMMA SwitchTells ==
    ASSUME NEW t, Ready(t), NEW enable, NEW clear_on_enter
    PROVE  LET u == set_alternate(t, enable, clear_on_enter)
           IN Ready(u) /\ Told(t, u) /\ u.primary = t.primary /\ u.scrollback = t.scrollback
<1> DEFINE Quiet(u) == /\ Shape(u) /\ u.events = t.events /\ u.title = t.title
                       /\ u.primary = t.primary /\ u.scrollback = t.scrollback
           Fine(u) == Ready(u) /\ Told(t, u) /\ u.primary = t.primary /\ u.scrollback = t.scrollback
<1>1. \A u : Quiet(u) => Fine(u)
  BY DEF Ready, Told, NoNewLines
<1>2. Quiet(t)
  BY DEF Ready
<1>3. Quiet(enter_alternate(t))
  BY DEF Ready, Shape, Fields, enter_alternate, save_cursor
<1>4. ASSUME NEW u, Quiet(u) PROVE Quiet(clear_alternate(u))
  <2> DEFINE v == [u EXCEPT !.alternate = clear_all(@, DefaultStyle),
                            !.scroll_top = 0, !.scroll_bottom = last_row(u)]
  <2>1. Quiet(v)
    BY <1>4 DEF Shape, Fields
  <2> HIDE DEF v
  <2>2. Quiet(at(v, 0, 0))
    BY <2>1 DEF Shape, Fields, at
  <2> QED
    BY <2>2 DEF clear_alternate, v
<1>5. Quiet(restore_cursor([t EXCEPT !.on_alternate = FALSE]))
  <2> DEFINE u == [t EXCEPT !.on_alternate = FALSE]
             v == [u EXCEPT !.cursor = u.saved.cursor, !.pen = u.saved.pen,
                            !.wrap_pending = u.saved.wrap_pending,
                            !.modes.on = IF u.saved.origin THEN @ \cup {"origin"}
                                         ELSE @ \ {"origin"}]
             w == [v EXCEPT !.cursor = [row |-> clamp(@.row, origin_bounds(v)),
                                        col |-> Least(@.col, last_col(v))]]
  <2>1. Quiet(u)
    BY DEF Ready, Shape, Fields
  <2> HIDE DEF u
  <2>2. Quiet(v)
    BY <2>1 DEF Shape, Fields
  <2> HIDE DEF v
  <2>3. Quiet(w)
    BY <2>2 DEF Shape, Fields
  <2> HIDE DEF w
  <2>4. Quiet(repair_cursor_cell(w))
    BY <2>3 DEF Shape, Fields, repair_cursor_cell
  <2> QED
    BY <2>4 DEF restore_cursor, clamp_cursor, u, v, w
<1> HIDE DEF Quiet, Fine
<1>6. Fine(set_alternate(t, enable, clear_on_enter))
  BY <1>1, <1>2, <1>3, <1>4, <1>5 DEF set_alternate
<1> QED
  BY <1>6 DEF Fine

-----------------------------------------------------------------------------
(* The history is reported.                                                   *)

LEMMA FeedEndTells ==
    ASSUME NEW t, Ready(t), NEW snapshot
    PROVE  LET u == feed_end(t, snapshot)
           IN /\ Ready(u) /\ Told(t, u)
              /\ \A f \in Fields \ {"primary", "events"} : u[f] = t[f]
              /\ u.primary.cells = t.primary.cells
              /\ \/ "screen_updated" \in u.events.flags
                 \/ ~t.primary.dirty /\ visible_scalars(t) \in snapshot
<1> DEFINE u == [t EXCEPT !.primary = take_dirty(@)]
           v == report(u, "screen_updated")
           Kept(w) == /\ \A f \in Fields \ {"primary", "events"} : w[f] = t[f]
                      /\ w.primary.cells = t.primary.cells
<1>1. /\ Shape(u) /\ u.events = t.events /\ Kept(u)
  BY DEF Ready, Shape, Fields, take_dirty
<1>2. \A f \in Fields \ {"events"} : v[f] = u[f]
  BY <1>1 DEF report, Shape, Fields
<1>3. Kept(v)
  BY <1>1, <1>2 DEF Fields
<1>4. u.title = t.title /\ u.scrollback = t.scrollback
  BY <1>1 DEF Fields
<1> HIDE DEF u, Kept
<1>5. Ready(u) /\ Told(t, u)
  BY <1>1, <1>4 DEF Ready, Told, NoNewLines
<1>6. Works(u, v) /\ "screen_updated" \in v.events.flags
  BY <1>5, ReportWorks
<1> HIDE DEF v
<1>7. Ready(v) /\ Told(t, v)
  BY <1>5, <1>6, WorksReady, ToldTrans DEF Works
<1> DEFINE w == feed_end(t, snapshot)
<1>8. \/ w = v
      \/ w = u /\ ~t.primary.dirty /\ visible_scalars(t) \in snapshot
  BY DEF feed_end, u, v
<1> HIDE DEF w
<1>9. Ready(w) /\ Told(t, w) /\ Kept(w)
  BY <1>1, <1>3, <1>5, <1>7, <1>8
<1>10. \/ "screen_updated" \in w.events.flags
       \/ ~t.primary.dirty /\ visible_scalars(t) \in snapshot
  BY <1>6, <1>8
<1> QED
  BY <1>9, <1>10 DEF w, Kept

LEMMA ResizeTells ==
    ASSUME NEW t, Ready(t), NEW size
    PROVE  LET u == resize_terminal(t, size)
           IN /\ Ready(u) /\ Told(t, u) /\ "screen_updated" \in u.events.flags
              /\ u.size = size /\ u.on_alternate = t.on_alternate
<1> DEFINE u == IF t.on_alternate THEN t
                ELSE push_displaced_to_scrollback(t, dropped_rows(t.primary, size.rows))
           row == Monus(t.cursor.row, active_shift(t, size.rows))
           v == at(u, Least(row, size.rows - 1), Least(t.cursor.col, size.cols - 1))
           w == [v EXCEPT !.size = size, !.scroll_top = 0, !.scroll_bottom = size.rows - 1,
                          !.primary = take_dirty(resize(@, size.rows, size.cols)),
                          !.alternate = resize(@, size.rows, size.cols)]
           x == repair_cursor_cell(w)
           y == report(x, "screen_updated")
<1>1. Works(t, u) /\ Ready(u)
  BY PushWorks, WorksStart, WorksReady
<1> HIDE DEF u
<1>2. Works(u, v) /\ Ready(v)
  BY <1>1, AtWorks, WorksReady
<1> HIDE DEF v
<1>3. /\ Shape(w) /\ w.size = size /\ w.on_alternate = v.on_alternate /\ w.events = v.events
      /\ w.title = v.title /\ w.scrollback = v.scrollback
  BY <1>2 DEF Ready, Shape, Fields
<1> HIDE DEF w
<1>4. Ready(w) /\ Told(v, w)
  BY <1>2, <1>3 DEF Ready, Told, NoNewLines
<1>5. Works(w, x) /\ Ready(x)
  BY <1>4, RepairWorks, WorksReady
<1> HIDE DEF x
<1>6. Works(x, y) /\ Ready(y) /\ "screen_updated" \in y.events.flags
  BY <1>5, ReportWorks, WorksReady
<1> HIDE DEF y
<1>7. Told(t, u) /\ Told(u, v) /\ Told(v, w) /\ Told(w, x) /\ Told(x, y)
  BY <1>1, <1>2, <1>4, <1>5, <1>6 DEF Works
<1>8. Told(t, y)
  BY <1>7, ToldTrans
<1>9. y.size = size /\ y.on_alternate = t.on_alternate
  BY <1>1, <1>2, <1>3, <1>5, <1>6 DEF Works
<1> QED
  BY <1>6, <1>8, <1>9 DEF resize_terminal, u, v, w, x, y

LEMMA TrimTells ==
    ASSUME NEW t, Ready(t), NEW lines, NEW cells
    PROVE  LET u == trim_scrollback(t, lines, cells)
           IN /\ Ready(u) /\ \A f \in Fields \ {"scrollback", "scrollback_cells"} : u[f] = t[f]
              /\ u.scrollback = IF 0 \in {lines, cells} THEN <<>>
                                ELSE SubSeq(t.scrollback, excess(t, lines, cells) + 1,
                                            Len(t.scrollback))
BY DEF Ready, Shape, Fields, trim_scrollback, erase_saved_lines, drop_lines

LEMMA DequeueTells ==
    ASSUME NEW t, Ready(t)
    PROVE  LET u == [t EXCEPT !.events = after_next(@)]
           IN /\ Ready(u) /\ \A f \in Fields \ {"events"} : u[f] = t[f]
              /\ \/ u.events.flags = t.events.flags
                 \/ /\ u.events.flags = t.events.flags \ {next_flag(t.events)}
                    /\ next_event(t.events).kind = next_flag(t.events)
<1> DEFINE u == [t EXCEPT !.events = after_next(@)]
<1>1. Shape(u) /\ u.events = after_next(t.events) /\ \A f \in Fields \ {"events"} : u[f] = t[f]
  BY DEF Ready, Shape, Fields
<1>2. /\ Channel(after_next(t.events))
      /\ \/ after_next(t.events).flags = t.events.flags
         \/ /\ after_next(t.events).flags = t.events.flags \ {next_flag(t.events)}
            /\ next_event(t.events).kind = next_flag(t.events)
  BY DEF Ready, Channel, after_next, next_event
<1> HIDE DEF u
<1>3. Ready(u)
  BY <1>1, <1>2 DEF Ready
<1> QED
  BY <1>1, <1>2, <1>3 DEF u

LEMMA NewReady ==
    ASSUME NEW size
    PROVE  Ready(new(size))
BY DEF new, Ready, Shape, Fields, Channel, NoEvents

(* The history is what the caller saw, or gone, or still announced. *)
Announced ==
    \/ term.scrollback \in {caller.seen, <<>>}
    \/ {"scrollback_line_added", "terminal_reset"} \cap term.events.flags # {}

Listener == caller = [drawn |-> caller.drawn, seen |-> caller.seen,
                      title |-> caller.title, known |-> caller.known]

HistoryInv == Ready(term) /\ Listener /\ Announced

LEMMA ToldAnnounced ==
    ASSUME Announced, Listener, Told(term, term'), UNCHANGED caller
    PROVE  Announced' /\ Listener'
<1>1. Announced'
  BY DEF Announced, Told, NoNewLines
<1> QED
  BY <1>1 DEF Listener

LEMMA HistoryStep ==
    ASSUME "scrollback_line_added" \in Watched, HistoryInv, [Next]_vars
    PROVE  HistoryInv'
<1>1. CASE Ordinary
  <2>1. Works(term, term') /\ Ready(term')
    BY <1>1, OrdinaryWorks, WorksReady DEF HistoryInv
  <2>2. UNCHANGED caller
    BY <1>1
    DEF Ordinary, Handle, PrintChar, Backspace, HorizontalTab, LineFeed, CarriageReturn,
      RingBell, SaveCursor, RestoreCursor, NextLine, ReverseIndex,
      CursorUp, CursorDown, CursorForward, CursorBackward, CursorNextLine,
      CursorPreviousLine, SetCol, SetRow, SetPosition,
      EraseDisplay, EraseLine, EraseChars, InsertChars, DeleteChars,
      InsertLines, DeleteLines, ScrollUp, ScrollDown, SetScrollRegion,
      SetMode, SetMouse, DeviceStatus, PrimaryDa, SgrReset, SgrLook,
      OscTitle, OscRequest, OscHyperlink
  <2> QED
    BY <2>1, <2>2, ToldAnnounced DEF HistoryInv, Works
<1>2. CASE ResetChildState
  BY <1>2, ResetTells DEF HistoryInv, Announced, Listener, ResetChildState, Handle
<1>3. CASE SetAlternate
  <2>1. Ready(term') /\ Told(term, term') /\ UNCHANGED caller
    BY <1>3, SwitchTells DEF HistoryInv, SetAlternate, Handle
  <2> QED
    BY <2>1, ToldAnnounced DEF HistoryInv
<1>4. CASE EndFeed
  <2>1. Ready(term') /\ Told(term, term') /\ UNCHANGED caller
    BY <1>4, FeedEndTells DEF HistoryInv, EndFeed
  <2> QED
    BY <2>1, ToldAnnounced DEF HistoryInv
<1>5. CASE Resize
  <2>1. Ready(term') /\ Told(term, term') /\ UNCHANGED caller
    BY <1>5, ResizeTells DEF HistoryInv, Resize
  <2> QED
    BY <2>1, ToldAnnounced DEF HistoryInv
<1>6. CASE DequeueEvent
  <2> DEFINE event == next_event(term.events)
  <2>1. /\ Ready(term') /\ term'.scrollback = term.scrollback
        /\ \/ term'.events.flags = term.events.flags
           \/ /\ term'.events.flags = term.events.flags \ {next_flag(term.events)}
              /\ event.kind = next_flag(term.events)
    BY <1>6, DequeueTells DEF HistoryInv, DequeueEvent, Fields
  <2>2. caller'.seen = IF event.kind \in {"scrollback_line_added", "terminal_reset"}
                       THEN term.scrollback ELSE caller.seen
    BY <1>6 DEF DequeueEvent
  <2>3. Listener'
    BY <1>6 DEF DequeueEvent, Listener
  <2> HIDE DEF event
  <2> QED
    BY <2>1, <2>2, <2>3 DEF HistoryInv, Announced
<1>7. CASE TrimScrollback
  <2>1. PICK limit \in Limits :
            /\ term' = trim_scrollback(term, limit[1], limit[2])
            /\ caller' = [caller EXCEPT !.seen =
                              SubSeq(@, excess(term, limit[1], limit[2]) + 1, Len(@))]
    BY <1>7 DEF TrimScrollback
  <2>2. term.scrollback # <<>>
    BY <1>7 DEF TrimScrollback
  <2> DEFINE n == excess(term, limit[1], limit[2])
  <2>3. /\ Ready(term') /\ term'.events = term.events
        /\ term'.scrollback = IF 0 \in {limit[1], limit[2]} THEN <<>>
                              ELSE SubSeq(term.scrollback, n + 1, Len(term.scrollback))
    BY <2>1, TrimTells DEF HistoryInv, Fields
  <2>4. caller'.seen = SubSeq(caller.seen, n + 1, Len(caller.seen)) /\ Listener'
    BY <2>1 DEF HistoryInv, Listener
  <2> HIDE DEF n
  <2> QED
    BY <2>2, <2>3, <2>4 DEF HistoryInv, Announced
<1>8. CASE AdvanceReplyBytes
  <2>1. PICK n : term' = [term EXCEPT !.replies = @ - n]
    BY <1>8 DEF AdvanceReplyBytes
  <2>2. /\ Shape(term') /\ term'.scrollback = term.scrollback /\ term'.events = term.events
    BY <2>1 DEF HistoryInv, Ready, Shape, Fields
  <2> QED
    BY <1>8, <2>2 DEF HistoryInv, Ready, Announced, Listener, AdvanceReplyBytes
<1>9. CASE UNCHANGED vars
  BY <1>9 DEF vars, HistoryInv, Announced, Listener
<1> QED
  BY <1>1, <1>2, <1>3, <1>4, <1>5, <1>6, <1>7, <1>8, <1>9 DEF Next, Feed, Ordinary

THEOREM HistoryIsReported ==
    ASSUME "scrollback_line_added" \in Watched
    PROVE  Spec => []HistoryReported
<1>1. Init => HistoryInv
  BY NewReady DEF Init, HistoryInv, Announced, Listener, CallerInit
<1>2. HistoryInv /\ [Next]_vars => HistoryInv'
  BY HistoryStep
<1>3. HistoryInv => HistoryReported
  BY DEF HistoryInv, Announced, HistoryReported
<1> QED
  BY <1>1, <1>2, <1>3, PTL DEF Spec

-----------------------------------------------------------------------------
(* The screen and the title are reported.                                     *)

(* What the handlers do around the terminal. *)
LEMMA Framing ==
    ASSUME Ordinary \/ ResetChildState \/ SetAlternate
    PROVE  /\ before' = IF fed = 0 THEN {visible_scalars(term)} ELSE before
           /\ fed' = fed + 1
           /\ UNCHANGED <<caller, repertoire>>
<1> DEFINE Framed == /\ before' = IF fed = 0 THEN {visible_scalars(term)} ELSE before
                     /\ fed' = fed + 1
                     /\ UNCHANGED <<caller, repertoire>>
<1>1. \A sequence, t : Handle(sequence, t) => Framed
  BY DEF Handle
<1> HIDE DEF Framed
<1>2. Framed
  BY <1>1
  DEF Ordinary, PrintChar, Backspace, HorizontalTab, LineFeed, CarriageReturn,
      RingBell, SaveCursor, RestoreCursor, NextLine, ReverseIndex,
      CursorUp, CursorDown, CursorForward, CursorBackward, CursorNextLine,
      CursorPreviousLine, SetCol, SetRow, SetPosition,
      EraseDisplay, EraseLine, EraseChars, InsertChars, DeleteChars,
      InsertLines, DeleteLines, ScrollUp, ScrollDown, SetScrollRegion,
      SetMode, SetMouse, DeviceStatus, PrimaryDa, SgrReset, SgrLook,
      OscTitle, OscRequest, OscHyperlink, ResetChildState, SetAlternate
<1> QED
  BY <1>2 DEF Framed

RepaintPending == {"screen_updated", "terminal_reset"} \cap term.events.flags # {}

CursorShown(modes) == "cursor_visible" \in modes.on

(* The snapshot a feed is compared to is what the caller has drawn. *)
DrawnBefore ==
    \A s \in before : /\ s.cursor = caller.drawn.cursor
                      /\ CursorShown(s.modes) = caller.drawn.cursor_visible

(* In a feed the grid may differ from what is drawn once it is dirty, the     *)
(* cursor as soon as it differs from the snapshot.                            *)
Repainted ==
    \/ RepaintPending
    \/ fed = 0 /\ caller.drawn = visible(term)
    \/ /\ fed # 0 /\ DrawnBefore
       /\ term.primary.cells = caller.drawn.cells \/ term.primary.dirty

Titled ==
    \/ caller.title = term.title
    \/ {"title_updated", "terminal_reset"} \cap term.events.flags # {}

Drawing ==
    caller.drawn = [cells |-> caller.drawn.cells, cursor |-> caller.drawn.cursor,
                    cursor_visible |-> caller.drawn.cursor_visible]

UpToDateInv ==
    /\ Ready(term) /\ Listener /\ Drawing
    /\ repertoire \in Repertoires /\ fed \in Nat
    /\ term.on_alternate = FALSE
    /\ Titled /\ Repainted

LEMMA UpToDateOrdinary ==
    ASSUME UpToDateInv, Ordinary
    PROVE  UpToDateInv'
<1>1. Works(term, term') /\ Ready(term')
  BY OrdinaryWorks, WorksReady DEF UpToDateInv
<1>2. /\ before' = IF fed = 0 THEN {visible_scalars(term)} ELSE before
      /\ fed' = fed + 1 /\ fed' \in Nat /\ fed' # 0
      /\ caller' = caller /\ repertoire' = repertoire
  BY Framing DEF UpToDateInv
<1>3. term'.on_alternate = FALSE
  BY <1>1 DEF UpToDateInv, Works
<1>4. Titled'
  BY <1>1, <1>2 DEF UpToDateInv, Titled, Works, Told
<1>5. RepaintPending => RepaintPending'
  BY <1>1 DEF RepaintPending, Works, Told
<1>6. term'.primary = term.primary \/ term'.primary.dirty
  BY <1>1, <1>3, Zenon DEF UpToDateInv, Works, Drawn
<1>7. ASSUME fed = 0, caller.drawn = visible(term) PROVE Repainted'
  <2>1. DrawnBefore'
    BY <1>2, <1>7 DEF DrawnBefore, visible, visible_scalars, CursorShown
  <2>2. term.primary.cells = caller.drawn.cells
    BY <1>7 DEF UpToDateInv, visible, active
  <2>3. term'.primary.cells = caller'.drawn.cells \/ term'.primary.dirty
    BY <1>2, <1>6, <2>2, Zenon
  <2> QED
    BY <1>2, <2>1, <2>3 DEF Repainted
<1>8. ASSUME fed # 0, DrawnBefore, term.primary.cells = caller.drawn.cells \/ term.primary.dirty
      PROVE  Repainted'
  <2>1. DrawnBefore'
    BY <1>2, <1>8 DEF DrawnBefore
  <2>2. term'.primary.cells = caller'.drawn.cells \/ term'.primary.dirty
    BY <1>2, <1>6, <1>8, Zenon
  <2> QED
    BY <1>2, <2>1, <2>2 DEF Repainted
<1>9. Repainted'
  BY <1>5, <1>7, <1>8 DEF UpToDateInv, Repainted
<1> QED
  BY <1>1, <1>2, <1>3, <1>4, <1>9 DEF UpToDateInv, Listener, Drawing

LEMMA UpToDateEnd ==
    ASSUME UpToDateInv, EndFeed
    PROVE  UpToDateInv'
<1>1. /\ term' = feed_end(term, before)
      /\ fed > 0 /\ fed' = 0 /\ caller' = caller /\ repertoire' = repertoire
  BY DEF EndFeed
<1>2. /\ Ready(term') /\ Told(term, term')
      /\ term'.on_alternate = term.on_alternate /\ term'.cursor = term.cursor
      /\ term'.modes = term.modes /\ term'.primary.cells = term.primary.cells
      /\ \/ "screen_updated" \in term'.events.flags
         \/ ~term.primary.dirty /\ visible_scalars(term) \in before
  BY <1>1, FeedEndTells DEF UpToDateInv, Fields
<1>3. Titled'
  BY <1>1, <1>2 DEF UpToDateInv, Titled, Told
<1>4. RepaintPending => RepaintPending'
  BY <1>2 DEF RepaintPending, Told
<1>5. ASSUME DrawnBefore, term.primary.cells = caller.drawn.cells \/ term.primary.dirty,
             ~term.primary.dirty, visible_scalars(term) \in before
      PROVE  caller'.drawn = visible(term')
  <2>1. /\ term.cursor = caller.drawn.cursor
        /\ CursorShown(term.modes) = caller.drawn.cursor_visible
    BY <1>5 DEF DrawnBefore, visible_scalars
  <2>2. active(term').cells = caller.drawn.cells
    BY <1>2, <1>5 DEF UpToDateInv, active
  <2> QED
    BY <1>1, <1>2, <2>1, <2>2 DEF UpToDateInv, Drawing, visible, CursorShown
<1>6. Repainted'
  BY <1>1, <1>2, <1>4, <1>5 DEF UpToDateInv, Repainted, RepaintPending
<1> QED
  BY <1>1, <1>2, <1>3, <1>6 DEF UpToDateInv, Listener, Drawing

LEMMA UpToDateDequeue ==
    ASSUME {"screen_updated", "title_updated"} \subseteq Watched, UpToDateInv, DequeueEvent
    PROVE  UpToDateInv'
<1> DEFINE event == next_event(term.events)
<1>1. /\ Ready(term') /\ \A f \in Fields \ {"events"} : term'[f] = term[f]
      /\ \/ term'.events.flags = term.events.flags
         \/ /\ term'.events.flags = term.events.flags \ {next_flag(term.events)}
            /\ event.kind = next_flag(term.events)
  BY DequeueTells DEF UpToDateInv, DequeueEvent
<1>2. /\ term'.on_alternate = term.on_alternate /\ term'.cursor = term.cursor
      /\ term'.modes = term.modes /\ term'.primary = term.primary
      /\ term'.alternate = term.alternate /\ term'.title = term.title
  BY <1>1 DEF Fields
<1>3. /\ caller'.drawn = IF event.kind \in {"screen_updated", "terminal_reset"}
                         THEN visible(term) ELSE caller.drawn
      /\ caller'.title = IF event.kind \in {"title_updated", "terminal_reset"}
                         THEN term.title ELSE caller.title
      /\ fed = 0 /\ fed' = fed /\ repertoire' = repertoire
  BY DEF DequeueEvent
<1>4. Listener'
  BY DEF DequeueEvent, Listener
<1>5. Drawing'
  BY <1>3 DEF UpToDateInv, Drawing, visible
<1>6. visible(term') = visible(term)
  BY <1>2 DEF visible, active
<1> HIDE DEF event
<1>7. Titled'
  BY <1>1, <1>2, <1>3 DEF UpToDateInv, Titled
<1>8. Repainted'
  BY <1>1, <1>3, <1>6 DEF UpToDateInv, Repainted, RepaintPending
<1> QED
  BY <1>1, <1>2, <1>3, <1>4, <1>5, <1>7, <1>8 DEF UpToDateInv

(* Between two feeds, nothing that is drawn changed. *)
LEMMA QuietCaller ==
    ASSUME UpToDateInv, fed = 0, fed' = fed, repertoire' = repertoire, Ready(term)',
           \A f \in Fields \ {"scrollback", "scrollback_cells", "replies"} : term'[f] = term[f],
           Listener', caller'.drawn = caller.drawn, caller'.title = caller.title
    PROVE  UpToDateInv'
<1>1. /\ term'.on_alternate = term.on_alternate /\ term'.cursor = term.cursor
      /\ term'.modes = term.modes /\ term'.primary = term.primary
      /\ term'.alternate = term.alternate /\ term'.title = term.title
      /\ term'.events = term.events
  BY DEF Fields
<1>2. visible(term') = visible(term)
  BY <1>1 DEF visible, active
<1>3. Titled' /\ Drawing'
  BY <1>1 DEF UpToDateInv, Titled, Drawing
<1>4. Repainted'
  BY <1>1, <1>2 DEF UpToDateInv, Repainted, RepaintPending
<1> QED
  BY <1>1, <1>3, <1>4 DEF UpToDateInv

LEMMA UpToDateStep ==
    ASSUME {"screen_updated", "title_updated"} \subseteq Watched,
           \A r \in Repertoires : {"1047", "1049"} \cap r = {},
           UpToDateInv, [Next]_vars
    PROVE  UpToDateInv'
<1>1. CASE Ordinary
  BY <1>1, UpToDateOrdinary
<1>2. CASE ResetChildState
  <2>1. Ready(term') /\ term'.on_alternate = FALSE /\ "terminal_reset" \in term'.events.flags
    BY <1>2, ResetTells DEF UpToDateInv, ResetChildState, Handle
  <2> QED
    BY <1>2, <2>1, Framing
    DEF UpToDateInv, Titled, Repainted, RepaintPending, Listener, Drawing
<1>3. CASE SetAlternate
  BY <1>3 DEF UpToDateInv, SetAlternate, Handle
<1>4. CASE EndFeed
  BY <1>4, UpToDateEnd
<1>5. CASE DequeueEvent
  BY <1>5, UpToDateDequeue
<1>6. CASE Resize
  <2>1. PICK size : term' = resize_terminal(term, size)
    BY <1>6 DEF Resize
  <2>2. /\ Ready(term') /\ Told(term, term') /\ "screen_updated" \in term'.events.flags
        /\ term'.on_alternate = term.on_alternate
    BY <2>1, ResizeTells DEF UpToDateInv
  <2> QED
    BY <1>6, <2>2
    DEF UpToDateInv, Titled, Told, Repainted, RepaintPending, Listener, Drawing, Resize
<1>7. CASE TrimScrollback
  <2>1. PICK limit \in Limits :
            /\ term' = trim_scrollback(term, limit[1], limit[2])
            /\ caller' = [caller EXCEPT !.seen =
                              SubSeq(@, excess(term, limit[1], limit[2]) + 1, Len(@))]
    BY <1>7 DEF TrimScrollback
  <2>2. /\ Ready(term')
        /\ \A f \in Fields \ {"scrollback", "scrollback_cells"} : term'[f] = term[f]
    BY <2>1, TrimTells DEF UpToDateInv
  <2>3. Listener' /\ caller'.drawn = caller.drawn /\ caller'.title = caller.title
    BY <2>1 DEF UpToDateInv, Listener
  <2>4. fed = 0 /\ fed' = fed /\ repertoire' = repertoire
    BY <1>7 DEF TrimScrollback
  <2>5. \A f \in Fields \ {"scrollback", "scrollback_cells", "replies"} : term'[f] = term[f]
    BY <2>2
  <2> QED
    BY <2>2, <2>3, <2>4, <2>5, QuietCaller
<1>8. CASE AdvanceReplyBytes
  <2>1. PICK n : term' = [term EXCEPT !.replies = @ - n]
    BY <1>8 DEF AdvanceReplyBytes
  <2>2. /\ Ready(term')
        /\ \A f \in Fields \ {"replies"} : term'[f] = term[f]
    BY <2>1 DEF UpToDateInv, Ready, Shape, Fields
  <2>3. Listener' /\ caller'.drawn = caller.drawn /\ caller'.title = caller.title
    BY <1>8 DEF UpToDateInv, Listener, AdvanceReplyBytes
  <2>4. fed = 0 /\ fed' = fed /\ repertoire' = repertoire
    BY <1>8 DEF AdvanceReplyBytes
  <2>5. \A f \in Fields \ {"scrollback", "scrollback_cells", "replies"} : term'[f] = term[f]
    BY <2>2
  <2> QED
    BY <2>2, <2>3, <2>4, <2>5, QuietCaller
<1>9. CASE UNCHANGED vars
  BY <1>9 DEF vars, UpToDateInv, Titled, Repainted, RepaintPending, DrawnBefore, Listener,
              Drawing, visible, active
<1> QED
  BY <1>1, <1>2, <1>3, <1>4, <1>5, <1>6, <1>7, <1>8, <1>9 DEF Next, Feed, Ordinary

THEOREM CallerIsUpToDate ==
    ASSUME {"screen_updated", "title_updated"} \subseteq Watched,
           \A r \in Repertoires : {"1047", "1049"} \cap r = {}
    PROVE  Spec => []CallerUpToDate
<1>1. Init => UpToDateInv
  <2> SUFFICES ASSUME Init PROVE UpToDateInv
    OBVIOUS
  <2>1. PICK size \in Sizes : term = new(size) /\ caller = CallerInit(new(size))
    BY DEF Init
  <2>2. Ready(term) /\ term.on_alternate = FALSE
    BY <2>1, NewReady DEF new
  <2>3. Listener /\ Drawing /\ caller.drawn = visible(term) /\ caller.title = term.title
    BY <2>1 DEF Listener, Drawing, CallerInit, visible
  <2> QED
    BY <2>2, <2>3 DEF Init, UpToDateInv, Titled, Repainted
<1>2. UpToDateInv /\ [Next]_vars => UpToDateInv'
  BY UpToDateStep
<1>3. UpToDateInv => CallerUpToDate
  BY DEF UpToDateInv, Titled, Repainted, RepaintPending,
         CallerUpToDate, RepaintNotMissed, TitleReported
<1> QED
  BY <1>1, <1>2, <1>3, PTL DEF Spec

-----------------------------------------------------------------------------
(* A wrap waits at the edge.                                                  *)

Settled(t) == t.wrap_pending = FALSE
Still(t, u) ==
    /\ u.wrap_pending = t.wrap_pending /\ u.cursor = t.cursor
    /\ u.saved = t.saved /\ u.size = t.size

(* What WrapOnlyAtEdge says of a terminal. *)
Edge(t) == t.wrap_pending => t.cursor.col = last_col(t) \/ t.saved.wrap_pending

LEMMA EdgeKept ==
    ASSUME NEW t, NEW u
    PROVE  /\ Settled(u) => Edge(u)
           /\ Edge(t) /\ Still(t, u) => Edge(u)
<1>1. Settled(u) => Edge(u)
  BY DEF Settled, Edge
<1>2. Still(t, u) => last_col(u) = last_col(t)
  BY DEF Still, last_col
<1>3. Edge(t) /\ Still(t, u) => Edge(u)
  BY <1>2, Zenon DEF Edge, Still
<1> QED
  BY <1>1, <1>3

LEMMA StillSettled ==
    ASSUME NEW t, NEW u, Settled(t), Still(t, u)
    PROVE  Settled(u)
BY DEF Settled, Still

LEMMA DrawingStill ==
    ASSUME NEW t, Shape(t), NEW x, NEW y
    PROVE  /\ Still(t, with_active(t, x)) /\ Still(t, report(t, x)) /\ Still(t, offer(t, x))
           /\ Still(t, push_displaced_to_scrollback(t, x))
           /\ Still(t, erase_saved_lines(t)) /\ Still(t, trim_scrollback(t, x, y))
           /\ Still(t, with_mode(t, x, y)) /\ Still(t, set_mouse(t, x, y))
           /\ Still(t, reply(t, x)) /\ Still(t, sgr_reset(t)) /\ Still(t, sgr_look(t, x))
           /\ Still(t, osc_title(t, x)) /\ Still(t, osc_hyperlink_close(t))
           /\ Still(t, osc_hyperlink_open(t)) /\ Still(t, feed_end(t, x))
<1>1. Still(t, with_active(t, x)) /\ Still(t, report(t, x)) /\ Still(t, offer(t, x))
  BY DEF Shape, Fields, Still, with_active, report, offer
<1>2. Still(t, push_displaced_to_scrollback(t, x))
  BY DEF Shape, Fields, Still, push_displaced_to_scrollback, report
<1>3. Still(t, erase_saved_lines(t)) /\ Still(t, trim_scrollback(t, x, y))
  BY DEF Shape, Fields, Still, trim_scrollback, erase_saved_lines, drop_lines
<1>4. Still(t, with_mode(t, x, y)) /\ Still(t, set_mouse(t, x, y)) /\ Still(t, reply(t, x))
  BY DEF Shape, Fields, Still, with_mode, set_mouse, reply
<1>5. Still(t, sgr_reset(t)) /\ Still(t, sgr_look(t, x))
  BY DEF Shape, Fields, Still, sgr_reset, sgr_look
<1>6. Still(t, osc_title(t, x)) /\ Still(t, osc_hyperlink_close(t))
  BY DEF Shape, Fields, Still, osc_title, osc_hyperlink_close, report
<1>7. Still(t, osc_hyperlink_open(t)) /\ Still(t, feed_end(t, x))
  BY DEF Shape, Fields, Still, osc_hyperlink_open, offer, feed_end, report
<1> QED
  BY <1>1, <1>2, <1>3, <1>4, <1>5, <1>6, <1>7

LEMMA StillTrans ==
    ASSUME NEW t, NEW u, NEW v, Still(t, u), Still(u, v)
    PROVE  Still(t, v)
BY DEF Still

LEMMA ScrollUpStill ==
    ASSUME NEW t, Ready(t), NEW count
    PROVE  Still(t, scroll_up_screen(t, count))
<1> DEFINE s == scroll_up(active(t), count, t.scroll_top, t.scroll_bottom, t.pen)
           u == with_active(t, s)
           rows == scrolled_off(active(t), count, t.scroll_top, t.scroll_bottom)
<1>1. Shape(u) /\ Still(t, u)
  BY DrawingStill DEF Ready, Shape, Fields, with_active
<1> HIDE DEF u, rows
<1>2. Still(t, push_displaced_to_scrollback(u, rows))
  BY <1>1, DrawingStill, StillTrans
<1> QED
  BY <1>1, <1>2 DEF scroll_up_screen, u, rows

LEMMA AtSettled ==
    ASSUME NEW t, Shape(t), NEW row, NEW col
    PROVE  Settled(at(t, row, col))
BY DEF Settled, Shape, Fields, at

LEMMA ColSettled ==
    ASSUME NEW t, Shape(t), Settled(t), NEW x
    PROVE  Settled([t EXCEPT !.cursor.col = x]) /\ Settled([t EXCEPT !.cursor.row = x])
BY DEF Settled, Shape, Fields

LEMMA LineFeedSettled ==
    ASSUME NEW t, Ready(t)
    PROVE  Settled(line_feed(t))
<1> DEFINE u == [t EXCEPT !.wrap_pending = FALSE]
<1>1. Settled(u) /\ Ready(u)
  BY DEF Settled, Ready, Shape, Fields
<1> HIDE DEF u
<1>2. Settled(scroll_up_screen(u, 1)) /\ Settled([u EXCEPT !.cursor.row = @ + 1])
  BY <1>1, ScrollUpStill, StillSettled, ColSettled DEF Ready
<1> QED
  BY <1>1, <1>2 DEF line_feed, u

LEMMA NextLineSettled ==
    ASSUME NEW t, Ready(t)
    PROVE  Settled(next_line(t)) /\ Settled(carriage_return(t))
BY LineFeedSettled, AtSettled, AtWorks, WorksReady DEF next_line, carriage_return, Ready

LEMMA ReverseIndexSettled ==
    ASSUME NEW t, Ready(t)
    PROVE  Settled(reverse_index(t))
<1> DEFINE u == [t EXCEPT !.wrap_pending = FALSE]
<1>1. Settled(u) /\ Shape(u)
  BY DEF Settled, Ready, Shape, Fields
<1> HIDE DEF u
<1>2. \A s : Settled(with_active(u, s))
  BY <1>1, DrawingStill, StillSettled
<1>3. Settled([u EXCEPT !.cursor.row = @ - 1])
  BY <1>1, ColSettled
<1> QED
  BY <1>1, <1>2, <1>3 DEF reverse_index, u

LEMMA RepairKeepsWrap ==
    ASSUME NEW t, Shape(t)
    PROVE  LET u == repair_cursor_cell(t)
           IN Shape(u) /\ u.wrap_pending = t.wrap_pending /\ u.saved = t.saved
BY DEF repair_cursor_cell, Shape, Fields

(* DECRC brings back the wrap that was saved with the cursor. *)
LEMMA RestoreEdge ==
    ASSUME NEW t, Shape(t)
    PROVE  Edge(restore_cursor(t))
<1> DEFINE u == [t EXCEPT !.cursor = t.saved.cursor, !.pen = t.saved.pen,
                          !.wrap_pending = t.saved.wrap_pending,
                          !.modes.on = IF t.saved.origin THEN @ \cup {"origin"}
                                       ELSE @ \ {"origin"}]
           v == [u EXCEPT !.cursor = [row |-> clamp(@.row, origin_bounds(u)),
                                      col |-> Least(@.col, last_col(u))]]
           w == repair_cursor_cell(v)
<1>1. Shape(u) /\ u.wrap_pending = t.saved.wrap_pending /\ u.saved = t.saved
  BY DEF Shape, Fields
<1> HIDE DEF u
<1>2. Shape(v) /\ v.wrap_pending = t.saved.wrap_pending /\ v.saved = t.saved
  BY <1>1 DEF Shape, Fields
<1> HIDE DEF v
<1>3. w.wrap_pending = w.saved.wrap_pending
  BY <1>2, RepairKeepsWrap
<1> HIDE DEF w
<1>4. Edge(w)
  BY <1>3, Zenon DEF Edge
<1> QED
  BY <1>4 DEF restore_cursor, clamp_cursor, u, v, w

LEMMA SaveEdge ==
    ASSUME NEW t, Shape(t)
    PROVE  Edge(save_cursor(t)) /\ Edge([save_cursor(t) EXCEPT !.on_alternate = TRUE])
<1> DEFINE u == save_cursor(t)
           v == [u EXCEPT !.on_alternate = TRUE]
<1>1. u.wrap_pending = u.saved.wrap_pending /\ v.wrap_pending = v.saved.wrap_pending
  BY DEF save_cursor, Shape, Fields
<1> HIDE DEF u, v
<1>2. Edge(u) /\ Edge(v)
  BY <1>1, Zenon DEF Edge
<1> QED
  BY <1>2 DEF u, v

LEMMA PutEdge ==
    ASSUME NEW t, Ready(t), Sound(t), NEW ch
    PROVE  Edge(put(t, ch))
<1> DEFINE line == IF "insert" \in t.modes.on
                   THEN insert_columns(cursor_line(t), t.cursor.col, Width(ch), t.pen)
                   ELSE cursor_line(t)
           u == with_cursor_line(t, put_glyph(line, t.cursor.col, ch, Width(ch), t.pen))
           next_col == t.cursor.col + Width(ch)
           v == [u EXCEPT !.cursor.col = last_col(t), !.wrap_pending = autowrap(t)]
           w == [u EXCEPT !.cursor.col = next_col, !.wrap_pending = FALSE]
<1>1. Still(t, u) /\ Shape(u)
  BY DrawingStill, DrawingWorks, RowsDirty, WorksReady DEF with_cursor_line, Ready
<1> HIDE DEF u
<1>2. Settled(w)
  BY <1>1 DEF Settled, Shape, Fields
<1>3. v.cursor.col = last_col(v)
  <2>1. u.cursor = t.cursor /\ u.size = t.size
    BY <1>1 DEF Still
  <2>2. v.size = t.size /\ v.cursor = [t.cursor EXCEPT !.col = last_col(t)]
    BY <1>1, <2>1 DEF Shape, Fields
  <2>3. v.cursor.col = last_col(t)
    BY <2>2 DEF Sound, Bounded
  <2> QED
    BY <2>2, <2>3 DEF last_col
<1> QED
  BY <1>2, <1>3, EdgeKept DEF put, u, Edge

LEMMA PrintEdge ==
    ASSUME NEW t, Ready(t), Sound(t), NEW ch
    PROVE  Edge(print_char(t, ch))
<1> DEFINE u == [t EXCEPT !.wrap_pending = FALSE]
           v == after_pending_wrap(t)
           w == make_room(v, Width(ch))
<1>1. Works(t, u) /\ Settled(u)
  BY CursorWorks DEF Settled, Ready, Shape, Fields
<1>2. Ready(u)
  BY <1>1, WorksReady
<1>3. Ready(v) /\ Settled(v)
  <2> HIDE DEF u
  <2> QED
    BY <1>1, <1>2, NextLineSettled, NextLineWorks, WorksReady DEF after_pending_wrap, u
<1>4. Sound(v) /\ Sound(w)
  BY AfterPendingWrapSound, MakeRoomSound
<1> HIDE DEF v
<1>5. Ready(w) /\ Settled(w)
  BY <1>3, NextLineSettled, ColSettled, CursorWorks, NextLineWorks, WorksReady
  DEF make_room, Ready
<1> HIDE DEF w
<1>6. Edge(w) /\ Edge(put(w, ch))
  BY <1>4, <1>5, EdgeKept, PutEdge
<1> QED
  BY <1>6 DEF print_char, v, w

LEMMA MovesSettled ==
    ASSUME NEW t, Ready(t), NEW n, NEW m
    PROVE  /\ Settled(cursor_up(t, n)) /\ Settled(cursor_down(t, n))
           /\ Settled(cursor_forward(t, n)) /\ Settled(cursor_backward(t, n))
           /\ Settled(set_col(t, n)) /\ Settled(set_row(t, n))
           /\ Settled(set_position(t, n, m))
           /\ Settled(backspace(t)) /\ Settled(horizontal_tab(t))
           /\ Settled(to_first_col(cursor_down(t, n)))
           /\ Settled(to_first_col(cursor_up(t, n)))
<1>1. /\ Settled(cursor_up(t, n)) /\ Settled(cursor_down(t, n))
      /\ Settled(cursor_forward(t, n)) /\ Settled(cursor_backward(t, n))
      /\ Settled(set_col(t, n)) /\ Settled(set_row(t, n))
      /\ Settled(set_position(t, n, m))
      /\ Settled(backspace(t)) /\ Settled(horizontal_tab(t))
  BY AtSettled
  DEF Ready, cursor_up, cursor_down, cursor_forward, cursor_backward, set_col, set_row,
      set_position, backspace, horizontal_tab
<1>2. Shape(cursor_down(t, n)) /\ Shape(cursor_up(t, n))
  BY MovesWork, WorksReady DEF Ready
<1>3. Settled(to_first_col(cursor_down(t, n))) /\ Settled(to_first_col(cursor_up(t, n)))
  BY <1>1, <1>2, ColSettled DEF to_first_col
<1> QED
  BY <1>1, <1>3

LEMMA EditsStill ==
    ASSUME NEW t, Ready(t), NEW n
    PROVE  /\ Still(t, erase_display(t, n)) /\ Still(t, erase_line(t, n))
           /\ Still(t, erase_chars(t, n))
           /\ Still(t, insert_chars(t, n)) /\ Still(t, delete_chars(t, n))
           /\ Still(t, insert_rows(t, n)) /\ Still(t, delete_rows(t, n))
           /\ Still(t, scroll_down_screen(t, n))
<1>1. Still(t, t)
  BY DEF Still
<1>2. \A s : Still(t, with_active(t, s))
  BY DrawingStill DEF Ready
<1>3. Still(t, erase_saved_lines(t))
  BY DrawingStill DEF Ready
<1>4. Still(t, erase_display(t, n))
  BY <1>1, <1>2, <1>3 DEF erase_display
<1>5. Still(t, erase_line(t, n)) /\ Still(t, erase_chars(t, n))
  BY <1>1, <1>2 DEF erase_line, erase_chars
<1> QED
  BY <1>2, <1>4, <1>5
  DEF insert_chars, delete_chars, with_cursor_line, insert_rows, delete_rows,
      scroll_down_screen

LEMMA SetScrollRegionSettled ==
    ASSUME NEW t, Ready(t), NEW top, NEW bottom
    PROVE  Settled(set_scroll_region(t, top, bottom))
<1> DEFINE v == [t EXCEPT !.scroll_top = Monus(top, 1), !.scroll_bottom = Monus(bottom, 1)]
<1>1. Shape(v) /\ Shape(t)
  BY DEF Ready, Shape, Fields
<1> HIDE DEF v
<1> QED
  BY <1>1, AtSettled DEF set_scroll_region, v

EdgeInv == Ready(term) /\ SoundTerm /\ Edge(term)

LEMMA EdgeOrdinary ==
    ASSUME EdgeInv, Ordinary
    PROVE  Edge(term')
<1>1. CASE \/ PrintChar \/ Backspace \/ HorizontalTab \/ LineFeed \/ CarriageReturn
           \/ SaveCursor \/ RestoreCursor \/ NextLine \/ ReverseIndex
  BY <1>1, PrintEdge, MovesSettled, LineFeedSettled, NextLineSettled, SaveEdge, RestoreEdge,
     ReverseIndexSettled, EdgeKept
  DEF EdgeInv, SoundTerm, Ready, Handle, PrintChar, Backspace, HorizontalTab, LineFeed,
      CarriageReturn, SaveCursor, RestoreCursor, NextLine, ReverseIndex
<1>2. CASE \/ CursorUp \/ CursorDown \/ CursorForward \/ CursorBackward
           \/ CursorNextLine \/ CursorPreviousLine \/ SetCol \/ SetRow \/ SetPosition
  BY <1>2, MovesSettled, EdgeKept
  DEF EdgeInv, Handle, CursorUp, CursorDown, CursorForward, CursorBackward, CursorNextLine,
      CursorPreviousLine, SetCol, SetRow, SetPosition
<1>3. CASE \/ EraseDisplay \/ EraseLine \/ EraseChars \/ InsertChars \/ DeleteChars
           \/ InsertLines \/ DeleteLines \/ ScrollUp \/ ScrollDown \/ SetScrollRegion
  BY <1>3, EditsStill, ScrollUpStill, SetScrollRegionSettled, EdgeKept
  DEF EdgeInv, Handle, EraseDisplay, EraseLine, EraseChars, InsertChars, DeleteChars,
      InsertLines, DeleteLines, ScrollUp, ScrollDown, SetScrollRegion
<1>4. CASE \/ SetMode \/ SetMouse \/ DeviceStatus \/ PrimaryDa \/ SgrReset \/ SgrLook
           \/ OscTitle \/ OscRequest \/ OscHyperlink \/ RingBell
  <2>1. Ready(term) /\ Shape(term) /\ Still(term, term)
    BY DEF EdgeInv, Ready, Still
  <2>2. PICK a, b :
            \/ term' = ring_bell(term) \/ term' = osc_request(term)
            \/ term' = set_mouse(term, a, b) \/ term' = set_mode(term, a, b)
            \/ term' = primary_da(term) \/ term' = device_status(term, a)
            \/ term' = sgr_reset(term) \/ term' = sgr_look(term, a)
            \/ term' = osc_title(term, a)
            \/ term' = osc_hyperlink_open(term) \/ term' = osc_hyperlink_close(term)
    BY <1>4
    DEF Handle, SetMouse, SetMode, DeviceStatus, PrimaryDa, SgrReset, SgrLook,
        OscTitle, OscRequest, OscHyperlink, RingBell
  <2>3. Ready(with_mode(term, a, b))
    BY <2>1 DEF Ready, Shape, Fields, with_mode
  <2>4. Settled(set_mode(term, a, b)) \/ Still(term, set_mode(term, a, b))
    BY <2>1, <2>3, MovesSettled, DrawingStill DEF set_mode
  <2>5. /\ Still(term, ring_bell(term)) /\ Still(term, osc_request(term))
        /\ Still(term, set_mouse(term, a, b)) /\ Still(term, primary_da(term))
        /\ Still(term, device_status(term, a)) /\ Still(term, sgr_reset(term))
        /\ Still(term, sgr_look(term, a)) /\ Still(term, osc_title(term, a))
        /\ Still(term, osc_hyperlink_open(term)) /\ Still(term, osc_hyperlink_close(term))
    BY <2>1, DrawingStill DEF ring_bell, osc_request, primary_da, device_status
  <2>6. Settled(term') \/ Still(term, term')
    BY <2>2, <2>4, <2>5
  <2> QED
    BY <2>6, EdgeKept DEF EdgeInv
<1> QED
  BY <1>1, <1>2, <1>3, <1>4 DEF Ordinary

LEMMA ReadyInit ==
    Init => Ready(term)
BY NewReady DEF Init

LEMMA ReadyStep ==
    ASSUME Ready(term), [Next]_vars
    PROVE  Ready(term')
<1>1. CASE Ordinary
  BY <1>1, OrdinaryWorks, WorksReady
<1>2. CASE ResetChildState
  BY <1>2, ResetTells DEF ResetChildState, Handle
<1>3. CASE SetAlternate
  BY <1>3, SwitchTells DEF SetAlternate, Handle
<1>4. CASE EndFeed \/ Resize \/ DequeueEvent \/ TrimScrollback
  BY <1>4, FeedEndTells, ResizeTells, DequeueTells, TrimTells
  DEF EndFeed, Resize, DequeueEvent, TrimScrollback
<1>5. CASE AdvanceReplyBytes
  BY <1>5 DEF AdvanceReplyBytes, Ready, Shape, Fields
<1>6. CASE UNCHANGED vars
  BY <1>6 DEF vars
<1> QED
  BY <1>1, <1>2, <1>3, <1>4, <1>5, <1>6 DEF Next, Feed, Ordinary

LEMMA ResetSettled ==
    ASSUME NEW t
    PROVE  Settled(reset_child_state(t))
<1> DEFINE u == Restarted(t)
<1>1. Shape(u) /\ Settled(u)
  BY RestartedParts, Zenon DEF Settled
<1>2. reset_child_state(t) = report(u, "terminal_reset")
  BY Zenon DEF reset_child_state, Restarted
<1> HIDE DEF u
<1> QED
  BY <1>1, <1>2, DrawingStill, StillSettled

LEMMA SwitchEdge ==
    ASSUME NEW t, Ready(t), Edge(t), NEW enable, NEW clear_on_enter
    PROVE  Edge(set_alternate(t, enable, clear_on_enter))
<1>1. Edge(enter_alternate(t))
  BY SaveEdge DEF enter_alternate, Ready
<1>2. Edge(clear_alternate(enter_alternate(t)))
  <2>1. Ready(enter_alternate(t))
    BY DEF enter_alternate, save_cursor, Ready, Shape, Fields
  <2> DEFINE e == enter_alternate(t)
             u == [e EXCEPT !.alternate = clear_all(@, DefaultStyle),
                            !.scroll_top = 0, !.scroll_bottom = last_row(e)]
  <2> HIDE DEF e
  <2>2. Shape(u)
    BY <2>1 DEF Ready, Shape, Fields, e
  <2> HIDE DEF u
  <2>3. Edge(at(u, 0, 0))
    BY <2>2, AtSettled, EdgeKept
  <2> QED
    BY <2>3 DEF clear_alternate, e, u
<1>3. Edge(restore_cursor([t EXCEPT !.on_alternate = FALSE]))
  <2>1. Shape([t EXCEPT !.on_alternate = FALSE])
    BY DEF Ready, Shape, Fields
  <2> QED
    BY <2>1, RestoreEdge
<1> QED
  BY <1>1, <1>2, <1>3 DEF set_alternate

LEMMA ResizeSettled ==
    ASSUME NEW t, Ready(t), NEW size
    PROVE  Settled(resize_terminal(t, size))
<1> DEFINE u == IF t.on_alternate THEN t
                ELSE push_displaced_to_scrollback(t, dropped_rows(t.primary, size.rows))
           row == Monus(t.cursor.row, active_shift(t, size.rows))
           v == at(u, Least(row, size.rows - 1), Least(t.cursor.col, size.cols - 1))
           w == [v EXCEPT !.size = size, !.scroll_top = 0, !.scroll_bottom = size.rows - 1,
                          !.primary = take_dirty(resize(@, size.rows, size.cols)),
                          !.alternate = resize(@, size.rows, size.cols)]
           x == repair_cursor_cell(w)
<1>1. Ready(u)
  BY PushWorks, WorksReady
<1> HIDE DEF u
<1>2. Settled(v) /\ Shape(v)
  BY <1>1, AtSettled, AtWorks, WorksReady DEF Ready
<1> HIDE DEF v
<1>3. Settled(w) /\ Shape(w)
  BY <1>2 DEF Settled, Shape, Fields
<1> HIDE DEF w
<1>4. Settled(x) /\ Shape(x)
  BY <1>3, RepairKeepsWrap DEF Settled
<1> HIDE DEF x
<1>5. Settled(report(x, "screen_updated"))
  BY <1>4, DrawingStill, StillSettled
<1> QED
  BY <1>5 DEF resize_terminal, u, v, w, x

LEMMA EdgeStep ==
    ASSUME EdgeInv, [Next]_vars
    PROVE  Edge(term')
<1>1. CASE Ordinary
  BY <1>1, EdgeOrdinary
<1>2. CASE ResetChildState
  BY <1>2, ResetSettled, EdgeKept DEF ResetChildState, Handle
<1>3. CASE SetAlternate
  BY <1>3, SwitchEdge DEF EdgeInv, SetAlternate, Handle
<1>4. CASE EndFeed \/ TrimScrollback
  <2>1. PICK a, b : term' = feed_end(term, a) \/ term' = trim_scrollback(term, a, b)
    BY <1>4 DEF EndFeed, TrimScrollback
  <2>2. Still(term, feed_end(term, a)) /\ Still(term, trim_scrollback(term, a, b))
    BY DrawingStill DEF EdgeInv, Ready
  <2> QED
    BY <2>1, <2>2, EdgeKept DEF EdgeInv
<1>5. CASE Resize
  BY <1>5, ResizeSettled, EdgeKept DEF EdgeInv, Resize
<1>6. CASE DequeueEvent \/ AdvanceReplyBytes
  <2>1. PICK n : \/ term' = [term EXCEPT !.events = after_next(@)]
                 \/ term' = [term EXCEPT !.replies = @ - n]
    BY <1>6 DEF DequeueEvent, AdvanceReplyBytes
  <2>2. Still(term, term')
    BY <2>1 DEF EdgeInv, Ready, Shape, Fields, Still
  <2> QED
    BY <2>2, EdgeKept DEF EdgeInv
<1>7. CASE UNCHANGED vars
  BY <1>7 DEF EdgeInv, vars
<1> QED
  BY <1>1, <1>2, <1>3, <1>4, <1>5, <1>6, <1>7 DEF Next, Feed, Ordinary

THEOREM WrapWaitsAtEdge == Spec => []WrapOnlyAtEdge
<1>1. Init => EdgeInv
  <2>1. \A size : Edge(new(size))
    BY EdgeKept DEF Settled, new
  <2> QED
    BY <2>1, ReadyInit, SoundInit DEF Init, EdgeInv
<1>2. EdgeInv /\ [Next]_vars => EdgeInv'
  BY EdgeStep, ReadyStep, SoundStep DEF EdgeInv
<1>3. EdgeInv => WrapOnlyAtEdge
  BY DEF EdgeInv, Edge, WrapOnlyAtEdge
<1> QED
  BY <1>1, <1>2, <1>3, PTL DEF Spec
=============================================================================
