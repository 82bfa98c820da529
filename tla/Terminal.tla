------------------------------- MODULE Terminal -------------------------------
(* TerminalState and its VTE performer: what each control sequence does to    *)
(* the two screens, the cursor, the modes, the history and the event channel. *)
(* A handler is an operator from terminal to terminal, because handlers call  *)
(* each other.  Bytes reach them framed as sequences by the vte tokenizer; a  *)
(* feed() interprets some of them and then decides what to report.  A caller  *)
(* drains the events and repaints, trims, writes replies and resizes.         *)
EXTENDS Screen, Events

CONSTANTS
    Sizes,          \* the sizes callers choose, the first one included
    Narrow, Wide,   \* printable characters of width 1 and of width 2
    Params,         \* numbers the child puts into a control sequence
    Repertoires,    \* the sets of control sequences a child limits itself to
    Watched,        \* the events the caller acts upon
    Limits,         \* the <<lines, cells>> the caller trims the history to
    IdMax,          \* NonZeroU32::MAX
    MaxFeed,        \* bound: sequences in one feed
    MaxHistory,     \* bound: lines of history beyond which nothing is added
    MaxPayload,     \* bound: payload events before the child pauses
    MaxReplies      \* bound: reply bytes before the child pauses

Size == [rows : Nat \ {0}, cols : Nat \ {0}]
U16 == 65536

ASSUME TerminalAssumption ==
    /\ Sizes \subseteq Size
    /\ \A size \in Sizes : size.rows < U16 /\ size.cols < U16
    /\ Narrow \cap Wide = {}
    /\ Params \subseteq 0 .. U16 - 1
    /\ Limits \subseteq Nat \X Nat
    /\ IdMax \in Nat \ {0}
    /\ MaxFeed \in Nat

VARIABLES
    repertoire,     \* the control sequences this child sends
    term,           \* the TerminalState
    before,         \* {feed's snapshot of the visible scalars}; {} between feeds
    fed,            \* sequences interpreted in the running feed
    caller,         \* what the caller last learnt from events: see CallerInit
    left            \* cursor and pen of the primary screen when it was last active

vars == <<repertoire, term, before, fed, caller, left>>

BoolMode == {"autowrap", "origin", "insert", "application_cursor", "application_keypad",
             "bracketed_paste", "cursor_visible", "mouse_sgr"}
MouseReporting == {"Off", "X10", "Normal", "ButtonEvent", "AnyEvent"}
DefaultModes == [on |-> {"autowrap", "cursor_visible"}, mouse |-> "Off"]
Home == [row |-> 0, col |-> 0]
DefaultSaved == [cursor |-> Home, pen |-> DefaultStyle, wrap_pending |-> FALSE, origin |-> FALSE]

new(size) ==
    [size |-> size,
     primary |-> blank_screen(size.rows, size.cols),
     alternate |-> blank_screen(size.rows, size.cols),
     on_alternate |-> FALSE,
     cursor |-> Home, saved |-> DefaultSaved, wrap_pending |-> FALSE,
     pen |-> DefaultStyle, modes |-> DefaultModes, title |-> "",
     scroll_top |-> 0, scroll_bottom |-> size.rows - 1,
     replies |-> 0,                                         \* bytes pending
     scrollback |-> <<>>, scrollback_cells |-> 0,
     hyperlink_counter |-> 1, events |-> NoEvents]

-----------------------------------------------------------------------------
(* Parts of a terminal. *)

autowrap(t) == "autowrap" \in t.modes.on
origin(t) == "origin" \in t.modes.on
last_row(t) == t.size.rows - 1
last_col(t) == t.size.cols - 1
full_screen(t) == t.scroll_top = 0 /\ t.scroll_bottom = last_row(t)

active(t) == IF t.on_alternate THEN t.alternate ELSE t.primary

(* Mutant: everything is written to the primary screen. *)
with_active_Primary(t, screen) == [t EXCEPT !.primary = screen]

with_active(t, screen) ==
    IF t.on_alternate THEN [t EXCEPT !.alternate = screen] ELSE [t EXCEPT !.primary = screen]
cursor_line(t) == active(t).cells[t.cursor.row + 1]
with_cursor_line(t, row) == with_active(t, with_row(active(t), t.cursor.row, row))

(* Mutant: a move keeps the pending wrap. *)
at_KeepsWrap(t, row, col) == [t EXCEPT !.cursor = [row |-> row, col |-> col]]

at(t, row, col) == [t EXCEPT !.cursor = [row |-> row, col |-> col], !.wrap_pending = FALSE]
report(t, flag) == [t EXCEPT !.events = mark(@, flag)]
offer(t, payload) == [t EXCEPT !.events = push(@, payload)]

CellCount(lines) ==
    LET total[n \in 0 .. Len(lines)] == IF n = 0 THEN 0 ELSE total[n - 1] + Len(lines[n])
    IN total[Len(lines)]

(* The rows that draw anything. *)
contents(rows) ==
    LET kept[n \in 0 .. Len(rows)] ==
            IF n = 0 THEN <<>>
            ELSE IF HasContent(rows[n]) THEN Append(kept[n - 1], rows[n])
            ELSE kept[n - 1]
    IN kept[Len(rows)]

(* Rows with content join the history; blank ones do not. *)
push_displaced_to_scrollback(t, rows) ==
    LET lines == contents(rows)
        u == [t EXCEPT !.scrollback = @ \o lines, !.scrollback_cells = @ + CellCount(lines)]
    IN IF lines = <<>> THEN t ELSE report(u, "scrollback_line_added")

scroll_up_screen(t, count) ==
    LET s == active(t)
        u == with_active(t, scroll_up(s, count, t.scroll_top, t.scroll_bottom, t.pen))
    IN IF full_screen(t) /\ ~t.on_alternate
       THEN push_displaced_to_scrollback(u, scrolled_off(s, count, t.scroll_top, t.scroll_bottom))
       ELSE u

(* The cursor steps off the trailing half of a wide glyph. *)
repair_cursor_cell(t) ==
    IF t.cursor.col > 0 /\ cursor_line(t)[t.cursor.col + 1].width = 0
    THEN [t EXCEPT !.cursor.col = @ - 1] ELSE t

-----------------------------------------------------------------------------
(* C0 and ESC *)

carriage_return(t) == at(t, t.cursor.row, 0)

line_feed(t) ==
    LET u == [t EXCEPT !.wrap_pending = FALSE]
    IN IF t.cursor.row = t.scroll_bottom THEN scroll_up_screen(u, 1)
       ELSE IF t.cursor.row + 1 < t.size.rows THEN [u EXCEPT !.cursor.row = @ + 1]
       ELSE u

next_line(t) == line_feed(carriage_return(t))
backspace(t) == at(t, t.cursor.row, Monus(t.cursor.col, 1))
horizontal_tab(t) ==
    at(t, t.cursor.row, Least(((t.cursor.col \div 8) * 8 + 8) % U16, last_col(t)))

reverse_index(t) ==
    LET u == [t EXCEPT !.wrap_pending = FALSE]
    IN IF t.cursor.row = t.scroll_top
       THEN with_active(u, scroll_down(active(t), 1, t.scroll_top, t.scroll_bottom, t.pen))
       ELSE IF t.cursor.row > 0 THEN [u EXCEPT !.cursor.row = @ - 1]
       ELSE u

save_cursor(t) ==
    [t EXCEPT !.saved = [cursor |-> t.cursor, pen |-> t.pen,
                         wrap_pending |-> t.wrap_pending, origin |-> origin(t)]]

origin_bounds(t) ==
    IF origin(t) THEN [min |-> t.scroll_top, max |-> t.scroll_bottom]
    ELSE [min |-> 0, max |-> last_row(t)]
clamp(row, bounds) == Least(Greatest(row, bounds.min), bounds.max)

clamp_cursor(t) ==
    repair_cursor_cell([t EXCEPT !.cursor = [row |-> clamp(@.row, origin_bounds(t)),
                                             col |-> Least(@.col, last_col(t))]])

(* Mutant: the restored cursor is taken as it was saved. *)
restore_cursor_Unclamped(t) ==
    [t EXCEPT !.cursor = t.saved.cursor, !.pen = t.saved.pen,
              !.wrap_pending = t.saved.wrap_pending,
              !.modes.on = IF t.saved.origin THEN @ \cup {"origin"} ELSE @ \ {"origin"}]

restore_cursor(t) ==
    clamp_cursor(
        [t EXCEPT !.cursor = t.saved.cursor, !.pen = t.saved.pen,
                  !.wrap_pending = t.saved.wrap_pending,
                  !.modes.on = IF t.saved.origin THEN @ \cup {"origin"} ELSE @ \ {"origin"}])

ring_bell(t) == offer(t, RequestReceived)

(* Mutant: a reset keeps what DECSC saved. *)
reset_child_state_KeepsSaved(t) ==
    report([new(t.size) EXCEPT !.primary = mark_dirty(@), !.replies = t.replies, !.saved = t.saved,
                               !.hyperlink_counter = t.hyperlink_counter,
                               !.events = clear_requests(t.events)],
           "terminal_reset")

(* Mutant: a reset reports nothing. *)
reset_child_state_Silent(t) ==
    [new(t.size) EXCEPT !.replies = t.replies,
                        !.hyperlink_counter = t.hyperlink_counter,
                        !.events = clear_requests(t.events)]

(* RIS.  The hyperlink counter, the replies and the flags survive it. *)
reset_child_state(t) ==
    report([new(t.size) EXCEPT !.primary = mark_dirty(@), !.replies = t.replies,
                               !.hyperlink_counter = t.hyperlink_counter,
                               !.events = clear_requests(t.events)],
           "terminal_reset")

-----------------------------------------------------------------------------
(* print *)

Width(ch) == IF ch \in Wide THEN 2 ELSE 1
fits(t, width) == t.cursor.col + width <= t.size.cols

(* A wrap left pending by the last column happens now. *)
after_pending_wrap(t) ==
    LET u == [t EXCEPT !.wrap_pending = FALSE]
    IN IF t.wrap_pending /\ autowrap(t) THEN next_line(u) ELSE u

(* Room is made for the glyph on the next line, or in the last column. *)
make_room(t, width) ==
    IF fits(t, width) THEN t
    ELSE IF autowrap(t) THEN next_line(t)
    ELSE [t EXCEPT !.cursor.col = last_col(t)]

put(t, ch) ==
    LET width == Width(ch)
        line == IF "insert" \in t.modes.on
                THEN insert_columns(cursor_line(t), t.cursor.col, width, t.pen)
                ELSE cursor_line(t)
        u == with_cursor_line(t, put_glyph(line, t.cursor.col, ch, width, t.pen))
        next_col == t.cursor.col + width
    IN IF next_col >= t.size.cols
       THEN [u EXCEPT !.cursor.col = last_col(t), !.wrap_pending = autowrap(t)]
       ELSE [u EXCEPT !.cursor.col = next_col, !.wrap_pending = FALSE]

print_char(t, ch) ==
    LET u == make_room(after_pending_wrap(t), Width(ch))
    IN IF fits(u, Width(ch)) THEN put(u, ch) ELSE u

-----------------------------------------------------------------------------
(* CSI: cursor movement *)

param_or(n, default) == IF n = 0 THEN default ELSE n

cursor_up(t, n) ==
    at(t, Greatest(Monus(t.cursor.row, n), IF origin(t) THEN t.scroll_top ELSE 0), t.cursor.col)
cursor_down(t, n) ==
    at(t, Least(t.cursor.row + n, IF origin(t) THEN t.scroll_bottom ELSE last_row(t)),
       t.cursor.col)
cursor_forward(t, n) == at(t, t.cursor.row, Least(t.cursor.col + n, last_col(t)))
cursor_backward(t, n) == at(t, t.cursor.row, Monus(t.cursor.col, n))
set_col(t, col) == at(t, t.cursor.row, Least(Monus(col, 1), last_col(t)))

(* A row of CUP or VPA, relative to the region in origin mode.  The sum is a  *)
(* u16: it wraps before it is clamped.                                        *)
target_row(t, row) ==
    clamp((Monus(row, 1) + (IF origin(t) THEN t.scroll_top ELSE 0)) % U16, origin_bounds(t))
set_row(t, row) == at(t, target_row(t, row), t.cursor.col)
set_position(t, row, col) == at(t, target_row(t, row), Least(Monus(col, 1), last_col(t)))

(* Columns 0 after a move by lines: CNL and CPL. *)
to_first_col(t) == [t EXCEPT !.cursor.col = 0]

-----------------------------------------------------------------------------
(* CSI: editing *)

erase_saved_lines(t) == [t EXCEPT !.scrollback = <<>>, !.scrollback_cells = 0]

erase_display(t, mode) ==
    LET s == active(t)
        row == t.cursor.row
        col == t.cursor.col
    IN CASE mode = 0 -> with_active(t, erase_rows(
                            erase_row_cells(s, row, col, t.size.cols, t.pen),
                            row + 1, t.size.rows, t.pen))
         [] mode = 1 -> with_active(t, erase_row_cells(
                            erase_rows(s, 0, row, t.pen), row, 0, col + 1, t.pen))
         [] mode = 2 -> with_active(t, erase_rows(s, 0, t.size.rows, t.pen))
         [] mode = 3 -> erase_saved_lines(t)
         [] OTHER -> t

erase_line(t, mode) ==
    LET from == IF mode = 0 THEN t.cursor.col ELSE 0
        to == IF mode = 1 THEN t.cursor.col + 1 ELSE t.size.cols
    IN IF mode \in {0, 1, 2}
       THEN with_active(t, erase_row_cells(active(t), t.cursor.row, from, to, t.pen))
       ELSE t

erase_chars(t, count) ==
    with_active(t, erase_row_cells(active(t), t.cursor.row, t.cursor.col,
                                   t.cursor.col + count, t.pen))
insert_chars(t, count) ==
    with_cursor_line(t, insert_columns(cursor_line(t), t.cursor.col, count, t.pen))
delete_chars(t, count) ==
    with_cursor_line(t, delete_columns(cursor_line(t), t.cursor.col, count, t.pen))
insert_rows(t, count) ==
    with_active(t, insert_lines(active(t), t.cursor.row, count,
                                t.scroll_top, t.scroll_bottom, t.pen))
delete_rows(t, count) ==
    with_active(t, delete_lines(active(t), t.cursor.row, count,
                                t.scroll_top, t.scroll_bottom, t.pen))
scroll_down_screen(t, count) ==
    with_active(t, scroll_down(active(t), count, t.scroll_top, t.scroll_bottom, t.pen))

(* DECSTBM.  A region that is empty, upside down or too low is ignored, but   *)
(* the cursor goes home all the same.                                         *)
set_scroll_region(t, top, bottom) ==
    LET u == IF Monus(top, 1) < t.size.rows /\ Monus(bottom, 1) < t.size.rows
                /\ Monus(top, 1) < Monus(bottom, 1)
             THEN [t EXCEPT !.scroll_top = Monus(top, 1), !.scroll_bottom = Monus(bottom, 1)]
             ELSE t
    IN at(u, IF origin(t) THEN u.scroll_top ELSE 0, 0)

-----------------------------------------------------------------------------
(* CSI: modes, pen, queries; OSC *)

with_mode(t, mode, enable) ==
    [t EXCEPT !.modes.on = IF enable THEN @ \cup {mode} ELSE @ \ {mode}]
set_mode(t, mode, enable) ==
    IF mode = "origin" THEN set_position(with_mode(t, mode, enable), 1, 1)
    ELSE with_mode(t, mode, enable)
set_mouse(t, mouse, enable) == [t EXCEPT !.modes.mouse = IF enable THEN mouse ELSE "Off"]

(* Mutant: entering twice saves the cursor of the alternate screen. *)
enter_alternate_SavesTwice(t) == [save_cursor(t) EXCEPT !.on_alternate = TRUE]

enter_alternate(t) ==
    IF t.on_alternate THEN t ELSE [save_cursor(t) EXCEPT !.on_alternate = TRUE]
clear_alternate(t) ==
    at([t EXCEPT !.alternate = clear_all(@, DefaultStyle),
                 !.scroll_top = 0, !.scroll_bottom = last_row(t)], 0, 0)
set_alternate(t, enable, clear_on_enter) ==
    IF enable THEN IF clear_on_enter THEN clear_alternate(enter_alternate(t))
                   ELSE enter_alternate(t)
    ELSE IF t.on_alternate THEN restore_cursor([t EXCEPT !.on_alternate = FALSE])
    ELSE t

Digits(n) == IF n < 10 THEN 1 ELSE IF n < 100 THEN 2 ELSE IF n < 1000 THEN 3
             ELSE IF n < 10000 THEN 4 ELSE 5
(* Bytes of a cursor position report. *)
cpr_len(t) == 4 + Digits(t.cursor.row + 1) + Digits(t.cursor.col + 1)
reply(t, len) == [t EXCEPT !.replies = @ + len]
device_status(t, query) ==
    IF query = 5 THEN reply(t, 4) ELSE IF query = 6 THEN reply(t, cpr_len(t)) ELSE t
primary_da(t) == reply(t, 5)

(* SGR 0 also ends the hyperlink of the pen; every other attribute is `look`. *)
sgr_reset(t) == [t EXCEPT !.pen = DefaultStyle]
sgr_look(t, look) == [t EXCEPT !.pen.look = look]

osc_title(t, title) == report([t EXCEPT !.title = title], "title_updated")
osc_request(t) == offer(t, RequestReceived)

osc_hyperlink_open(t) ==
    LET id == t.hyperlink_counter
    IN offer([t EXCEPT !.hyperlink_counter = IF id = IdMax THEN 1 ELSE id + 1,
                       !.pen.link = id],
             HyperlinkAdded(id))
osc_hyperlink_close(t) == [t EXCEPT !.pen.link = NoLink]

-----------------------------------------------------------------------------
(* What the caller does to a terminal. *)

(* Mutant: the cursor moves with the primary screen, shown or not. *)
active_shift_Primary(t, rows) == row_shift(t.primary, rows)

active_shift(t, rows) == row_shift(active(t), rows)

(* Both screens are laid out again; the cursor moves with the active one. *)
resize_terminal(t, size) ==
    LET u == IF t.on_alternate THEN t
             ELSE push_displaced_to_scrollback(t, dropped_rows(t.primary, size.rows))
        row == Monus(t.cursor.row, active_shift(t, size.rows))
        v == at(u, Least(row, size.rows - 1), Least(t.cursor.col, size.cols - 1))
    IN report(repair_cursor_cell(
                  [v EXCEPT !.size = size, !.scroll_top = 0, !.scroll_bottom = size.rows - 1,
                            !.primary = take_dirty(resize(@, size.rows, size.cols)),
                            !.alternate = resize(@, size.rows, size.cols)]),
              "screen_updated")

(* How many of the oldest lines have to go for both limits to hold. *)
excess(t, max_lines, max_cells) ==
    LET size == Len(t.scrollback)
        enough(n) == \/ n = size
                     \/ /\ size - n <= max_lines
                        /\ Monus(t.scrollback_cells, CellCount(SubSeq(t.scrollback, 1, n)))
                               <= max_cells
    IN IF 0 \in {max_lines, max_cells} THEN size
       ELSE CHOOSE n \in 0 .. size : enough(n) /\ \A m \in 0 .. n - 1 : ~enough(m)

(* Mutant: the cells of the dropped lines stay counted. *)
drop_lines_KeepsCount(t, n) == [t EXCEPT !.scrollback = SubSeq(@, n + 1, Len(@))]

drop_lines(t, n) ==
    [t EXCEPT !.scrollback = SubSeq(@, n + 1, Len(@)),
              !.scrollback_cells = Monus(@, CellCount(SubSeq(t.scrollback, 1, n)))]

trim_scrollback(t, max_lines, max_cells) ==
    IF 0 \in {max_lines, max_cells} THEN erase_saved_lines(t)
    ELSE drop_lines(t, excess(t, max_lines, max_cells))

-----------------------------------------------------------------------------
(* What a caller draws, and what the events told it so far. *)
visible(t) ==
    [cells |-> active(t).cells, cursor |-> t.cursor,
     cursor_visible |-> "cursor_visible" \in t.modes.on]

CallerInit(t) ==
    [drawn |-> visible(t), seen |-> t.scrollback, title |-> t.title, known |-> {}]

visible_scalars(t) ==
    [size |-> t.size, on_alternate |-> t.on_alternate, cursor |-> t.cursor,
     wrap_pending |-> t.wrap_pending, pen |-> t.pen, modes |-> t.modes]

WhereLeft(t) == [size |-> t.size, cursor |-> t.cursor, pen |-> t.pen]

Init ==
    \E size \in Sizes :
        /\ repertoire \in Repertoires
        /\ term = new(size)
        /\ before = {}
        /\ fed = 0
        /\ caller = CallerInit(new(size))
        /\ left = WhereLeft(new(size))

-----------------------------------------------------------------------------
(* feed(): a sequence is interpreted. *)

Room ==
    /\ fed < MaxFeed
    /\ Len(term.scrollback) <= MaxHistory
    /\ Len(term.events.payload) < MaxPayload
    /\ term.replies < MaxReplies

Handle(sequence, t) ==
    /\ sequence \in repertoire
    /\ Room
    /\ term' = t
    /\ before' = IF fed = 0 THEN {visible_scalars(term)} ELSE before
    /\ fed' = fed + 1
    /\ left' = IF t.on_alternate THEN left ELSE WhereLeft(t)
    /\ UNCHANGED <<caller, repertoire>>

PrintChar == \E ch \in Narrow \cup Wide : Handle("print", print_char(term, ch))
Backspace == Handle("BS", backspace(term))
HorizontalTab == Handle("HT", horizontal_tab(term))
LineFeed == Handle("LF", line_feed(term))
CarriageReturn == Handle("CR", carriage_return(term))
RingBell == Handle("BEL", ring_bell(term))

SaveCursor == Handle("DECSC", save_cursor(term))
RestoreCursor == Handle("DECRC", restore_cursor(term))
NextLine == Handle("NEL", next_line(term))
ReverseIndex == Handle("RI", reverse_index(term))
ResetChildState == Handle("RIS", reset_child_state(term))

CursorUp == \E n \in Params : Handle("CUU", cursor_up(term, param_or(n, 1)))
CursorDown == \E n \in Params : Handle("CUD", cursor_down(term, param_or(n, 1)))
CursorForward == \E n \in Params : Handle("CUF", cursor_forward(term, param_or(n, 1)))
CursorBackward == \E n \in Params : Handle("CUB", cursor_backward(term, param_or(n, 1)))
CursorNextLine ==
    \E n \in Params : Handle("CNL", to_first_col(cursor_down(term, param_or(n, 1))))
CursorPreviousLine ==
    \E n \in Params : Handle("CPL", to_first_col(cursor_up(term, param_or(n, 1))))
SetCol == \E n \in Params : Handle("CHA", set_col(term, param_or(n, 1)))
SetRow == \E n \in Params : Handle("VPA", set_row(term, param_or(n, 1)))
SetPosition ==
    \E row, col \in Params :
        Handle("CUP", set_position(term, param_or(row, 1), param_or(col, 1)))

EraseDisplay == \E mode \in Params : Handle("ED", erase_display(term, mode))
EraseLine == \E mode \in Params : Handle("EL", erase_line(term, mode))
EraseChars == \E n \in Params : Handle("ECH", erase_chars(term, param_or(n, 1)))
InsertChars == \E n \in Params : Handle("ICH", insert_chars(term, param_or(n, 1)))
DeleteChars == \E n \in Params : Handle("DCH", delete_chars(term, param_or(n, 1)))
InsertLines == \E n \in Params : Handle("IL", insert_rows(term, param_or(n, 1)))
DeleteLines == \E n \in Params : Handle("DL", delete_rows(term, param_or(n, 1)))
ScrollUp == \E n \in Params : Handle("SU", scroll_up_screen(term, param_or(n, 1)))
ScrollDown == \E n \in Params : Handle("SD", scroll_down_screen(term, param_or(n, 1)))
SetScrollRegion ==
    \E top, bottom \in Params :
        Handle("DECSTBM",
               set_scroll_region(term, param_or(top, 1), param_or(bottom, term.size.rows)))

SetMode ==
    \E mode \in BoolMode, enable \in BOOLEAN : Handle(mode, set_mode(term, mode, enable))
SetMouse ==
    \E mouse \in MouseReporting \ {"Off"}, enable \in BOOLEAN :
        Handle("mouse", set_mouse(term, mouse, enable))
SetAlternate ==
    \/ \E enable \in BOOLEAN : Handle("1047", set_alternate(term, enable, FALSE))
    \/ \E enable \in BOOLEAN : Handle("1049", set_alternate(term, enable, TRUE))

DeviceStatus == \E query \in Params : Handle("DSR", device_status(term, query))
PrimaryDa == Handle("DA", primary_da(term))
SgrReset == Handle("SGR", sgr_reset(term))
SgrLook == \E look \in {"plain", "bold"} : Handle("SGR", sgr_look(term, look))
OscTitle == \E title \in {"", "shell"} : Handle("title", osc_title(term, title))
OscRequest == Handle("OSC", osc_request(term))
OscHyperlink ==
    \/ Handle("OSC8", osc_hyperlink_open(term))
    \/ Handle("OSC8", osc_hyperlink_close(term))

(* Mutant: only the scalars count as a visible change. *)
feed_end_PollsScalars(t, snapshot) ==
    LET u == [t EXCEPT !.primary = take_dirty(@)]
    IN IF visible_scalars(t) \notin snapshot THEN report(u, "screen_updated") ELSE u

(* What feed() does after the last byte. *)
feed_end(t, snapshot) ==
    LET u == [t EXCEPT !.primary = take_dirty(@)]
    IN IF t.primary.dirty \/ visible_scalars(t) \notin snapshot
       THEN report(u, "screen_updated") ELSE u

EndFeed ==
    /\ fed > 0
    /\ term' = feed_end(term, before)
    /\ before' = {}
    /\ fed' = 0
    /\ UNCHANGED <<caller, left, repertoire>>

-----------------------------------------------------------------------------
(* The caller, between two feeds. *)

DequeueEvent ==
    /\ fed = 0 /\ Pending(term.events)
    /\ LET event == next_event(term.events)
           told(kind) == kind \in Watched /\ event.kind \in {kind, "terminal_reset"}
       IN caller' =
            [drawn |-> IF told("screen_updated") THEN visible(term) ELSE caller.drawn,
             seen |-> IF told("scrollback_line_added") THEN term.scrollback ELSE caller.seen,
             title |-> IF told("title_updated") THEN term.title ELSE caller.title,
             known |-> IF told("HyperlinkAdded") /\ event.id # NoLink
                       THEN caller.known \cup {event.id} ELSE caller.known]
    /\ term' = [term EXCEPT !.events = after_next(@)]
    /\ UNCHANGED <<before, fed, left, repertoire>>

Resize ==
    /\ fed = 0
    /\ Len(term.scrollback) <= MaxHistory
    /\ \E size \in Sizes :
          /\ size # term.size
          /\ term' = resize_terminal(term, size)
    /\ left' = IF term.on_alternate THEN left ELSE WhereLeft(term')
    /\ UNCHANGED <<before, fed, caller, repertoire>>

(* A caller that keeps a place in the history moves it by what it trimmed. *)
TrimScrollback ==
    /\ fed = 0 /\ term.scrollback # <<>>
    /\ \E limit \in Limits :
          /\ term' = trim_scrollback(term, limit[1], limit[2])
          /\ caller' = [caller EXCEPT !.seen =
                            SubSeq(@, excess(term, limit[1], limit[2]) + 1, Len(@))]
    /\ UNCHANGED <<before, fed, left, repertoire>>

AdvanceReplyBytes ==
    /\ fed = 0
    /\ \E n \in 1 .. term.replies : term' = [term EXCEPT !.replies = @ - n]
    /\ UNCHANGED <<before, fed, caller, left, repertoire>>

Feed ==
    \/ PrintChar \/ Backspace \/ HorizontalTab \/ LineFeed \/ CarriageReturn \/ RingBell
    \/ SaveCursor \/ RestoreCursor \/ NextLine \/ ReverseIndex \/ ResetChildState
    \/ CursorUp \/ CursorDown \/ CursorForward \/ CursorBackward
    \/ CursorNextLine \/ CursorPreviousLine \/ SetCol \/ SetRow \/ SetPosition
    \/ EraseDisplay \/ EraseLine \/ EraseChars \/ InsertChars \/ DeleteChars
    \/ InsertLines \/ DeleteLines \/ ScrollUp \/ ScrollDown \/ SetScrollRegion
    \/ SetMode \/ SetMouse \/ SetAlternate \/ DeviceStatus \/ PrimaryDa
    \/ SgrReset \/ SgrLook \/ OscTitle \/ OscRequest \/ OscHyperlink
    \/ EndFeed

Next == Feed \/ DequeueEvent \/ Resize \/ TrimScrollback \/ AdvanceReplyBytes

Spec == Init /\ [][Next]_vars

-----------------------------------------------------------------------------
(* Both screens have the terminal's size, and every field is of its type.     *)
TypeOK ==
    /\ term.size \in Size
    /\ \A screen \in {term.primary, term.alternate} :
          /\ \A i \in DOMAIN screen.cells : DOMAIN screen.cells[i] = 1 .. term.size.cols
          /\ screen.dirty \in BOOLEAN
    /\ term.on_alternate \in BOOLEAN /\ term.wrap_pending \in BOOLEAN
    /\ term.modes.on \subseteq BoolMode /\ term.modes.mouse \in MouseReporting
    /\ term.hyperlink_counter \in 1 .. IdMax
    /\ term.replies \in Nat
    /\ term.events \in Events
    /\ fed \in 0 .. MaxFeed

(* Both screens have a row for each row of the terminal, and the cursor and   *)
(* the scroll region lie on them, whatever was resized, saved and restored,   *)
(* or asked for; a region shorter than the screen has at least two rows.      *)
(* Cell accesses rest on it ("cursor in range").                              *)
Bounded(t) ==
    /\ DOMAIN t.primary.cells = 1 .. t.size.rows
    /\ DOMAIN t.alternate.cells = 1 .. t.size.rows
    /\ t.cursor \in [row : 0 .. last_row(t), col : 0 .. last_col(t)]
    /\ t.scroll_top \in 0 .. last_row(t) /\ t.scroll_bottom \in 0 .. last_row(t)
    /\ t.scroll_top < t.scroll_bottom \/ full_screen(t)
InBounds == Bounded(term)

(* A caller that repaints on ScreenUpdated and TerminalReset shows what is on *)
(* the visible screen, or has one of the two events still to drain.           *)
RepaintNotMissed ==
    fed = 0 => \/ caller.drawn = visible(term)
               \/ {"screen_updated", "terminal_reset"} \cap term.events.flags # {}

Links(row) == {row[i].style.link : i \in DOMAIN row}
LinksInUse ==
    (UNION ({Links(term.primary.cells[i]) : i \in DOMAIN term.primary.cells}
            \cup {Links(term.alternate.cells[i]) : i \in DOMAIN term.alternate.cells}
            \cup {Links(term.scrollback[i]) : i \in DOMAIN term.scrollback}))
    \cup {term.pen.link, term.saved.pen.link}
LinksAnnounced ==
    caller.known \cup {term.events.payload[i].id : i \in DOMAIN term.events.payload}

(* Every hyperlink id a cell, the history, the pen or the saved pen carries   *)
(* was announced: a reset drops announcements only with all that uses them.   *)
LinksResolve == LinksInUse \ {NoLink} \subseteq LinksAnnounced

(* The retained cell total is the cells of the retained lines, through every  *)
(* scroll, shrink, erasure and trim; and no blank line is retained.           *)
ScrollbackExact ==
    /\ term.scrollback_cells = CellCount(term.scrollback)
    /\ \A i \in DOMAIN term.scrollback : HasContent(term.scrollback[i])

(* History the caller has not read is announced, unless it is gone again.     *)
HistoryReported ==
    fed = 0 => \/ term.scrollback \in {caller.seen, <<>>}
               \/ {"scrollback_line_added", "terminal_reset"} \cap term.events.flags # {}

(* The title a caller last read is the title, or one of the events that make  *)
(* it read the title again is pending.                                        *)
TitleReported ==
    fed = 0 => \/ caller.title = term.title
               \/ {"title_updated", "terminal_reset"} \cap term.events.flags # {}

(* Events suffice to keep the screen and the title of the caller up to date.  *)
CallerUpToDate == RepaintNotMissed /\ TitleReported

(* No half of a wide glyph stands alone, on a screen or in the history.       *)
Whole(row) ==
    \A i \in DOMAIN row :
        /\ row[i].width = 2 => i + 1 \in DOMAIN row /\ row[i + 1].width = 0
        /\ row[i].width = 0 => i - 1 \in DOMAIN row /\ row[i - 1].width = 2
PairsWhole ==
    \A lines \in {term.primary.cells, term.alternate.cells, term.scrollback} :
        \A i \in DOMAIN lines : Whole(lines[i])

(* A wrap is pending only behind the last column, unless DECRC brought it      *)
(* back: a cursor saved with its wrap may be restored elsewhere, after a       *)
(* resize or on the wide glyph that it was behind.                             *)
WrapOnlyAtEdge ==
    term.wrap_pending => term.cursor.col = last_col(term) \/ term.saved.wrap_pending

(* What a row draws, column by column. *)
glyphs(row) == [i \in {j \in DOMAIN row : ~is_blank_glyph(row[j])} |-> row[i]]
TextOf(rows) ==
    FlattenSeq([i \in DOMAIN rows |-> IF HasContent(rows[i]) THEN <<glyphs(rows[i])>> ELSE <<>>])
(* The text of the primary screen and the history before it. *)
Text(t) == TextOf(t.scrollback \o t.primary.cells)

(* A resize that keeps the width keeps the text: what leaves the screen at    *)
(* the top is found at the end of the history, in order, every glyph in its   *)
(* column.  While the alternate screen is shown, rows are not kept.           *)
ResizeKeepsText ==
    [][~term.on_alternate /\ term'.size # term.size /\ term'.size.cols >= term.size.cols
          => Text(term') = Text(term)]_vars

(* After a resize that keeps the width the cursor is on the line it was on,   *)
(* if that line, the only one with its text, is still on the screen.          *)
CursorOnLine ==
    LET line == glyphs(cursor_line(term))
        lines(t) == {i \in 1 .. t.size.rows : glyphs(active(t).cells[i]) = line}
    IN line # <<>> /\ Cardinality(lines(term)) = 1 /\ lines(term') # {}
       => term'.cursor.row + 1 \in lines(term')
CursorKeepsLine ==
    [][term'.size # term.size /\ term'.size.cols >= term.size.cols => CursorOnLine]_vars

(* What is written while the alternate screen is shown leaves the primary     *)
(* screen alone, and the history too, but for oldest lines that are given up. *)
PrimaryUntouched ==
    [][term.on_alternate /\ term'.on_alternate /\ term'.size = term.size
          => /\ term'.primary.cells = term.primary.cells
             /\ \E n \in 0 .. Len(term.scrollback) :
                   term'.scrollback = SubSeq(term.scrollback, n + 1, Len(term.scrollback))]_vars

(* Leaving the alternate screen brings back the pen and the cursor that the   *)
(* primary screen was left with, however often the alternate was entered; a   *)
(* cursor on the trailing half of a glyph steps onto the glyph.  The saved    *)
(* cursor is shared with DECSC, and in origin mode the scroll region bounds   *)
(* it: a child that uses either decides for itself where it returns to.       *)
ReturnRestores ==
    [][term.on_alternate /\ ~term'.on_alternate /\ term.size = left.size
       /\ repertoire \cap {"DECSC", "origin"} = {}
          => \/ /\ term'.cursor = repair_cursor_cell([term' EXCEPT !.cursor = left.cursor]).cursor
                /\ term'.pen = left.pen
             \/ "terminal_reset" \in term'.events.flags]_vars
=============================================================================
