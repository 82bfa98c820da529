-------------------------------- MODULE Screen --------------------------------
(* The cell grid of terminal_buffer.rs: a screen is its rows, from the top,   *)
(* and the dirty flag; a row is its cells, from the left.  Rows and columns   *)
(* are counted from 0 as in the source, so cell `col` of a row is row[col+1]. *)
(* A cell keeps its character, its width and its style; of the style only the *)
(* hyperlink and one other attribute are kept.                                *)
EXTENDS Integers, Sequences, FiniteSets, SequencesExt

NoLink == 0                             \* hyperlink: None; ids are non-zero
DefaultStyle == [link |-> NoLink, look |-> "plain"]

Space == " "
blank(style) == [ch |-> Space, width |-> 1, style |-> style]
EMPTY == blank(DefaultStyle)
is_blank_glyph(cell) == cell.ch = Space

Least(a, b) == IF a <= b THEN a ELSE b
Greatest(a, b) == IF a >= b THEN a ELSE b
Monus(a, b) == IF a >= b THEN a - b ELSE 0          \* saturating_sub

blank_row(cols, style) == [i \in 1..cols |-> blank(style)]
blank_screen(rows, cols) ==
    [cells |-> [i \in 1..rows |-> blank_row(cols, DefaultStyle)], dirty |-> FALSE]

mark_dirty(screen) == [cells |-> screen.cells, dirty |-> TRUE]
take_dirty(screen) == [cells |-> screen.cells, dirty |-> FALSE]

Rows(screen) == Len(screen.cells)
Cols(screen) == Len(screen.cells[1])

HasContent(row) == \E i \in DOMAIN row : ~is_blank_glyph(row[i])

-----------------------------------------------------------------------------
(* Operations on one row. *)

with_cell(row, col, cell) == [i \in DOMAIN row |-> IF i = col + 1 THEN cell ELSE row[i]]

(* Mutant: only the cell itself is cleared, not its other half. *)
clear_cell_HalfOnly(row, col) == with_cell(row, col, EMPTY)

(* A wide glyph goes with either of its halves.  Out of range is a no-op. *)
clear_cell(row, col) ==
    [i \in DOMAIN row |->
        IF \/ i = col + 1
           \/ i = col /\ i + 1 \in DOMAIN row /\ row[i + 1].width = 0
           \/ i = col + 2 /\ row[i - 1].width = 2
        THEN EMPTY ELSE row[i]]

put_glyph(row, col, ch, width, style) ==
    LET cleared == clear_cell(row, col)
        both == IF width = 2 THEN clear_cell(cleared, col + 1) ELSE cleared
        lead == with_cell(both, col, [ch |-> ch, width |-> width, style |-> style])
    IN IF width = 2
       THEN with_cell(lead, col + 1, [ch |-> Space, width |-> 0, style |-> style])
       ELSE lead

(* The cells of [start, end) are cleared one by one, from the left. *)
erase_cells(row, start, end, style) ==
    LET count == Monus(Least(end, Len(row)), start)
        erased[n \in 0 .. count] ==        \* the row after n of the cells
            IF n = 0 THEN row
            ELSE LET col == start + n - 1
                 IN with_cell(clear_cell(erased[n - 1], col), col, blank(style))
    IN erased[count]

(* A wide glyph cannot begin in the last column. *)
fix_row_edge(row) ==
    IF row[Len(row)].width = 2 THEN with_cell(row, Len(row) - 1, EMPTY) ELSE row

insert_columns(row, col, count, style) ==
    LET n == Least(count, Len(row) - col)
    IN fix_row_edge([i \in DOMAIN row |-> IF i <= col THEN row[i]
                                         ELSE IF i <= col + n THEN blank(style)
                                         ELSE row[i - n]])

delete_columns(row, col, count, style) ==
    LET n == Least(count, Len(row) - col)
    IN fix_row_edge([i \in DOMAIN row |-> IF i <= col THEN row[i]
                                         ELSE IF i + n <= Len(row) THEN row[i + n]
                                         ELSE blank(style)])

-----------------------------------------------------------------------------
(* Operations on a screen. *)

(* The row operation `r` at `row` of the screen, and the flag it sets. *)
with_row(screen, row, r) ==
    [cells |-> [i \in DOMAIN screen.cells |-> IF i = row + 1 THEN r ELSE screen.cells[i]],
     dirty |-> TRUE]

erase_row_cells(screen, row, start, end, style) ==
    IF start >= Least(end, Cols(screen)) THEN screen
    ELSE with_row(screen, row, erase_cells(screen.cells[row + 1], start, end, style))

erase_rows(screen, start, end, style) ==
    IF start >= Least(end, Rows(screen)) THEN screen
    ELSE [cells |-> [i \in DOMAIN screen.cells |->
                        IF start < i /\ i <= end
                        THEN erase_cells(screen.cells[i], 0, Cols(screen), style)
                        ELSE screen.cells[i]],
          dirty |-> TRUE]

clear_all(screen, style) ==
    [cells |-> [i \in DOMAIN screen.cells |-> blank_row(Cols(screen), style)],
     dirty |-> TRUE]

(* Rows top..bottom move up, or down, by n; blank rows come in behind them. *)
rotate_up(screen, n, top, bottom, style) ==
    [cells |-> [i \in DOMAIN screen.cells |->
                   IF i <= top \/ i > bottom + 1 THEN screen.cells[i]
                   ELSE IF i + n <= bottom + 1 THEN screen.cells[i + n]
                   ELSE blank_row(Cols(screen), style)],
     dirty |-> TRUE]
rotate_down(screen, n, top, bottom, style) ==
    [cells |-> [i \in DOMAIN screen.cells |->
                   IF i <= top \/ i > bottom + 1 THEN screen.cells[i]
                   ELSE IF i - n > top THEN screen.cells[i - n]
                   ELSE blank_row(Cols(screen), style)],
     dirty |-> TRUE]

insert_lines(screen, row, count, top, bottom, style) ==
    IF count = 0 \/ row < top \/ row > bottom THEN screen
    ELSE rotate_down(screen, Least(count, bottom - row + 1), row, bottom, style)

delete_lines(screen, row, count, top, bottom, style) ==
    IF count = 0 \/ row < top \/ row > bottom THEN screen
    ELSE rotate_up(screen, Least(count, bottom - row + 1), row, bottom, style)

scroll_up(screen, count, top, bottom, style) ==
    IF count = 0 \/ top > bottom THEN screen
    ELSE IF count >= bottom - top + 1 THEN erase_rows(screen, top, bottom + 1, style)
    ELSE rotate_up(screen, count, top, bottom, style)

(* The rows scroll_up pushes out of the region, from the top. *)
scrolled_off(screen, count, top, bottom) ==
    SubSeq(screen.cells, top + 1, top + Least(count, bottom - top + 1))

scroll_down(screen, count, top, bottom, style) ==
    IF count = 0 \/ top > bottom THEN screen
    ELSE IF count >= bottom - top + 1 THEN erase_rows(screen, top, bottom + 1, style)
    ELSE rotate_down(screen, count, top, bottom, style)

-----------------------------------------------------------------------------
(* Screen::resize. *)

(* How many rows there are up to the last one that draws anything. *)
content_rows(screen) ==
    Cardinality({i \in DOMAIN screen.cells :
                    \E j \in DOMAIN screen.cells : i <= j /\ HasContent(screen.cells[j])})

(* Mutant: a shrink drops rows from the bottom. *)
row_shift_None(screen, rows) == 0

(* How far every surviving row moves up: a shrink keeps the last rows with    *)
(* content, a grow keeps all of them.                                         *)
row_shift(screen, rows) ==
    IF rows >= Rows(screen) THEN 0 ELSE Monus(content_rows(screen), rows)

(* The rows a shrink pushes off the top. *)
dropped_rows(screen, rows) == SubSeq(screen.cells, 1, row_shift(screen, rows))

(* Mutant: the rows are cut to the new width but not filled up to it. *)
resize_NoPadding(screen, rows, cols) ==
    LET shift == row_shift(screen, rows)
        kept == Least(Rows(screen) - shift, rows)
        width == Least(Cols(screen), cols)
    IN [cells |-> [i \in 1..rows |-> [j \in 1..width |->
                       IF i <= kept THEN screen.cells[i + shift][j] ELSE EMPTY]],
        dirty |-> TRUE]

resize(screen, rows, cols) ==
    LET shift == row_shift(screen, rows)
        kept == IF rows >= Rows(screen) THEN Rows(screen)
                ELSE Least(content_rows(screen), rows)
        width == Least(Cols(screen), cols)
        cell(i, j) == screen.cells[i + shift][j]
    IN [cells |-> [i \in 1..rows |-> [j \in 1..cols |->
                       IF i > kept \/ j > width THEN EMPTY
                       ELSE IF j = width /\ cell(i, j).width = 2 THEN EMPTY
                       ELSE cell(i, j)]],
        dirty |-> TRUE]
=============================================================================
