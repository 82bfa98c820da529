------------------------ MODULE TerminalContentProofs ------------------------
(* What the rows, the history, the pen and the channel of the terminal hold,  *)
(* after every step: cells, glyphs, hyperlinks, and the count of all cells.   *)
EXTENDS TerminalProofs, Recursion

-----------------------------------------------------------------------------
(* A row, and what is done to it, keeps its width, its cells and its glyphs.  *)

Chars == Narrow \cup Wide \cup {Space}
StyleOf(L) == [link : L, look : {"plain", "bold"}]
CellOf(L) == [ch : Chars, width : {0, 1, 2}, style : StyleOf(L)]

(* A line of n cells whose links are in L, with no wide glyph in the last      *)
(* column; if w holds, its glyphs are whole.                                  *)
EdgeNarrow(r, n) == n >= 1 => r[n].width # 2
Line(n, L, w) == {r \in [1 .. n -> CellOf(L)] : (w => Whole(r)) /\ EdgeNarrow(r, n)}

LEMMA BlankCell ==
    ASSUME NEW L, NoLink \in L
    PROVE  /\ DefaultStyle \in StyleOf(L)
           /\ EMPTY \in CellOf(L) /\ EMPTY.width = 1
           /\ \A style \in StyleOf(L) : blank(style) \in CellOf(L) /\ blank(style).width = 1
BY DEF blank, EMPTY, CellOf, StyleOf, DefaultStyle, Chars

LEMMA BlankRow ==
    ASSUME NEW L, NoLink \in L, NEW style \in StyleOf(L), NEW n \in Nat, NEW w
    PROVE  blank_row(n, style) \in Line(n, L, w)
<1> DEFINE r == blank_row(n, style)
<1>1. r \in [1 .. n -> CellOf(L)] /\ \A i \in 1 .. n : r[i].width = 1
  BY BlankCell DEF blank_row
<1>2. Whole(r)
  BY <1>1 DEF Whole
<1>3. EdgeNarrow(r, n)
  BY <1>1 DEF EdgeNarrow
<1> QED
  BY <1>1, <1>2, <1>3 DEF Line

LEMMA ClearLine ==
    ASSUME NEW L, NoLink \in L, NEW n \in Nat, NEW w, NEW r \in Line(n, L, w), NEW col \in Nat
    PROVE  /\ clear_cell(r, col) \in Line(n, L, w)
           /\ col + 1 \in 1 .. n => clear_cell(r, col)[col + 1].width = 1
           /\ \A i \in 1 .. n : r[i].width = 1 => clear_cell(r, col)[i].width = 1
<1> DEFINE Cleared(i) == \/ i = col + 1
                         \/ i = col /\ i + 1 \in 1 .. n /\ r[i + 1].width = 0
                         \/ i = col + 2 /\ r[i - 1].width = 2
           s == [i \in 1 .. n |-> IF Cleared(i) THEN EMPTY ELSE r[i]]
<1>1. r \in [1 .. n -> CellOf(L)] /\ (w => Whole(r)) /\ EdgeNarrow(r, n)
  BY DEF Line
<1>2. clear_cell(r, col) = s
  BY <1>1 DEF clear_cell
<1>3. EMPTY \in CellOf(L) /\ EMPTY.width = 1
  BY BlankCell
<1>4. s \in [1 .. n -> CellOf(L)]
  BY <1>1, <1>3
<1>5. ASSUME Whole(r) PROVE Whole(s)
  <2> SUFFICES ASSUME NEW i \in 1 .. n
               PROVE  /\ s[i].width = 2 => i + 1 \in 1 .. n /\ s[i + 1].width = 0
                      /\ s[i].width = 0 => i - 1 \in 1 .. n /\ s[i - 1].width = 2
    BY DEF Whole
  <2>1. \A j \in 1 .. n : /\ r[j].width = 2 => j + 1 \in 1 .. n /\ r[j + 1].width = 0
                          /\ r[j].width = 0 => j - 1 \in 1 .. n /\ r[j - 1].width = 2
    BY <1>1, <1>5 DEF Whole
  <2>2. ASSUME s[i].width = 2 PROVE i + 1 \in 1 .. n /\ s[i + 1].width = 0
    <3>1. ~Cleared(i) /\ r[i].width = 2
      BY <1>3, <2>2
    <3>2. i + 1 \in 1 .. n /\ r[i + 1].width = 0
      BY <2>1, <3>1
    <3>3. ~Cleared(i + 1)
      BY <2>1, <3>1, <3>2
    <3> QED
      BY <3>2, <3>3
  <2>3. ASSUME s[i].width = 0 PROVE i - 1 \in 1 .. n /\ s[i - 1].width = 2
    <3>1. ~Cleared(i) /\ r[i].width = 0
      BY <1>3, <2>3
    <3>2. i - 1 \in 1 .. n /\ r[i - 1].width = 2
      BY <2>1, <3>1
    <3>3. ~Cleared(i - 1)
      BY <2>1, <3>1, <3>2
    <3> QED
      BY <3>2, <3>3
  <2> QED
    BY <2>2, <2>3
<1>6. EdgeNarrow(s, n)
  BY <1>1, <1>3 DEF EdgeNarrow
<1>7. s \in Line(n, L, w)
  <2> HIDE DEF s
  <2> QED
    BY <1>1, <1>4, <1>5, <1>6 DEF Line
<1> QED
  BY <1>1, <1>2, <1>3, <1>7

LEMMA OverwriteLine ==
    ASSUME NEW L, NEW n \in Nat, NEW w, NEW r \in Line(n, L, w), NEW col \in Nat,
           w => r[col + 1].width = 1, NEW c \in CellOf(L), c.width = 1
    PROVE  with_cell(r, col, c) \in Line(n, L, w)
<1> DEFINE s == with_cell(r, col, c)
<1>1. r \in [1 .. n -> CellOf(L)] /\ (w => Whole(r)) /\ EdgeNarrow(r, n)
  BY DEF Line
<1>2. s = [i \in 1 .. n |-> IF i = col + 1 THEN c ELSE r[i]]
  BY <1>1 DEF with_cell
<1> HIDE DEF s
<1>3. s \in [1 .. n -> CellOf(L)]
  BY <1>1, <1>2
<1>4. w => Whole(s)
  BY <1>1, <1>2 DEF Whole
<1>5. EdgeNarrow(s, n)
  BY <1>1, <1>2 DEF EdgeNarrow
<1> QED
  BY <1>3, <1>4, <1>5 DEF Line, s

LEMMA PutLine ==
    ASSUME NEW L, NoLink \in L, NEW style \in StyleOf(L), NEW n \in Nat, NEW w,
           NEW r \in Line(n, L, w), NEW width \in {1, 2}, NEW col \in Nat, col + width <= n,
           NEW ch \in Chars
    PROVE  put_glyph(r, col, ch, width, style) \in Line(n, L, w)
<1> DEFINE a == clear_cell(r, col)
           b == IF width = 2 THEN clear_cell(a, col + 1) ELSE a
           glyph == [ch |-> ch, width |-> width, style |-> style]
           trail == [ch |-> Space, width |-> 0, style |-> style]
           lead == with_cell(b, col, glyph)
           s == IF width = 2 THEN with_cell(lead, col + 1, trail) ELSE lead
<1>1. a \in Line(n, L, w) /\ a[col + 1].width = 1
  BY ClearLine
<1> HIDE DEF a
<1>2. /\ b \in Line(n, L, w) /\ b[col + 1].width = 1
      /\ width = 2 => b[col + 2].width = 1
  BY <1>1, ClearLine
<1> HIDE DEF b
<1>3. glyph \in CellOf(L) /\ trail \in CellOf(L)
  BY DEF CellOf, Chars
<1>4. CASE width = 1
  BY <1>2, <1>3, <1>4, OverwriteLine DEF put_glyph, a, b
<1>5. CASE width = 2
  <2>1. b \in [1 .. n -> CellOf(L)] /\ (w => Whole(b)) /\ EdgeNarrow(b, n)
    BY <1>2 DEF Line
  <2>2. s = [i \in 1 .. n |-> IF i = col + 1 THEN glyph ELSE IF i = col + 2 THEN trail ELSE b[i]]
    BY <2>1, <1>5 DEF with_cell
  <2> HIDE DEF s
  <2>3. s \in [1 .. n -> CellOf(L)]
    BY <1>3, <2>1, <2>2
  <2>4. glyph.width = 2 /\ trail.width = 0
    BY <1>5
  <2> HIDE DEF glyph, trail
  <2>5. ASSUME Whole(b) PROVE Whole(s)
    <3>1. \A j \in 1 .. n : /\ b[j].width = 2 => j + 1 \in 1 .. n /\ b[j + 1].width = 0
                            /\ b[j].width = 0 => j - 1 \in 1 .. n /\ b[j - 1].width = 2
      BY <2>1, <2>5 DEF Whole
    <3> SUFFICES ASSUME NEW i \in 1 .. n
                 PROVE  /\ s[i].width = 2 => i + 1 \in 1 .. n /\ s[i + 1].width = 0
                        /\ s[i].width = 0 => i - 1 \in 1 .. n /\ s[i - 1].width = 2
      BY <2>2 DEF Whole
    <3>2. ASSUME s[i].width = 2 PROVE i + 1 \in 1 .. n /\ s[i + 1].width = 0
      <4>1. CASE i = col + 1
        BY <1>5, <2>2, <2>4, <4>1
      <4>2. CASE i # col + 1
        <5>1. b[i].width = 2 /\ i # col + 2
          BY <2>2, <2>4, <3>2, <4>2
        <5>2. i + 1 \in 1 .. n /\ b[i + 1].width = 0
          BY <3>1, <5>1
        <5>3. i + 1 # col + 1 /\ i + 1 # col + 2
          BY <1>2, <1>5, <5>1, <5>2
        <5> QED
          BY <2>2, <5>2, <5>3
      <4> QED
        BY <4>1, <4>2
    <3>3. ASSUME s[i].width = 0 PROVE i - 1 \in 1 .. n /\ s[i - 1].width = 2
      <4>1. CASE i = col + 2
        BY <1>5, <2>2, <2>4, <4>1
      <4>2. CASE i # col + 2
        <5>1. b[i].width = 0 /\ i # col + 1
          BY <2>2, <2>4, <3>3, <4>2
        <5>2. i - 1 \in 1 .. n /\ b[i - 1].width = 2
          BY <3>1, <5>1
        <5>3. i - 1 # col + 1 /\ i - 1 # col + 2
          BY <1>2, <1>5, <5>1, <5>2
        <5> QED
          BY <2>2, <5>2, <5>3
      <4> QED
        BY <4>1, <4>2
    <3> QED
      BY <3>2, <3>3
  <2>6. EdgeNarrow(s, n)
    <3> SUFFICES ASSUME n >= 1 PROVE s[n].width # 2
      BY DEF EdgeNarrow
    <3>1. n # col + 1 /\ s[n] = IF n = col + 2 THEN trail ELSE b[n]
      BY <1>5, <2>2
    <3> QED
      BY <2>1, <2>4, <3>1 DEF EdgeNarrow
  <2>7. s \in Line(n, L, w)
    BY <2>1, <2>3, <2>5, <2>6 DEF Line
  <2> QED
    BY <2>7, <1>5 DEF put_glyph, a, b, s, glyph, trail
<1> QED
  BY <1>4, <1>5

(* The loop of erase_cells, and what its rounds keep. *)
LEMMA EraseLineCells ==
    ASSUME NEW L, NoLink \in L, NEW style \in StyleOf(L), NEW n \in Nat, NEW w,
           NEW r \in Line(n, L, w), NEW start \in Nat, NEW end \in Int
    PROVE  erase_cells(r, start, end, style) \in Line(n, L, w)
<1> DEFINE State == Line(n, L, w)
           count == Monus(Least(end, Len(r)), start)
           Round(k, s) == LET col == start + k - 1
                          IN with_cell(clear_cell(s, col), col, blank(style))
           Def(f) == f = [k \in 0 .. count |-> IF k = 0 THEN r ELSE Round(k, f[k - 1])]
<1>1. Len(r) = n
  BY DEF Line
<1>2. count \in Nat /\ \A k \in 1 .. count : start + k <= n
  BY <1>1 DEF Monus, Least
<1> HIDE DEF count
<1>3. ASSUME NEW k \in 1 .. count, NEW s \in State PROVE Round(k, s) \in State
  <2> DEFINE col == start + k - 1
  <2>1. col \in Nat /\ col + 1 \in 1 .. n
    BY <1>2
  <2>2. clear_cell(s, col) \in State /\ clear_cell(s, col)[col + 1].width = 1
    BY <2>1, ClearLine
  <2> HIDE DEF col
  <2>3. with_cell(clear_cell(s, col), col, blank(style)) \in State
    BY <2>1, <2>2, BlankCell, OverwriteLine
  <2> QED
    BY <2>3 DEF col
<1> DEFINE next == [k \in 1 .. count |-> [s \in State |-> Round(k, s)]]
<1>4. next \in [1 .. count -> [State -> State]]
  BY <1>3
<1> HIDE DEF State, Round
<1>5. \E f : Def(f)
  <2>1. PICK f \in [0 .. count -> State] :
            f[0] = r /\ \A k \in 1 .. count : f[k] = next[k][f[k - 1]]
    <3>1. r \in State /\ count \in Nat
      BY <1>2 DEF State
    <3> HIDE DEF next
    <3>2. PICK f : f \in Runs(State, r, count, next)
      BY <1>4, <3>1, RecursionExists
    <3> QED
      BY <3>2 DEF Runs
  <2>2. \A k \in 1 .. count : next[k][f[k - 1]] = Round(k, f[k - 1])
    BY <1>2
  <2> HIDE DEF next
  <2>3. \A k \in 0 .. count : f[k] = IF k = 0 THEN r ELSE Round(k, f[k - 1])
    BY <1>2, <2>1, <2>2
  <2>4. Def(f)
    BY <2>1, <2>3
  <2> QED
    BY <2>4
<1> DEFINE e == CHOOSE f : Def(f)
<1>6. Def(e)
  BY <1>5
<1>7. erase_cells(r, start, end, style) = e[count]
  BY DEF erase_cells, Round, count
<1> HIDE DEF e
<1>8. \A k \in 0 .. count : e[k] \in State
  <2>1. e[0] \in State /\ \A k \in 1 .. count : e[k - 1] \in State => e[k] \in State
    BY <1>2, <1>3, <1>6 DEF State
  <2> QED
    BY <1>2, <2>1, StepsKeep
<1> QED
  BY <1>2, <1>7, <1>8 DEF State

-----------------------------------------------------------------------------
(* A screen, and what is done to it.                                          *)

(* ICH and DCH keep cells, but not glyphs, whole.                             *)
LEMMA ColumnsLine ==
    ASSUME NEW L, NoLink \in L, NEW style \in StyleOf(L), NEW n \in Nat \ {0},
           NEW r \in Line(n, L, FALSE), NEW col \in 0 .. n - 1, NEW count \in Nat
    PROVE  /\ insert_columns(r, col, count, style) \in Line(n, L, FALSE)
           /\ delete_columns(r, col, count, style) \in Line(n, L, FALSE)
<1>1. r \in [1 .. n -> CellOf(L)] /\ Len(r) = n
  BY DEF Line
<1>2. blank(style) \in CellOf(L) /\ EMPTY \in CellOf(L)
  BY BlankCell
<1>3. ASSUME NEW s \in [1 .. n -> CellOf(L)] PROVE fix_row_edge(s) \in Line(n, L, FALSE)
  <2>1. Len(s) = n
    OBVIOUS
  <2> DEFINE c == with_cell(s, n - 1, EMPTY)
  <2>2. c \in [1 .. n -> CellOf(L)] /\ c[n] = EMPTY
    BY <1>2 DEF with_cell
  <2>3. fix_row_edge(s) = IF s[n].width = 2 THEN c ELSE s
    BY <2>1 DEF fix_row_edge
  <2> HIDE DEF c
  <2>4. EMPTY.width = 1
    BY BlankCell
  <2>5. s[n].width = 2 => EdgeNarrow(c, n)
    BY <2>2, <2>4 DEF EdgeNarrow
  <2>6. s[n].width # 2 => EdgeNarrow(s, n)
    BY DEF EdgeNarrow
  <2> QED
    BY <2>2, <2>3, <2>5, <2>6 DEF Line
<1> DEFINE m == Least(count, Len(r) - col)
           a == [i \in DOMAIN r |-> IF i <= col THEN r[i]
                                    ELSE IF i <= col + m THEN blank(style) ELSE r[i - m]]
           b == [i \in DOMAIN r |-> IF i <= col THEN r[i]
                                    ELSE IF i + m <= Len(r) THEN r[i + m] ELSE blank(style)]
<1>4. m \in Nat
  BY <1>1 DEF Least
<1> HIDE DEF m
<1>5. a \in [1 .. n -> CellOf(L)] /\ b \in [1 .. n -> CellOf(L)]
  BY <1>1, <1>2, <1>4
<1> HIDE DEF a, b
<1> QED
  BY <1>3, <1>5 DEF insert_columns, delete_columns, a, b, m

(* A screen of m lines of n cells. *)
Pane(m, n, L, w) == [cells : [1 .. m -> Line(n, L, w)], dirty : BOOLEAN]

LEMMA PaneSize ==
    ASSUME NEW m \in Nat \ {0}, NEW n \in Nat, NEW L, NEW w, NEW s \in Pane(m, n, L, w)
    PROVE  /\ s.cells \in [1 .. m -> Line(n, L, w)] /\ s.dirty \in BOOLEAN
           /\ Rows(s) = m /\ Cols(s) = n
<1>1. s.cells \in [1 .. m -> Line(n, L, w)] /\ s.dirty \in BOOLEAN
  BY DEF Pane
<1>2. s.cells[1] \in [1 .. n -> CellOf(L)]
  BY <1>1 DEF Line
<1> QED
  BY <1>1, <1>2 DEF Rows, Cols

LEMMA WithRowPane ==
    ASSUME NEW m \in Nat \ {0}, NEW n \in Nat, NEW L, NEW w, NEW s \in Pane(m, n, L, w),
           NEW row, NEW r \in Line(n, L, w)
    PROVE  with_row(s, row, r) \in Pane(m, n, L, w)
BY DEF Pane, with_row

LEMMA ErasePane ==
    ASSUME NEW m \in Nat \ {0}, NEW n \in Nat, NEW L, NEW w, NEW s \in Pane(m, n, L, w),
           NoLink \in L, NEW style \in StyleOf(L), NEW start \in Nat, NEW end \in Int
    PROVE  /\ \A row \in 0 .. m - 1 :
                 erase_row_cells(s, row, start, end, style) \in Pane(m, n, L, w)
           /\ erase_rows(s, start, end, style) \in Pane(m, n, L, w)
<1>1. s.cells \in [1 .. m -> Line(n, L, w)] /\ Cols(s) = n
  BY PaneSize
<1>2. ASSUME NEW row \in 0 .. m - 1
      PROVE  erase_row_cells(s, row, start, end, style) \in Pane(m, n, L, w)
  <2>1. s.cells[row + 1] \in Line(n, L, w)
    BY <1>1
  <2>2. erase_cells(s.cells[row + 1], start, end, style) \in Line(n, L, w)
    BY <2>1, EraseLineCells
  <2> QED
    BY <2>2, WithRowPane DEF erase_row_cells
<1>3. \A i \in 1 .. m : erase_cells(s.cells[i], 0, Cols(s), style) \in Line(n, L, w)
  BY <1>1, EraseLineCells
<1>4. erase_rows(s, start, end, style) \in Pane(m, n, L, w)
  BY <1>1, <1>3 DEF erase_rows, Pane
<1> QED
  BY <1>2, <1>4

LEMMA BlankPane ==
    ASSUME NEW m \in Nat \ {0}, NEW n \in Nat, NEW L, NoLink \in L, NEW w
    PROVE  /\ blank_screen(m, n) \in Pane(m, n, L, w)
           /\ \A s \in Pane(m, n, L, w) :
                 /\ clear_all(s, DefaultStyle) \in Pane(m, n, L, w)
                 /\ mark_dirty(s) \in Pane(m, n, L, w) /\ take_dirty(s) \in Pane(m, n, L, w)
<1>1. blank_row(n, DefaultStyle) \in Line(n, L, w)
  BY BlankRow, BlankCell
<1>2. \A s \in Pane(m, n, L, w) : Cols(s) = n
  BY PaneSize
<1> QED
  BY <1>1, <1>2 DEF blank_screen, clear_all, mark_dirty, take_dirty, Pane

LEMMA RotatePane ==
    ASSUME NEW m \in Nat \ {0}, NEW n \in Nat, NEW L, NEW w, NEW s \in Pane(m, n, L, w),
           NoLink \in L, NEW style \in StyleOf(L), NEW count \in Nat,
           NEW top \in 0 .. m - 1, NEW bottom \in 0 .. m - 1
    PROVE  /\ rotate_up(s, count, top, bottom, style) \in Pane(m, n, L, w)
           /\ rotate_down(s, count, top, bottom, style) \in Pane(m, n, L, w)
<1>1. s.cells \in [1 .. m -> Line(n, L, w)] /\ Cols(s) = n
  BY PaneSize
<1>2. blank_row(Cols(s), style) \in Line(n, L, w)
  BY <1>1, BlankRow
<1> DEFINE up == [i \in DOMAIN s.cells |->
                     IF i <= top \/ i > bottom + 1 THEN s.cells[i]
                     ELSE IF i + count <= bottom + 1 THEN s.cells[i + count]
                     ELSE blank_row(Cols(s), style)]
           down == [i \in DOMAIN s.cells |->
                       IF i <= top \/ i > bottom + 1 THEN s.cells[i]
                       ELSE IF i - count > top THEN s.cells[i - count]
                       ELSE blank_row(Cols(s), style)]
<1>3. up \in [1 .. m -> Line(n, L, w)]
  BY <1>1, <1>2
<1>4. down \in [1 .. m -> Line(n, L, w)]
  BY <1>1, <1>2
<1> HIDE DEF up, down
<1>5. /\ [cells |-> up, dirty |-> TRUE] \in Pane(m, n, L, w)
      /\ [cells |-> down, dirty |-> TRUE] \in Pane(m, n, L, w)
  BY <1>3, <1>4 DEF Pane
<1> QED
  BY <1>5 DEF rotate_up, rotate_down, up, down

LEMMA LinesPane ==
    ASSUME NEW m \in Nat \ {0}, NEW n \in Nat, NEW L, NEW w, NEW s \in Pane(m, n, L, w),
           NoLink \in L, NEW style \in StyleOf(L), NEW count \in Nat,
           NEW top \in 0 .. m - 1, NEW bottom \in 0 .. m - 1
    PROVE  /\ \A row \in 0 .. m - 1 :
                 /\ insert_lines(s, row, count, top, bottom, style) \in Pane(m, n, L, w)
                 /\ delete_lines(s, row, count, top, bottom, style) \in Pane(m, n, L, w)
           /\ scroll_up(s, count, top, bottom, style) \in Pane(m, n, L, w)
           /\ scroll_down(s, count, top, bottom, style) \in Pane(m, n, L, w)
<1>1. ASSUME NEW row \in 0 .. m - 1
      PROVE  /\ insert_lines(s, row, count, top, bottom, style) \in Pane(m, n, L, w)
             /\ delete_lines(s, row, count, top, bottom, style) \in Pane(m, n, L, w)
  <2> DEFINE c == Least(count, bottom - row + 1)
  <2>1. row <= bottom => c \in Nat
    BY DEF Least
  <2>2. row <= bottom => /\ rotate_up(s, c, row, bottom, style) \in Pane(m, n, L, w)
                         /\ rotate_down(s, c, row, bottom, style) \in Pane(m, n, L, w)
    <3> HIDE DEF c
    <3> QED
      BY <2>1, RotatePane
  <2> QED
    BY <2>2 DEF insert_lines, delete_lines
<1>2. erase_rows(s, top, bottom + 1, style) \in Pane(m, n, L, w)
  BY ErasePane
<1>3. /\ rotate_up(s, count, top, bottom, style) \in Pane(m, n, L, w)
      /\ rotate_down(s, count, top, bottom, style) \in Pane(m, n, L, w)
  BY RotatePane
<1> QED
  BY <1>1, <1>2, <1>3 DEF scroll_up, scroll_down

(* A line cut or filled up to another width keeps its glyphs whole: the one   *)
(* at the new edge goes if only half of it is left.                           *)
LEMMA CutLine ==
    ASSUME NEW L, NoLink \in L, NEW n \in Nat \ {0}, NEW w, NEW r \in Line(n, L, w),
           NEW cols \in Nat \ {0}
    PROVE  [j \in 1 .. cols |-> IF j > Least(n, cols) THEN EMPTY
                                ELSE IF j = Least(n, cols) /\ r[j].width = 2 THEN EMPTY
                                ELSE r[j]] \in Line(cols, L, w)
<1> DEFINE width == Least(n, cols)
           s == [j \in 1 .. cols |-> IF j > width THEN EMPTY
                                     ELSE IF j = width /\ r[j].width = 2 THEN EMPTY
                                     ELSE r[j]]
<1>1. width \in 1 .. n /\ width \in 1 .. cols
  BY DEF Least
<1>2. r \in [1 .. n -> CellOf(L)] /\ (w => Whole(r))
  BY DEF Line
<1>3. EMPTY \in CellOf(L) /\ EMPTY.width = 1
  BY BlankCell
<1> HIDE DEF width
<1>4. s \in [1 .. cols -> CellOf(L)]
  BY <1>1, <1>2, <1>3
<1>5. ASSUME Whole(r) PROVE Whole(s)
  <2>1. \A j \in 1 .. n : /\ r[j].width = 2 => j + 1 \in 1 .. n /\ r[j + 1].width = 0
                          /\ r[j].width = 0 => j - 1 \in 1 .. n /\ r[j - 1].width = 2
    BY <1>2, <1>5 DEF Whole
  <2> SUFFICES ASSUME NEW i \in 1 .. cols
               PROVE  /\ s[i].width = 2 => i + 1 \in 1 .. cols /\ s[i + 1].width = 0
                      /\ s[i].width = 0 => i - 1 \in 1 .. cols /\ s[i - 1].width = 2
    BY DEF Whole
  <2>2. ASSUME s[i].width = 2 PROVE i + 1 \in 1 .. cols /\ s[i + 1].width = 0
    <3>1. i < width /\ r[i].width = 2
      BY <1>1, <1>3, <2>2
    <3>2. i + 1 \in 1 .. n /\ r[i + 1].width = 0
      BY <1>1, <2>1, <3>1
    <3> QED
      BY <1>1, <3>1, <3>2
  <2>3. ASSUME s[i].width = 0 PROVE i - 1 \in 1 .. cols /\ s[i - 1].width = 2
    <3>1. i <= width /\ r[i].width = 0
      BY <1>1, <1>3, <2>3
    <3>2. i - 1 \in 1 .. n /\ r[i - 1].width = 2
      BY <1>1, <2>1, <3>1
    <3> QED
      BY <1>1, <3>1, <3>2
  <2> QED
    BY <2>2, <2>3
<1>6. EdgeNarrow(s, cols)
  <2> SUFFICES s[cols].width # 2
    BY DEF EdgeNarrow
  <2>1. cols > width \/ cols = width
    BY <1>1
  <2> QED
    BY <1>1, <1>3, <2>1
<1>7. s \in Line(cols, L, w)
  <2> HIDE DEF s
  <2> QED
    BY <1>2, <1>4, <1>5, <1>6 DEF Line
<1> QED
  BY <1>7 DEF width

LEMMA ContentRows ==
    ASSUME NEW m \in Nat, NEW s, DOMAIN s.cells = 1 .. m
    PROVE  content_rows(s) \in 0 .. m
<1> DEFINE kept == {i \in DOMAIN s.cells :
                       \E j \in DOMAIN s.cells : i <= j /\ HasContent(s.cells[j])}
<1>1. IsFiniteSet(1 .. m) /\ Cardinality(1 .. m) = m
  <2>1. 1 \in Int /\ m \in Int
    OBVIOUS
  <2>2. IsFiniteSet(1 .. m)
    BY <2>1, FS_Interval
  <2>3. Cardinality(1 .. m) = m
    BY <2>1, FS_Interval
  <2> QED
    BY <2>2, <2>3
<1>2. kept \subseteq 1 .. m
  OBVIOUS
<1> HIDE DEF kept
<1>3. IsFiniteSet(kept) /\ Cardinality(kept) <= m
  BY <1>1, <1>2, FS_Subset
<1>4. Cardinality(kept) \in Nat
  BY <1>3, FS_CardinalityType
<1> QED
  BY <1>3, <1>4 DEF content_rows, kept

LEMMA ResizePane ==
    ASSUME NEW m \in Nat \ {0}, NEW n \in Nat \ {0}, NEW L, NoLink \in L, NEW w,
           NEW s \in Pane(m, n, L, w), NEW rows \in Nat \ {0}, NEW cols \in Nat \ {0}
    PROVE  /\ resize(s, rows, cols) \in Pane(rows, cols, L, w)
           /\ row_shift(s, rows) \in 0 .. m
<1>1. s.cells \in [1 .. m -> Line(n, L, w)] /\ Rows(s) = m /\ Cols(s) = n
  BY PaneSize
<1> DEFINE shift == row_shift(s, rows)
           kept == IF rows >= Rows(s) THEN Rows(s) ELSE Least(content_rows(s), rows)
           width == Least(Cols(s), cols)
           cell(i, j) == s.cells[i + shift][j]
           line(i) == [j \in 1 .. cols |->
                          IF i > kept \/ j > width THEN EMPTY
                          ELSE IF j = width /\ cell(i, j).width = 2 THEN EMPTY
                          ELSE cell(i, j)]
<1>2. content_rows(s) \in 0 .. m
  BY <1>1, ContentRows
<1>3. shift \in 0 .. m
  BY <1>1, <1>2 DEF row_shift, Monus
<1>4. kept \in 0 .. m /\ kept + shift <= m
  BY <1>1, <1>2 DEF row_shift, Monus, Least
<1> HIDE DEF shift, kept
<1>5. ASSUME NEW i \in 1 .. rows PROVE line(i) \in Line(cols, L, w)
  <2>1. CASE i > kept
    <3>1. line(i) = blank_row(cols, DefaultStyle)
      BY <2>1 DEF blank_row, EMPTY
    <3> QED
      BY <3>1, BlankRow, BlankCell
  <2>2. CASE i <= kept
    <3> DEFINE r == s.cells[i + shift]
    <3>1. r \in Line(n, L, w)
      BY <1>1, <1>3, <1>4, <2>2
    <3>2. line(i) = [j \in 1 .. cols |-> IF j > Least(n, cols) THEN EMPTY
                                ELSE IF j = Least(n, cols) /\ r[j].width = 2 THEN EMPTY
                                ELSE r[j]]
      BY <1>1, <1>4, <2>2
    <3> HIDE DEF r
    <3>3. [j \in 1 .. cols |-> IF j > Least(n, cols) THEN EMPTY
                               ELSE IF j = Least(n, cols) /\ r[j].width = 2 THEN EMPTY
                               ELSE r[j]] \in Line(cols, L, w)
      BY <3>1, CutLine
    <3> QED
      BY <3>2, <3>3
  <2> QED
    BY <1>4, <2>1, <2>2
<1>6. resize(s, rows, cols) = [cells |-> [i \in 1 .. rows |-> line(i)], dirty |-> TRUE]
  BY DEF resize, shift, kept
<1> HIDE DEF line
<1> QED
  BY <1>3, <1>5, <1>6 DEF Pane, shift

(* The loop of contents, row after row. *)
Gathers(R, rows) ==
    {f \in [0 .. Len(rows) -> Seq({r \in R : HasContent(r)})] :
        /\ f[0] = <<>>
        /\ \A k \in 1 .. Len(rows) :
              f[k] = IF HasContent(rows[k]) THEN Append(f[k - 1], rows[k]) ELSE f[k - 1]}

LEMMA ContentsGather ==
    ASSUME NEW R, NEW rows \in Seq(R)
    PROVE  \E f \in Gathers(R, rows) : contents(rows) = f[Len(rows)]
<1> DEFINE State == Seq({r \in R : HasContent(r)})
           none == <<>>
           count == Len(rows)
           Round(k, s) == IF HasContent(rows[k]) THEN Append(s, rows[k]) ELSE s
           Def(f) == f = [k \in 0 .. count |-> IF k = 0 THEN none ELSE Round(k, f[k - 1])]
<1>1. count \in Nat
  OBVIOUS
<1>12. \A k \in 1 .. count : rows[k] \in R
  OBVIOUS
<1> HIDE DEF count
<1>2. none \in State
  OBVIOUS
<1>3. ASSUME NEW k \in 1 .. count, NEW s \in State PROVE Round(k, s) \in State
  BY <1>12
<1> DEFINE next == [k \in 1 .. count |-> [s \in State |-> Round(k, s)]]
<1>4. next \in [1 .. count -> [State -> State]]
  BY <1>3
<1> HIDE DEF State, Round, none
<1>5. \E f : Def(f)
  <2>1. PICK f \in [0 .. count -> State] :
            f[0] = none /\ \A k \in 1 .. count : f[k] = next[k][f[k - 1]]
    <3>1. none \in State /\ count \in Nat
      BY <1>1, <1>2
    <3> HIDE DEF next
    <3>2. PICK f : f \in Runs(State, none, count, next)
      BY <1>4, <3>1, RecursionExists
    <3> QED
      BY <3>2 DEF Runs
  <2>2. \A k \in 1 .. count : next[k][f[k - 1]] = Round(k, f[k - 1])
    BY <1>1
  <2> HIDE DEF next
  <2>3. \A k \in 0 .. count : f[k] = IF k = 0 THEN none ELSE Round(k, f[k - 1])
    BY <1>1, <2>1, <2>2
  <2>4. Def(f)
    BY <2>1, <2>3
  <2> QED
    BY <2>4
<1> DEFINE e == CHOOSE f : Def(f)
<1>6. Def(e)
  BY <1>5
<1>7. contents(rows) = e[count]
  BY DEF contents, Round, count, none
<1> HIDE DEF e
<1>8. \A k \in 0 .. count : e[k] \in State
  <2>1. e[0] \in State /\ \A k \in 1 .. count : e[k - 1] \in State => e[k] \in State
    BY <1>1, <1>2, <1>3, <1>6
  <2> QED
    BY <1>1, <2>1, StepsKeep
<1>9. /\ e[0] = none
      /\ \A k \in 1 .. count :
            e[k] = IF HasContent(rows[k]) THEN Append(e[k - 1], rows[k]) ELSE e[k - 1]
  <2>1. \A k \in 0 .. count : e[k] = IF k = 0 THEN none ELSE Round(k, e[k - 1])
    BY <1>6, Zenon
  <2>2. 0 \in 0 .. count /\ \A k \in 1 .. count : k \in 0 .. count /\ k # 0
    BY <1>1
  <2>3. e[0] = none /\ \A k \in 1 .. count : e[k] = Round(k, e[k - 1])
    BY <2>1, <2>2, Zenon
  <2> QED
    BY <2>3, Zenon DEF Round
<1>10. e \in [0 .. count -> State]
  BY <1>6, <1>8
<1>11. e \in Gathers(R, rows)
  BY <1>9, <1>10 DEF Gathers, State, count, none
<1> QED
  BY <1>7, <1>11 DEF count

(* The rows that join the history are rows of the screen, and draw something. *)
LEMMA ContentsKept ==
    ASSUME NEW R, NEW rows \in Seq(R)
    PROVE  contents(rows) \in Seq({r \in R : HasContent(r)})
<1>1. Len(rows) \in Nat
  OBVIOUS
<1>2. PICK f \in Gathers(R, rows) : contents(rows) = f[Len(rows)]
  BY ContentsGather
<1>3. f \in [0 .. Len(rows) -> Seq({r \in R : HasContent(r)})]
  BY <1>2, Zenon DEF Gathers
<1> QED
  BY <1>1, <1>2, <1>3

-----------------------------------------------------------------------------
(* The cells of the history are counted.                                      *)

(* The running totals CellCount goes through. *)
Totals(lines) ==
    {f \in [0 .. Len(lines) -> Nat] :
        f[0] = 0 /\ \A k \in 1 .. Len(lines) : f[k] = f[k - 1] + Len(lines[k])}

LEMMA CountTotals ==
    ASSUME NEW R, \A r \in R : Len(r) \in Nat, NEW lines \in Seq(R)
    PROVE  \E f \in Totals(lines) : CellCount(lines) = f[Len(lines)]
<1> DEFINE count == Len(lines)
           next == [k \in 1 .. count |-> [s \in Nat |-> s + Len(lines[k])]]
           Def(f) == f = [k \in 0 .. count |-> IF k = 0 THEN 0 ELSE f[k - 1] + Len(lines[k])]
<1>1. count \in Nat /\ \A k \in 1 .. count : Len(lines[k]) \in Nat
  <2>1. \A k \in 1 .. count : lines[k] \in R
    OBVIOUS
  <2> QED
    BY <2>1
<1> HIDE DEF count
<1>2. next \in [1 .. count -> [Nat -> Nat]]
  BY <1>1
<1>3. \E f : Def(f)
  <2> HIDE DEF next
  <2>1. PICK f : f \in Runs(Nat, 0, count, next)
    BY <1>1, <1>2, RecursionExists
  <2>2. f \in [0 .. count -> Nat] /\ f[0] = 0
    BY <2>1 DEF Runs
  <2>3. \A k \in 1 .. count : f[k] = f[k - 1] + Len(lines[k])
    <3>1. \A k \in 1 .. count : f[k] = next[k][f[k - 1]]
      BY <2>1 DEF Runs
    <3>2. \A k \in 1 .. count : f[k - 1] \in Nat
      BY <1>1, <2>2
    <3> QED
      BY <3>1, <3>2 DEF next
  <2>4. \A k \in 0 .. count : f[k] = IF k = 0 THEN 0 ELSE f[k - 1] + Len(lines[k])
    BY <1>1, <2>2, <2>3
  <2>5. Def(f)
    BY <2>2, <2>4
  <2> QED
    BY <2>5
<1> DEFINE e == CHOOSE f : Def(f)
<1>4. Def(e)
  BY <1>3
<1>5. CellCount(lines) = e[count]
  BY DEF CellCount, count
<1> HIDE DEF e
<1>6. \A k \in 0 .. count : e[k] \in Nat
  <2>1. e[0] \in Nat /\ \A k \in 1 .. count : e[k - 1] \in Nat => e[k] \in Nat
    BY <1>1, <1>4
  <2> QED
    BY <1>1, <2>1, StepsKeep
<1>7. e \in [0 .. count -> Nat] /\ e[0] = 0
  BY <1>1, <1>4, <1>6
<1>8. \A k \in 1 .. count : e[k] = e[k - 1] + Len(lines[k])
  BY <1>1, <1>4
<1>9. e \in Totals(lines)
  BY <1>7, <1>8 DEF Totals, count
<1> QED
  BY <1>5, <1>9 DEF count

(* Two runs over the same lines, one of them begun with some cells counted.   *)
LEMMA TotalsAgree ==
    ASSUME NEW f, NEW g, NEW m \in Nat, NEW n \in Nat,
           \A k \in 0 .. n : f[m + k] \in Nat /\ g[k] \in Nat,
           g[0] = 0,
           \A k \in 1 .. n : f[m + k] - f[m + (k - 1)] = g[k] - g[k - 1]
    PROVE  f[m + n] = f[m] + g[n]
<1> DEFINE S == {k \in Nat : k <= n => f[m + k] = f[m] + g[k]}
<1>1. 0 \in S
  OBVIOUS
<1>2. ASSUME NEW k \in Nat, k \in S PROVE k + 1 \in S
  <2> SUFFICES ASSUME k + 1 <= n PROVE f[m + (k + 1)] = f[m] + g[k + 1]
    OBVIOUS
  <2>1. f[m + k] = f[m] + g[k]
    BY <1>2
  <2>2. k + 1 \in 1 .. n /\ k \in 0 .. n /\ k + 1 \in 0 .. n /\ 0 \in 0 .. n /\ (k + 1) - 1 = k
    OBVIOUS
  <2>3. f[m + (k + 1)] - f[m + k] = g[k + 1] - g[k]
    BY <2>2
  <2>4. /\ f[m + k] \in Nat /\ f[m + (k + 1)] \in Nat /\ f[m] \in Nat
        /\ g[k] \in Nat /\ g[k + 1] \in Nat
    BY <2>2
  <2> QED
    BY <2>1, <2>3, <2>4
<1> HIDE DEF S
<1>3. S = Nat
  <2>1. S \in SUBSET Nat
    BY DEF S
  <2> QED
    BY <1>1, <1>2, <2>1, SetInduction
<1> QED
  BY <1>3 DEF S

(* The cells of the lines of two sequences are those of both. *)
LEMMA CountConcat ==
    ASSUME NEW R, \A r \in R : Len(r) \in Nat, NEW a \in Seq(R), NEW b \in Seq(R)
    PROVE  /\ CellCount(a) \in Nat /\ CellCount(b) \in Nat
           /\ CellCount(a \o b) = CellCount(a) + CellCount(b)
<1> DEFINE c == a \o b
           m == Len(a)
           n == Len(b)
           width(s, k) == Len(s[k])
<1>1. m \in Nat /\ n \in Nat /\ c \in Seq(R) /\ Len(c) = m + n
  OBVIOUS
<1>2. \A k \in 1 .. m : width(c, k) = width(a, k) /\ width(a, k) \in Nat
  OBVIOUS
<1>3. \A k \in 1 .. n : width(c, m + k) = width(b, k) /\ width(b, k) \in Nat
  OBVIOUS
<1>4. PICK f \in Totals(c) : CellCount(c) = f[m + n]
  BY <1>1, CountTotals
<1>5. PICK g \in Totals(a) : CellCount(a) = g[m]
  BY CountTotals
<1>6. PICK h \in Totals(b) : CellCount(b) = h[n]
  BY CountTotals
<1>7. /\ f \in [0 .. m + n -> Nat] /\ f[0] = 0
      /\ \A k \in 1 .. m + n : f[k] = f[k - 1] + width(c, k)
  BY <1>1 DEF Totals
<1>8. /\ g \in [0 .. m -> Nat] /\ g[0] = 0
      /\ \A k \in 1 .. m : g[k] = g[k - 1] + width(a, k)
  BY DEF Totals
<1>9. /\ h \in [0 .. n -> Nat] /\ h[0] = 0
      /\ \A k \in 1 .. n : h[k] = h[k - 1] + width(b, k)
  BY DEF Totals
<1> HIDE DEF c, m, n, width
<1>10. f[m] = g[m]
  <2> DEFINE S == {k \in Nat : k <= m => f[k] = g[k]}
  <2>1. 0 \in S
    BY <1>7, <1>8
  <2>2. ASSUME NEW k \in Nat, k \in S PROVE k + 1 \in S
    <3> SUFFICES ASSUME k + 1 <= m PROVE f[k + 1] = g[k + 1]
      OBVIOUS
    <3>1. k + 1 \in 1 .. m /\ k + 1 \in 1 .. m + n /\ (k + 1) - 1 = k /\ f[k] = g[k]
      BY <1>1, <2>2
    <3> QED
      BY <1>2, <1>7, <1>8, <3>1
  <2> HIDE DEF S
  <2>3. S = Nat
    <3>1. S \in SUBSET Nat
      BY DEF S
    <3> QED
      BY <2>1, <2>2, <3>1, SetInduction
  <2>4. m \in S /\ m <= m
    BY <1>1, <2>3
  <2> QED
    BY <2>4 DEF S
<1>11. f[m + n] = f[m] + h[n]
  <2>1. \A k \in 0 .. n : f[m + k] \in Nat /\ h[k] \in Nat
    BY <1>1, <1>7, <1>9
  <2>2. ASSUME NEW k \in 1 .. n PROVE f[m + k] - f[m + (k - 1)] = h[k] - h[k - 1]
    <3>4. m + k \in 1 .. m + n
      BY <1>1
    <3>1. f[m + k] = f[(m + k) - 1] + width(b, k) /\ h[k] = h[k - 1] + width(b, k)
      BY <1>3, <1>7, <1>9, <3>4
    <3>2. (m + k) - 1 = m + (k - 1) /\ k - 1 \in 0 .. n
      BY <1>1
    <3>3. f[m + (k - 1)] \in Nat /\ h[k - 1] \in Nat /\ width(b, k) \in Nat
      BY <1>3, <2>1, <3>2
    <3> QED
      BY <3>1, <3>2, <3>3
  <2> QED
    BY <1>1, <1>9, <2>1, <2>2, TotalsAgree
<1>12. g[m] \in Nat /\ h[n] \in Nat
  BY <1>1, <1>8, <1>9
<1> QED
  BY <1>4, <1>5, <1>6, <1>10, <1>11, <1>12 DEF c

(* What goes with the first n lines, and what stays. *)
LEMMA CountDropped ==
    ASSUME NEW R, \A r \in R : Len(r) \in Nat, NEW lines \in Seq(R), NEW n \in 0 .. Len(lines)
    PROVE  /\ SubSeq(lines, n + 1, Len(lines)) \in Seq(R)
           /\ Monus(CellCount(lines), CellCount(SubSeq(lines, 1, n)))
                 = CellCount(SubSeq(lines, n + 1, Len(lines)))
<1> DEFINE a == SubSeq(lines, 1, n)
           b == SubSeq(lines, n + 1, Len(lines))
<1>1. a \in Seq(R) /\ b \in Seq(R)
  OBVIOUS
<1>2. a \o b = lines
  <2>1. SubSeq(lines, 1, n) \o SubSeq(lines, n + 1, Len(lines)) = SubSeq(lines, 1, Len(lines))
    <3>1. Len(lines) \in Nat
      OBVIOUS
    <3>2. /\ 1 \in 1 .. Len(lines) + 1 /\ n \in 1 - 1 .. Len(lines)
          /\ Len(lines) \in n .. Len(lines)
      BY <3>1
    <3> QED
      BY <3>2, ConcatAdjacentSubSeq
  <2> QED
    BY <2>1, SubSeqFull
<1> HIDE DEF a, b
<1>3. /\ CellCount(a) \in Nat /\ CellCount(b) \in Nat
      /\ CellCount(lines) = CellCount(a) + CellCount(b)
  BY <1>1, <1>2, CountConcat
<1> QED
  BY <1>1, <1>3 DEF Monus, a, b

LEMMA CountNothing == CellCount(<<>>) = 0
<1>1. <<>> \in Seq({}) /\ Len(<<>>) = 0
  OBVIOUS
<1>2. PICK f \in Totals(<<>>) : CellCount(<<>>) = f[Len(<<>>)]
  BY <1>1, CountTotals
<1> QED
  BY <1>1, <1>2 DEF Totals

-----------------------------------------------------------------------------
(* The invariant of the terminal, and what changes parts of it.               *)

LEMMA LeastNat ==
    ASSUME NEW S \in SUBSET Nat, S # {}
    PROVE  \E n \in S : \A m \in 0 .. n - 1 : m \notin S
<1> DEFINE R == OpToRel(<, Nat)
<1>1. \A a, b \in Nat : a < b => <<a, b>> \in R
  BY DEF OpToRel
<1>2. IsWellFoundedOn(R, Nat)
  BY NatLessThanWellFounded, Zenon DEF R
<1> HIDE DEF R
<1>3. PICK n \in S : \A m \in S : ~ (<<m, n>> \in R)
  BY <1>2, WFMin
<1>4. ASSUME NEW m \in 0 .. n - 1 PROVE m \notin S
  <2>1. m \in Nat /\ n \in Nat /\ m < n
    OBVIOUS
  <2> QED
    BY <1>1, <1>3, <2>1
<1> QED
  BY <1>4

Ids(payload) == {payload[i].id : i \in DOMAIN payload}

(* A line the history keeps, as wide as the screen was when it left it. *)
Retained(L, w) == {r \in UNION {Line(n, L, w) : n \in Nat} : HasContent(r)}

(* What the fields of a terminal hold, if L are the links in use, and K the   *)
(* ones the caller knows; if w holds, glyphs are whole.                       *)
Tidy(t, L, K, w) ==
    /\ t.primary \in Pane(t.size.rows, t.size.cols, L, w)
    /\ t.alternate \in Pane(t.size.rows, t.size.cols, L, w)
    /\ t.pen \in StyleOf(L)
    /\ t.saved \in [cursor : [row : Nat, col : Nat], pen : StyleOf(L),
                    wrap_pending : BOOLEAN, origin : BOOLEAN]
    /\ t.scrollback \in Seq(Retained(L, w))
    /\ t.scrollback_cells = CellCount(t.scrollback)
    /\ t.on_alternate \in BOOLEAN /\ t.wrap_pending \in BOOLEAN
    /\ t.modes \in [on : SUBSET BoolMode, mouse : MouseReporting]
    /\ w => "insert" \notin t.modes.on
    /\ t.hyperlink_counter \in 1 .. IdMax
    /\ t.replies \in Nat
    /\ t.events \in Events
    /\ NoLink \in L /\ L \subseteq K \cup {NoLink} \cup Ids(t.events.payload)

(* The fields that may change freely. *)
Position == {"cursor", "scroll_top", "scroll_bottom", "title"}

LEMMA TidyFrame ==
    ASSUME NEW L, NEW K, NEW w, NEW t, Tidy(t, L, K, w), NEW u,
           \A f \in Fields \ Position : u[f] = t[f]
    PROVE  Tidy(u, L, K, w)
<1>1. /\ u.size = t.size /\ u.primary = t.primary /\ u.alternate = t.alternate
      /\ u.pen = t.pen /\ u.saved = t.saved /\ u.scrollback = t.scrollback
      /\ u.scrollback_cells = t.scrollback_cells /\ u.on_alternate = t.on_alternate
      /\ u.wrap_pending = t.wrap_pending /\ u.modes = t.modes
      /\ u.hyperlink_counter = t.hyperlink_counter /\ u.replies = t.replies
      /\ u.events = t.events
  BY DEF Fields, Position
<1> QED
  BY <1>1, Zenon DEF Tidy

LEMMA TidyWrap ==
    ASSUME NEW L, NEW K, NEW w, NEW t, Shape(t), Tidy(t, L, K, w), NEW u,
           \A f \in Fields \ (Position \cup {"wrap_pending"}) : u[f] = t[f],
           u.wrap_pending \in BOOLEAN
    PROVE  Tidy(u, L, K, w)
<1>1. /\ u.size = t.size /\ u.primary = t.primary /\ u.alternate = t.alternate
      /\ u.pen = t.pen /\ u.saved = t.saved /\ u.scrollback = t.scrollback
      /\ u.scrollback_cells = t.scrollback_cells /\ u.on_alternate = t.on_alternate
      /\ u.modes = t.modes
      /\ u.hyperlink_counter = t.hyperlink_counter /\ u.replies = t.replies
      /\ u.events = t.events
  BY DEF Fields, Position
<1> QED
  BY <1>1, Zenon DEF Tidy

(* More links may be in use, if they are announced, and more known. *)
LEMMA TidyMore ==
    ASSUME NEW L, NEW K, NEW w, NEW t, Tidy(t, L, K, w), NEW M, NEW J,
           L \subseteq M, M \subseteq J \cup {NoLink} \cup Ids(t.events.payload)
    PROVE  Tidy(t, M, J, w)
<1>1. StyleOf(L) \subseteq StyleOf(M)
  BY DEF StyleOf
<1>2. CellOf(L) \subseteq CellOf(M)
  BY <1>1 DEF CellOf
<1>3. \A n : Line(n, L, w) \subseteq Line(n, M, w)
  BY <1>2 DEF Line
<1>4. \A m, n : Pane(m, n, L, w) \subseteq Pane(m, n, M, w)
  BY <1>3 DEF Pane
<1>5. Retained(L, w) \subseteq Retained(M, w)
  BY <1>3 DEF Retained
<1>6. Seq(Retained(L, w)) \subseteq Seq(Retained(M, w))
  BY <1>5
<1>7. t.saved \in [cursor : [row : Nat, col : Nat], pen : StyleOf(M),
                   wrap_pending : BOOLEAN, origin : BOOLEAN]
  BY <1>1 DEF Tidy
<1> QED
  BY <1>1, <1>4, <1>6, <1>7, Zenon DEF Tidy

LEMMA RetainedLine ==
    ASSUME NEW L, NEW w
    PROVE  /\ \A r \in Retained(L, w) : Len(r) \in Nat
           /\ \A n \in Nat : {r \in Line(n, L, w) : HasContent(r)} \subseteq Retained(L, w)
<1>1. ASSUME NEW n \in Nat, NEW r \in Line(n, L, w) PROVE Len(r) = n
  <2>1. r \in [1 .. n -> CellOf(L)]
    BY DEF Line
  <2> QED
    BY <2>1
<1> QED
  BY <1>1 DEF Retained

LEMMA ActivePane ==
    ASSUME NEW L, NEW K, NEW w, NEW t, Sound(t), Tidy(t, L, K, w)
    PROVE  /\ active(t) \in Pane(t.size.rows, t.size.cols, L, w)
           /\ t.size.rows \in Nat \ {0} /\ t.size.cols \in Nat \ {0}
           /\ Rows(active(t)) = t.size.rows /\ Cols(active(t)) = t.size.cols
           /\ cursor_line(t) \in Line(t.size.cols, L, w)
           /\ \A r \in Line(t.size.cols, L, w) :
                 with_row(active(t), t.cursor.row, r) \in Pane(t.size.rows, t.size.cols, L, w)
<1>1. active(t) \in Pane(t.size.rows, t.size.cols, L, w)
  BY DEF Tidy, active
<1>2. t.size.rows \in Nat \ {0} /\ t.size.cols \in Nat \ {0}
  BY DEF Sound, Size
<1>3. /\ active(t).cells \in [1 .. t.size.rows -> Line(t.size.cols, L, w)]
      /\ Rows(active(t)) = t.size.rows /\ Cols(active(t)) = t.size.cols
  BY <1>1, <1>2, PaneSize
<1>4. t.cursor.row + 1 \in 1 .. t.size.rows
  BY Limits0
<1> QED
  BY <1>1, <1>2, <1>3, <1>4, WithRowPane DEF cursor_line

LEMMA DrawTidy ==
    ASSUME NEW L, NEW K, NEW w, NEW t, Sound(t), Tidy(t, L, K, w),
           NEW screen \in Pane(t.size.rows, t.size.cols, L, w)
    PROVE  Tidy(with_active(t, screen), L, K, w)
<1> DEFINE u == with_active(t, screen)
<1>1. /\ \A f \in Fields \ {"primary", "alternate"} : u[f] = t[f]
      /\ u.primary \in {t.primary, screen} /\ u.alternate \in {t.alternate, screen}
  BY DEF Sound, Shape, Fields, with_active
<1>2. /\ u.size = t.size
      /\ u.pen = t.pen /\ u.saved = t.saved /\ u.scrollback = t.scrollback
      /\ u.scrollback_cells = t.scrollback_cells /\ u.on_alternate = t.on_alternate
      /\ u.wrap_pending = t.wrap_pending /\ u.modes = t.modes
      /\ u.hyperlink_counter = t.hyperlink_counter /\ u.replies = t.replies
      /\ u.events = t.events
  BY <1>1 DEF Fields
<1>3. /\ u.primary \in Pane(t.size.rows, t.size.cols, L, w)
      /\ u.alternate \in Pane(t.size.rows, t.size.cols, L, w)
  BY <1>1 DEF Tidy
<1> HIDE DEF u
<1>4. Tidy(u, L, K, w)
  BY <1>2, <1>3, Zenon DEF Tidy
<1> QED
  BY <1>4 DEF u

LEMMA ReportTidy ==
    ASSUME NEW L, NEW K, NEW w, NEW t, Shape(t), Tidy(t, L, K, w), NEW flag \in Flag
    PROVE  Tidy(report(t, flag), L, K, w)
<1> DEFINE u == report(t, flag)
<1>1. (\A f \in Fields \ {"events"} : u[f] = t[f]) /\ u.events = mark(t.events, flag)
  BY DEF Shape, Fields, report
<1>2. t.events \in Events
  BY DEF Tidy
<1>3. mark(t.events, flag) \in Events /\ mark(t.events, flag).payload = t.events.payload
  BY <1>2 DEF Events, mark
<1> HIDE DEF u
<1>4. /\ u.size = t.size /\ u.primary = t.primary /\ u.alternate = t.alternate
      /\ u.pen = t.pen /\ u.saved = t.saved /\ u.scrollback = t.scrollback
      /\ u.scrollback_cells = t.scrollback_cells /\ u.on_alternate = t.on_alternate
      /\ u.wrap_pending = t.wrap_pending /\ u.modes = t.modes
      /\ u.hyperlink_counter = t.hyperlink_counter /\ u.replies = t.replies
  BY <1>1 DEF Fields
<1>5. Tidy(u, L, K, w)
  BY <1>1, <1>3, <1>4, Zenon DEF Tidy
<1> QED
  BY <1>5 DEF u

LEMMA OfferTidy ==
    ASSUME NEW L, NEW K, NEW w, NEW t, Shape(t), Tidy(t, L, K, w), NEW payload \in Payload
    PROVE  /\ Tidy(offer(t, payload), L, K, w)
           /\ Tidy(offer(t, payload), L \cup {payload.id}, K, w)
<1> DEFINE u == offer(t, payload)
           M == L \cup {payload.id}
<1>1. (\A f \in Fields \ {"events"} : u[f] = t[f]) /\ u.events = push(t.events, payload)
  BY DEF Shape, Fields, offer
<1>2. t.events \in Events
  BY DEF Tidy
<1>3. /\ push(t.events, payload) \in Events
      /\ push(t.events, payload).payload = Append(t.events.payload, payload)
  <2> DEFINE e == t.events
             s == Append(e.payload, payload)
             f == [flags |-> e.flags, payload |-> s]
  <2>1. e = [flags |-> e.flags, payload |-> e.payload] /\ e.payload \in Seq(Payload)
    BY <1>2 DEF Events
  <2>2. push(e, payload) = [e EXCEPT !.payload = s]
    BY Zenon DEF push
  <2>3. s \in Seq(Payload)
    BY <2>1
  <2> HIDE DEF e, s
  <2>4. push(e, payload) = f /\ f.payload = s
    BY <2>1, <2>2
  <2>5. e \in Events
    BY <1>2 DEF e
  <2>6. f \in Events
    BY <2>3, <2>5 DEF Events
  <2> HIDE DEF f
  <2> QED
    BY <2>4, <2>6, Zenon DEF e, s
<1>4. Ids(Append(t.events.payload, payload)) = Ids(t.events.payload) \cup {payload.id}
  <2> DEFINE s == t.events.payload
  <2>1. s \in Seq(Payload)
    BY <1>2 DEF Events
  <2> HIDE DEF s
  <2>2. /\ DOMAIN Append(s, payload) = (DOMAIN s) \cup {Len(s) + 1}
        /\ \A i \in DOMAIN s : Append(s, payload)[i] = s[i]
        /\ Append(s, payload)[Len(s) + 1] = payload
    BY <2>1
  <2>3. Ids(Append(s, payload)) = Ids(s) \cup {payload.id}
    BY <2>2 DEF Ids
  <2> QED
    BY <2>3 DEF s
<1> HIDE DEF u
<1>5. /\ u.size = t.size /\ u.primary = t.primary /\ u.alternate = t.alternate
      /\ u.pen = t.pen /\ u.saved = t.saved /\ u.scrollback = t.scrollback
      /\ u.scrollback_cells = t.scrollback_cells /\ u.on_alternate = t.on_alternate
      /\ u.wrap_pending = t.wrap_pending /\ u.modes = t.modes
      /\ u.hyperlink_counter = t.hyperlink_counter /\ u.replies = t.replies
  BY <1>1 DEF Fields
<1>6. /\ NoLink \in L /\ L \subseteq K \cup {NoLink} \cup Ids(u.events.payload)
      /\ M \subseteq K \cup {NoLink} \cup Ids(u.events.payload)
  BY <1>1, <1>3, <1>4 DEF Tidy
<1>7. Tidy(u, L, K, w)
  BY <1>1, <1>3, <1>5, <1>6, Zenon DEF Tidy
<1>8. Tidy(u, M, K, w)
  <2> HIDE DEF M
  <2> QED
    BY <1>6, <1>7, TidyMore DEF M
<1> QED
  BY <1>7, <1>8 DEF u

-----------------------------------------------------------------------------
(* Every control sequence keeps it.                                           *)

(* Lines with content join the history, with all of their cells. *)
LEMMA PushTidy ==
    ASSUME NEW L, NEW K, NEW w, NEW t, Sound(t), Tidy(t, L, K, w), NEW n \in Nat,
           NEW rows \in Seq(Line(n, L, w))
    PROVE  Tidy(push_displaced_to_scrollback(t, rows), L, K, w)
<1> DEFINE lines == contents(rows)
           u == [t EXCEPT !.scrollback = @ \o lines, !.scrollback_cells = @ + CellCount(lines)]
<1>1. lines \in Seq(Retained(L, w))
  <2>1. lines \in Seq({r \in Line(n, L, w) : HasContent(r)})
    BY ContentsKept
  <2>2. {r \in Line(n, L, w) : HasContent(r)} \subseteq Retained(L, w)
    BY RetainedLine
  <2> HIDE DEF lines
  <2> QED
    BY <2>1, <2>2
<1>2. /\ \A f \in Fields \ {"scrollback", "scrollback_cells"} : u[f] = t[f]
      /\ u.scrollback = t.scrollback \o lines
      /\ u.scrollback_cells = t.scrollback_cells + CellCount(lines)
      /\ Shape(u)
  BY DEF Sound, Shape, Fields
<1> HIDE DEF u, lines
<1>3. t.scrollback \in Seq(Retained(L, w)) /\ t.scrollback_cells = CellCount(t.scrollback)
  BY DEF Tidy
<1>4. u.scrollback \in Seq(Retained(L, w))
  BY <1>1, <1>2, <1>3
<1>5. u.scrollback_cells = CellCount(u.scrollback)
  BY <1>1, <1>2, <1>3, CountConcat, RetainedLine
<1>6. /\ u.size = t.size /\ u.primary = t.primary /\ u.alternate = t.alternate
      /\ u.pen = t.pen /\ u.saved = t.saved /\ u.on_alternate = t.on_alternate
      /\ u.wrap_pending = t.wrap_pending /\ u.modes = t.modes
      /\ u.hyperlink_counter = t.hyperlink_counter /\ u.replies = t.replies
      /\ u.events = t.events
  BY <1>2 DEF Fields
<1>7. Tidy(u, L, K, w)
  BY <1>4, <1>5, <1>6, Zenon DEF Tidy
<1>8. Tidy(report(u, "scrollback_line_added"), L, K, w)
  BY <1>2, <1>7, ReportTidy DEF Flag
<1> QED
  BY <1>8 DEF push_displaced_to_scrollback, u, lines

LEMMA AtTidy ==
    ASSUME NEW L, NEW K, NEW w, NEW t, Sound(t), Tidy(t, L, K, w), NEW row, NEW col
    PROVE  Tidy(at(t, row, col), L, K, w)
<1>1. /\ \A f \in Fields \ (Position \cup {"wrap_pending"}) : at(t, row, col)[f] = t[f]
      /\ at(t, row, col).wrap_pending = FALSE
  BY DEF at, Sound, Shape, Fields, Position
<1> QED
  BY <1>1, TidyWrap DEF Sound

LEMMA CursorTidy ==
    ASSUME NEW L, NEW K, NEW w, NEW t, Shape(t), Tidy(t, L, K, w), NEW x
    PROVE  /\ Tidy([t EXCEPT !.cursor = x], L, K, w)
           /\ Tidy([t EXCEPT !.cursor.row = x], L, K, w)
           /\ Tidy([t EXCEPT !.cursor.col = x], L, K, w)
           /\ x \in BOOLEAN => Tidy([t EXCEPT !.wrap_pending = x], L, K, w)
<1>1. \A u \in {[t EXCEPT !.cursor = x], [t EXCEPT !.cursor.row = x],
                [t EXCEPT !.cursor.col = x]} : \A f \in Fields \ Position : u[f] = t[f]
  BY DEF Shape, Fields, Position
<1>2. LET u == [t EXCEPT !.wrap_pending = x]
      IN /\ \A f \in Fields \ (Position \cup {"wrap_pending"}) : u[f] = t[f]
         /\ u.wrap_pending = x
  BY DEF Shape, Fields, Position
<1> QED
  BY <1>1, <1>2, TidyFrame, TidyWrap

LEMMA ScrollUpTidy ==
    ASSUME NEW L, NEW K, NEW w, NEW t, Sound(t), Tidy(t, L, K, w), NEW count \in Nat
    PROVE  Tidy(scroll_up_screen(t, count), L, K, w)
<1> DEFINE s == active(t)
           m == t.size.rows
           n == t.size.cols
           u == with_active(t, scroll_up(s, count, t.scroll_top, t.scroll_bottom, t.pen))
           rows == scrolled_off(s, count, t.scroll_top, t.scroll_bottom)
<1>1. /\ m \in Nat \ {0} /\ n \in Nat \ {0} /\ s \in Pane(m, n, L, w)
      /\ t.scroll_top \in 0 .. m - 1 /\ t.scroll_bottom \in 0 .. m - 1
      /\ t.scroll_top <= t.scroll_bottom
      /\ NoLink \in L /\ t.pen \in StyleOf(L)
  BY ActivePane, Limits0 DEF last_row, Tidy
<1> HIDE DEF s, m, n
<1>2. scroll_up(s, count, t.scroll_top, t.scroll_bottom, t.pen) \in Pane(m, n, L, w)
  BY <1>1, LinesPane
<1>3. Tidy(u, L, K, w)
  BY <1>2, DrawTidy DEF m, n
<1>4. Sound(u)
  <2>1. Same(t, u)
    BY LinesKept, WithActiveSame DEF Sound, s
  <2> QED
    BY <2>1, SoundFrame
<1>5. rows \in Seq(Line(n, L, w))
  <2>1. s.cells \in [1 .. m -> Line(n, L, w)]
    BY <1>1, PaneSize
  <2>2. s.cells \in Seq(Line(n, L, w)) /\ Len(s.cells) = m
    BY <1>1, <2>1
  <2> DEFINE top == t.scroll_top + 1
             bottom == t.scroll_top + Least(count, t.scroll_bottom - t.scroll_top + 1)
  <2>3. top \in 1 .. m + 1 /\ bottom \in 0 .. m
    BY <1>1 DEF Least
  <2> HIDE DEF top, bottom
  <2>4. SubSeq(s.cells, top, bottom) \in Seq(Line(n, L, w))
    BY <1>1, <2>2, <2>3
  <2> QED
    BY <2>4 DEF scrolled_off, top, bottom
<1> HIDE DEF u, rows
<1>6. Tidy(push_displaced_to_scrollback(u, rows), L, K, w)
  BY <1>1, <1>3, <1>4, <1>5, PushTidy
<1> QED
  BY <1>3, <1>6 DEF scroll_up_screen, u, rows, s

LEMMA LineFeedTidy ==
    ASSUME NEW L, NEW K, NEW w, NEW t, Sound(t), Tidy(t, L, K, w)
    PROVE  Tidy(line_feed(t), L, K, w)
<1> DEFINE u == [t EXCEPT !.wrap_pending = FALSE]
<1>1. Tidy(u, L, K, w)
  BY CursorTidy DEF Sound
<1>2. Sound(u) /\ Shape(u)
  BY WrapSame, SoundFrame DEF Sound
<1> HIDE DEF u
<1>3. Tidy(scroll_up_screen(u, 1), L, K, w)
  BY <1>1, <1>2, ScrollUpTidy
<1>4. Tidy([u EXCEPT !.cursor.row = @ + 1], L, K, w)
  BY <1>1, <1>2, CursorTidy
<1> QED
  BY <1>1, <1>3, <1>4 DEF line_feed, u

LEMMA NextLineTidy ==
    ASSUME NEW L, NEW K, NEW w, NEW t, Sound(t), Tidy(t, L, K, w)
    PROVE  Tidy(carriage_return(t), L, K, w) /\ Tidy(next_line(t), L, K, w)
<1>1. Tidy(carriage_return(t), L, K, w)
  BY AtTidy DEF carriage_return
<1> QED
  BY <1>1, CarriageReturnSound, LineFeedTidy DEF next_line

LEMMA ReverseIndexTidy ==
    ASSUME NEW L, NEW K, NEW w, NEW t, Sound(t), Tidy(t, L, K, w)
    PROVE  Tidy(reverse_index(t), L, K, w)
<1> DEFINE u == [t EXCEPT !.wrap_pending = FALSE]
           screen == scroll_down(active(t), 1, t.scroll_top, t.scroll_bottom, t.pen)
<1>1. Tidy(u, L, K, w)
  BY CursorTidy DEF Sound
<1>2. Sound(u) /\ Shape(u) /\ u.size = t.size
  BY WrapSame, SoundFrame DEF Sound, Same
<1>3. screen \in Pane(t.size.rows, t.size.cols, L, w)
  <2>1. /\ t.scroll_top \in 0 .. t.size.rows - 1 /\ t.scroll_bottom \in 0 .. t.size.rows - 1
        /\ NoLink \in L /\ t.pen \in StyleOf(L)
    BY Limits0 DEF last_row, Tidy
  <2> QED
    BY <2>1, ActivePane, LinesPane
<1> HIDE DEF u, screen
<1>4. Tidy(with_active(u, screen), L, K, w)
  BY <1>1, <1>2, <1>3, DrawTidy
<1>5. Tidy([u EXCEPT !.cursor.row = @ - 1], L, K, w)
  BY <1>1, <1>2, CursorTidy
<1> QED
  BY <1>1, <1>4, <1>5 DEF reverse_index, u, screen

LEMMA RepairTidy ==
    ASSUME NEW L, NEW K, NEW w, NEW t, Shape(t), Tidy(t, L, K, w)
    PROVE  Tidy(repair_cursor_cell(t), L, K, w)
BY CursorTidy DEF repair_cursor_cell

LEMMA SaveTidy ==
    ASSUME NEW L, NEW K, NEW w, NEW t, Sound(t), Tidy(t, L, K, w)
    PROVE  Tidy(save_cursor(t), L, K, w) /\ Tidy(enter_alternate(t), L, K, w)
<1> DEFINE saved == [cursor |-> t.cursor, pen |-> t.pen,
                     wrap_pending |-> t.wrap_pending, origin |-> origin(t)]
           u == save_cursor(t)
<1>1. saved \in [cursor : [row : Nat, col : Nat], pen : StyleOf(L),
                 wrap_pending : BOOLEAN, origin : BOOLEAN]
  <2>1. t.cursor \in [row : Nat, col : Nat]
    BY Limits0 DEF Sound, Bounded
  <2>2. t.pen \in StyleOf(L) /\ t.wrap_pending \in BOOLEAN /\ origin(t) \in BOOLEAN
    BY DEF Tidy, origin
  <2> QED
    BY <2>1, <2>2
<1>2. (\A f \in Fields \ {"saved"} : u[f] = t[f]) /\ u.saved = saved /\ Shape(u)
  BY DEF Sound, Shape, Fields, save_cursor
<1> HIDE DEF u, saved
<1>3. Tidy(u, L, K, w)
  <2>1. /\ u.size = t.size /\ u.primary = t.primary /\ u.alternate = t.alternate
        /\ u.pen = t.pen /\ u.scrollback = t.scrollback
        /\ u.scrollback_cells = t.scrollback_cells /\ u.on_alternate = t.on_alternate
        /\ u.wrap_pending = t.wrap_pending /\ u.modes = t.modes
        /\ u.hyperlink_counter = t.hyperlink_counter /\ u.replies = t.replies
        /\ u.events = t.events
    BY <1>2 DEF Fields
  <2> QED
    BY <1>1, <1>2, <2>1, Zenon DEF Tidy
<1> DEFINE v == [u EXCEPT !.on_alternate = TRUE]
<1>4. Tidy(v, L, K, w)
  <2>1. (\A f \in Fields \ {"on_alternate"} : v[f] = u[f]) /\ v.on_alternate = TRUE
    BY <1>2 DEF Shape, Fields
  <2> HIDE DEF v
  <2>2. /\ v.size = u.size /\ v.primary = u.primary /\ v.alternate = u.alternate
        /\ v.pen = u.pen /\ v.saved = u.saved /\ v.scrollback = u.scrollback
        /\ v.scrollback_cells = u.scrollback_cells
        /\ v.wrap_pending = u.wrap_pending /\ v.modes = u.modes
        /\ v.hyperlink_counter = u.hyperlink_counter /\ v.replies = u.replies
        /\ v.events = u.events
    BY <2>1 DEF Fields
  <2>3. v.on_alternate \in BOOLEAN
    BY <2>1
  <2> QED
    BY <1>3, <2>2, <2>3, Zenon DEF Tidy
<1>5. enter_alternate(t) = IF t.on_alternate THEN t ELSE v
  BY DEF enter_alternate, u
<1> HIDE DEF v
<1>6. Tidy(enter_alternate(t), L, K, w)
  BY <1>4, <1>5, Zenon
<1> QED
  BY <1>3, <1>6 DEF u

LEMMA RestoreTidy ==
    ASSUME NEW L, NEW K, NEW w, NEW t, Sound(t), Tidy(t, L, K, w)
    PROVE  /\ Tidy(restore_cursor(t), L, K, w)
           /\ Tidy([t EXCEPT !.on_alternate = FALSE], L, K, w)
<1> DEFINE u == [t EXCEPT !.cursor = t.saved.cursor, !.pen = t.saved.pen,
                          !.wrap_pending = t.saved.wrap_pending,
                          !.modes.on = IF t.saved.origin THEN @ \cup {"origin"}
                                       ELSE @ \ {"origin"}]
           on == IF t.saved.origin THEN t.modes.on \cup {"origin"} ELSE t.modes.on \ {"origin"}
<1>1. /\ \A f \in Fields \ {"cursor", "pen", "wrap_pending", "modes"} : u[f] = t[f]
      /\ u.pen = t.saved.pen /\ u.wrap_pending = t.saved.wrap_pending
      /\ u.modes = [t.modes EXCEPT !.on = on]
      /\ Shape(u)
  BY DEF Sound, Shape, Fields
<1>2. /\ u.size = t.size /\ u.primary = t.primary /\ u.alternate = t.alternate
      /\ u.saved = t.saved /\ u.scrollback = t.scrollback
      /\ u.scrollback_cells = t.scrollback_cells /\ u.on_alternate = t.on_alternate
      /\ u.hyperlink_counter = t.hyperlink_counter /\ u.replies = t.replies
      /\ u.events = t.events
  BY <1>1 DEF Fields
<1>3. t.saved.pen \in StyleOf(L) /\ t.saved.wrap_pending \in BOOLEAN
  BY DEF Tidy
<1>4. on \in SUBSET BoolMode /\ (w => "insert" \notin on)
  BY DEF Tidy, BoolMode
<1>5. [t.modes EXCEPT !.on = on] \in [on : SUBSET BoolMode, mouse : MouseReporting]
  BY <1>4 DEF Tidy
<1>6. [t.modes EXCEPT !.on = on].on = on
  BY DEF Tidy
<1> HIDE DEF u, on
<1>7. Tidy(u, L, K, w)
  BY <1>1, <1>2, <1>3, <1>4, <1>5, <1>6, Zenon DEF Tidy
<1>8. Tidy(clamp_cursor(u), L, K, w)
  <2> DEFINE v == [u EXCEPT !.cursor = [row |-> clamp(@.row, origin_bounds(u)),
                                        col |-> Least(@.col, last_col(u))]]
  <2>1. Tidy(v, L, K, w)
    BY <1>1, <1>7, CursorTidy
  <2>2. Shape(v)
    BY <1>1 DEF Shape, Fields
  <2> HIDE DEF v
  <2> QED
    BY <2>1, <2>2, RepairTidy DEF clamp_cursor, v
<1>9. Tidy([t EXCEPT !.on_alternate = FALSE], L, K, w)
  <2> DEFINE v == [t EXCEPT !.on_alternate = FALSE]
  <2>1. (\A f \in Fields \ {"on_alternate"} : v[f] = t[f]) /\ v.on_alternate = FALSE
    BY DEF Sound, Shape, Fields
  <2> HIDE DEF v
  <2>2. /\ v.size = t.size /\ v.primary = t.primary /\ v.alternate = t.alternate
        /\ v.pen = t.pen /\ v.saved = t.saved /\ v.scrollback = t.scrollback
        /\ v.scrollback_cells = t.scrollback_cells
        /\ v.wrap_pending = t.wrap_pending /\ v.modes = t.modes
        /\ v.hyperlink_counter = t.hyperlink_counter /\ v.replies = t.replies
        /\ v.events = t.events
    BY <2>1 DEF Fields
  <2>3. v.on_alternate \in BOOLEAN
    BY <2>1
  <2>4. Tidy(v, L, K, w)
    BY <2>2, <2>3, Zenon DEF Tidy
  <2> QED
    BY <2>4 DEF v
<1> QED
  BY <1>8, <1>9 DEF restore_cursor, u, on

LEMMA PutTidy ==
    ASSUME NEW L, NEW K, NEW w, NEW t, Sound(t), Tidy(t, L, K, w),
           NEW ch \in Narrow \cup Wide, fits(t, Width(ch))
    PROVE  Tidy(put(t, ch), L, K, w)
<1> DEFINE line == IF "insert" \in t.modes.on
                   THEN insert_columns(cursor_line(t), t.cursor.col, Width(ch), t.pen)
                   ELSE cursor_line(t)
           r == put_glyph(line, t.cursor.col, ch, Width(ch), t.pen)
           u == with_cursor_line(t, r)
           next_col == t.cursor.col + Width(ch)
           n == t.size.cols
<1>1. /\ NoLink \in L /\ t.pen \in StyleOf(L) /\ (w => "insert" \notin t.modes.on)
      /\ Width(ch) \in {1, 2} /\ ch \in Chars
      /\ t.cursor.col \in 0 .. n - 1 /\ t.cursor.col + Width(ch) <= n
      /\ n \in Nat \ {0} /\ cursor_line(t) \in Line(n, L, w)
  BY ActivePane, Limits0 DEF Tidy, Width, Chars, fits, last_col
<1>2. line \in Line(n, L, w)
  <2>1. ASSUME "insert" \in t.modes.on PROVE line \in Line(n, L, w)
    <3>1. Line(n, L, w) = Line(n, L, FALSE)
      BY <1>1, <2>1 DEF Line
    <3>4. Width(ch) \in Nat
      BY <1>1
    <3>5. cursor_line(t) \in Line(n, L, w)
      BY <1>1
    <3> HIDE DEF n
    <3>2. cursor_line(t) \in Line(n, L, FALSE)
      BY <3>1, <3>5
    <3>3. insert_columns(cursor_line(t), t.cursor.col, Width(ch), t.pen) \in Line(n, L, FALSE)
      BY <1>1, <3>2, <3>4, ColumnsLine
    <3> QED
      BY <2>1, <3>1, <3>3
  <2> QED
    BY <1>1, <2>1
<1> HIDE DEF line, n
<1>3. r \in Line(n, L, w)
  BY <1>1, <1>2, PutLine
<1> HIDE DEF r
<1>4. Tidy(u, L, K, w)
  BY <1>3, ActivePane, DrawTidy DEF with_cursor_line, n
<1>5. Shape(u)
  BY DEF Sound, Shape, Fields, with_cursor_line, with_active
<1> HIDE DEF u
<1>6. \A x, p : p \in BOOLEAN =>
          Tidy([u EXCEPT !.cursor.col = x, !.wrap_pending = p], L, K, w)
  <2> TAKE x, p
  <2> HAVE p \in BOOLEAN
  <2> DEFINE v == [u EXCEPT !.cursor.col = x, !.wrap_pending = p]
  <2>1. /\ \A f \in Fields \ (Position \cup {"wrap_pending"}) : v[f] = u[f]
        /\ v.wrap_pending = p
    BY <1>5 DEF Shape, Fields, Position
  <2> HIDE DEF v
  <2>2. Tidy(v, L, K, w)
    BY <1>4, <1>5, <2>1, TidyWrap
  <2> QED
    BY <2>2 DEF v
<1>7. autowrap(t) \in BOOLEAN
  BY DEF autowrap
<1> QED
  BY <1>6, <1>7 DEF put, u, r, line

LEMMA PrintTidy ==
    ASSUME NEW L, NEW K, NEW w, NEW t, Sound(t), Tidy(t, L, K, w), NEW ch \in Narrow \cup Wide
    PROVE  Tidy(print_char(t, ch), L, K, w)
<1> DEFINE u == [t EXCEPT !.wrap_pending = FALSE]
           a == after_pending_wrap(t)
           b == make_room(a, Width(ch))
<1>1. Tidy(u, L, K, w)
  BY CursorTidy DEF Sound
<1>2. Sound(u)
  BY WrapSame, SoundFrame DEF Sound
<1>3. Tidy(a, L, K, w)
  <2> HIDE DEF u
  <2> QED
    BY <1>1, <1>2, NextLineTidy DEF after_pending_wrap, u
<1>4. Sound(a)
  BY AfterPendingWrapSound
<1> HIDE DEF a
<1>5. Tidy(b, L, K, w)
  BY <1>3, <1>4, NextLineTidy, CursorTidy DEF make_room, Sound
<1>6. Sound(b)
  BY <1>4, MakeRoomSound
<1> HIDE DEF b
<1> QED
  BY <1>5, <1>6, PutTidy DEF print_char, a, b

LEMMA MovesTidy ==
    ASSUME NEW L, NEW K, NEW w, NEW t, Sound(t), Tidy(t, L, K, w), NEW n, NEW m
    PROVE  /\ Tidy(cursor_up(t, n), L, K, w) /\ Tidy(cursor_down(t, n), L, K, w)
           /\ Tidy(cursor_forward(t, n), L, K, w) /\ Tidy(cursor_backward(t, n), L, K, w)
           /\ Tidy(set_col(t, n), L, K, w) /\ Tidy(set_row(t, n), L, K, w)
           /\ Tidy(set_position(t, n, m), L, K, w)
           /\ Tidy(backspace(t), L, K, w) /\ Tidy(horizontal_tab(t), L, K, w)
BY AtTidy DEF cursor_up, cursor_down, cursor_forward, cursor_backward, set_col, set_row,
              set_position, backspace, horizontal_tab

LEMMA FirstColTidy ==
    ASSUME NEW L, NEW K, NEW w, NEW t, Sound(t), Tidy(t, L, K, w), NEW n
    PROVE  /\ Tidy(to_first_col(cursor_down(t, n)), L, K, w)
           /\ Tidy(to_first_col(cursor_up(t, n)), L, K, w)
<1>1. Shape(cursor_down(t, n)) /\ Shape(cursor_up(t, n))
  BY DEF Sound, Shape, Fields, cursor_down, cursor_up, at
<1> QED
  BY <1>1, MovesTidy, CursorTidy DEF to_first_col

LEMMA EraseSavedTidy ==
    ASSUME NEW L, NEW K, NEW w, NEW t, Shape(t), Tidy(t, L, K, w)
    PROVE  Tidy(erase_saved_lines(t), L, K, w)
<1> DEFINE u == erase_saved_lines(t)
<1>1. /\ \A f \in Fields \ {"scrollback", "scrollback_cells"} : u[f] = t[f]
      /\ u.scrollback = <<>> /\ u.scrollback_cells = 0
  BY DEF Shape, Fields, erase_saved_lines
<1> HIDE DEF u
<1>2. /\ u.size = t.size /\ u.primary = t.primary /\ u.alternate = t.alternate
      /\ u.pen = t.pen /\ u.saved = t.saved /\ u.on_alternate = t.on_alternate
      /\ u.wrap_pending = t.wrap_pending /\ u.modes = t.modes
      /\ u.hyperlink_counter = t.hyperlink_counter /\ u.replies = t.replies
      /\ u.events = t.events
  BY <1>1 DEF Fields
<1>3. u.scrollback \in Seq(Retained(L, w)) /\ u.scrollback_cells = CellCount(u.scrollback)
  BY <1>1, CountNothing
<1>4. Tidy(u, L, K, w)
  BY <1>2, <1>3, Zenon DEF Tidy
<1> QED
  BY <1>4 DEF u

LEMMA EraseTidy ==
    ASSUME NEW L, NEW K, NEW w, NEW t, Sound(t), Tidy(t, L, K, w), NEW n \in Nat
    PROVE  /\ Tidy(erase_display(t, n), L, K, w) /\ Tidy(erase_line(t, n), L, K, w)
           /\ Tidy(erase_chars(t, n), L, K, w)
<1> DEFINE s == active(t)
           a == t.size.rows
           b == t.size.cols
           row == t.cursor.row
           col == t.cursor.col
           style == t.pen
<1>1. /\ s \in Pane(a, b, L, w) /\ NoLink \in L /\ style \in StyleOf(L)
      /\ a \in Nat \ {0} /\ b \in Nat \ {0}
      /\ row \in 0 .. a - 1 /\ col \in Nat
  <2>1. s \in Pane(a, b, L, w) /\ a \in Nat \ {0} /\ b \in Nat \ {0}
    BY ActivePane
  <2>2. row \in 0 .. a - 1 /\ col \in Nat
    BY Limits0 DEF last_row
  <2> QED
    BY <2>1, <2>2 DEF Tidy
<1>2. \A screen \in Pane(a, b, L, w) : Tidy(with_active(t, screen), L, K, w)
  BY DrawTidy
<1> HIDE DEF s, a, b, row, col, style
<1>3. ASSUME NEW screen \in Pane(a, b, L, w), NEW start \in Nat, NEW end \in Nat
      PROVE  /\ erase_row_cells(screen, row, start, end, style) \in Pane(a, b, L, w)
             /\ erase_rows(screen, start, end, style) \in Pane(a, b, L, w)
  BY <1>1, ErasePane
<1>4. Tidy(erase_display(t, n), L, K, w)
  <2> DEFINE line0 == erase_row_cells(s, row, col, b, style)
             rows0 == erase_rows(line0, row + 1, a, style)
             rows1 == erase_rows(s, 0, row, style)
             line1 == erase_row_cells(rows1, row, 0, col + 1, style)
             rows2 == erase_rows(s, 0, a, style)
  <2>1. line0 \in Pane(a, b, L, w) /\ rows1 \in Pane(a, b, L, w) /\ rows2 \in Pane(a, b, L, w)
    BY <1>1, <1>3
  <2>2. rows0 \in Pane(a, b, L, w) /\ line1 \in Pane(a, b, L, w)
    <3>1. row + 1 \in Nat /\ col + 1 \in Nat /\ a \in Nat /\ 0 \in Nat
      BY <1>1
    <3> HIDE DEF line0, rows1
    <3> QED
      BY <1>3, <2>1, <3>1
  <2>3. /\ Tidy(with_active(t, rows0), L, K, w) /\ Tidy(with_active(t, line1), L, K, w)
        /\ Tidy(with_active(t, rows2), L, K, w)
    <3> HIDE DEF rows0, line1, rows2
    <3> QED
      BY <1>2, <2>1, <2>2
  <2>4. Tidy(erase_saved_lines(t), L, K, w)
    BY EraseSavedTidy DEF Sound
  <2> QED
    BY <2>3, <2>4 DEF erase_display, s, a, b, row, col, style
<1>5. Tidy(erase_line(t, n), L, K, w)
  <2> DEFINE from == IF n = 0 THEN col ELSE 0
             to == IF n = 1 THEN col + 1 ELSE b
  <2>1. from \in Nat /\ to \in Nat
    BY <1>1
  <2> HIDE DEF from, to
  <2>2. Tidy(with_active(t, erase_row_cells(s, row, from, to, style)), L, K, w)
    BY <1>1, <1>2, <1>3, <2>1
  <2> QED
    BY <2>2 DEF erase_line, s, b, row, col, style, from, to
<1>6. Tidy(erase_chars(t, n), L, K, w)
  <2>1. col + n \in Nat
    BY <1>1
  <2>2. Tidy(with_active(t, erase_row_cells(s, row, col, col + n, style)), L, K, w)
    BY <1>1, <1>2, <1>3, <2>1
  <2> QED
    BY <2>2 DEF erase_chars, s, row, col, style
<1> QED
  BY <1>4, <1>5, <1>6

LEMMA ColumnsTidy ==
    ASSUME NEW L, NEW K, NEW w, ~w, NEW t, Sound(t), Tidy(t, L, K, w), NEW n \in Nat
    PROVE  Tidy(insert_chars(t, n), L, K, w) /\ Tidy(delete_chars(t, n), L, K, w)
<1> DEFINE cols == t.size.cols
<1>1. \A m : Line(m, L, w) = Line(m, L, FALSE)
  BY DEF Line
<1>2. /\ NoLink \in L /\ t.pen \in StyleOf(L) /\ t.cursor.col \in 0 .. cols - 1
      /\ cols \in Nat \ {0} /\ cursor_line(t) \in Line(cols, L, w)
  BY ActivePane, Limits0 DEF Tidy, last_col
<1> HIDE DEF cols
<1>3. cursor_line(t) \in Line(cols, L, FALSE)
  BY <1>1, <1>2
<1>4. /\ insert_columns(cursor_line(t), t.cursor.col, n, t.pen) \in Line(cols, L, FALSE)
      /\ delete_columns(cursor_line(t), t.cursor.col, n, t.pen) \in Line(cols, L, FALSE)
  BY <1>2, <1>3, ColumnsLine
<1>5. /\ insert_columns(cursor_line(t), t.cursor.col, n, t.pen) \in Line(cols, L, w)
      /\ delete_columns(cursor_line(t), t.cursor.col, n, t.pen) \in Line(cols, L, w)
  BY <1>1, <1>4
<1>6. \A r \in Line(cols, L, w) : Tidy(with_cursor_line(t, r), L, K, w)
  BY ActivePane, DrawTidy DEF with_cursor_line, cols
<1> QED
  BY <1>5, <1>6 DEF insert_chars, delete_chars

LEMMA LinesTidy ==
    ASSUME NEW L, NEW K, NEW w, NEW t, Sound(t), Tidy(t, L, K, w), NEW n \in Nat
    PROVE  /\ Tidy(insert_rows(t, n), L, K, w) /\ Tidy(delete_rows(t, n), L, K, w)
           /\ Tidy(scroll_down_screen(t, n), L, K, w)
<1> DEFINE s == active(t)
           a == t.size.rows
           b == t.size.cols
<1>1. /\ s \in Pane(a, b, L, w) /\ NoLink \in L /\ t.pen \in StyleOf(L)
      /\ a \in Nat \ {0} /\ b \in Nat \ {0} /\ t.cursor.row \in 0 .. a - 1
      /\ t.scroll_top \in 0 .. a - 1 /\ t.scroll_bottom \in 0 .. a - 1
  BY ActivePane, Limits0 DEF Tidy, last_row
<1>2. \A screen \in Pane(a, b, L, w) : Tidy(with_active(t, screen), L, K, w)
  BY DrawTidy
<1> HIDE DEF s, a, b
<1>3. /\ insert_lines(s, t.cursor.row, n, t.scroll_top, t.scroll_bottom, t.pen)
             \in Pane(a, b, L, w)
      /\ delete_lines(s, t.cursor.row, n, t.scroll_top, t.scroll_bottom, t.pen)
             \in Pane(a, b, L, w)
      /\ scroll_down(s, n, t.scroll_top, t.scroll_bottom, t.pen) \in Pane(a, b, L, w)
  BY <1>1, LinesPane
<1> QED
  BY <1>2, <1>3 DEF insert_rows, delete_rows, scroll_down_screen, s

LEMMA SetScrollRegionTidy ==
    ASSUME NEW L, NEW K, NEW w, NEW t, Sound(t), Tidy(t, L, K, w),
           NEW top \in Nat, NEW bottom \in Nat
    PROVE  Tidy(set_scroll_region(t, top, bottom), L, K, w)
<1> DEFINE v == [t EXCEPT !.scroll_top = Monus(top, 1), !.scroll_bottom = Monus(bottom, 1)]
<1>1. (\A f \in Fields \ Position : v[f] = t[f]) /\ Shape(v)
  BY DEF Sound, Shape, Fields, Position
<1> HIDE DEF v
<1>2. \A u \in {t, v} : Shape(u) /\ Tidy(u, L, K, w)
  BY <1>1, TidyFrame DEF Sound
<1>3. ASSUME NEW u \in {t, v}, NEW row PROVE Tidy(at(u, row, 0), L, K, w)
  <2>1. /\ \A f \in Fields \ (Position \cup {"wrap_pending"}) : at(u, row, 0)[f] = u[f]
        /\ at(u, row, 0).wrap_pending = FALSE
    BY <1>2 DEF at, Shape, Fields, Position
  <2> QED
    BY <1>2, <2>1, TidyWrap
<1> QED
  BY <1>3 DEF set_scroll_region, v

ModesOf(w) == {modes \in [on : SUBSET BoolMode, mouse : MouseReporting] :
                  w => "insert" \notin modes.on}

Small == {"pen", "modes", "replies", "hyperlink_counter"}

LEMMA TidySmall ==
    ASSUME NEW L, NEW K, NEW w, NEW t, Tidy(t, L, K, w), NEW u,
           \A f \in Fields \ (Position \cup Small) : u[f] = t[f],
           u.pen \in StyleOf(L), u.modes \in ModesOf(w), u.replies \in Nat,
           u.hyperlink_counter \in 1 .. IdMax
    PROVE  Tidy(u, L, K, w)
<1>1. /\ u.size = t.size /\ u.primary = t.primary /\ u.alternate = t.alternate
      /\ u.saved = t.saved /\ u.scrollback = t.scrollback
      /\ u.scrollback_cells = t.scrollback_cells /\ u.on_alternate = t.on_alternate
      /\ u.wrap_pending = t.wrap_pending /\ u.events = t.events
  BY DEF Fields, Position, Small
<1>2. /\ u.modes \in [on : SUBSET BoolMode, mouse : MouseReporting]
      /\ w => "insert" \notin u.modes.on
  BY DEF ModesOf
<1> QED
  BY <1>1, <1>2, Zenon DEF Tidy

LEMMA SmallParts ==
    ASSUME NEW L, NEW K, NEW w, NEW t, Tidy(t, L, K, w)
    PROVE  /\ t.pen \in StyleOf(L) /\ t.modes \in ModesOf(w) /\ t.replies \in Nat
           /\ t.hyperlink_counter \in 1 .. IdMax /\ NoLink \in L
BY DEF Tidy, ModesOf

LEMMA SetModeTidy ==
    ASSUME NEW L, NEW K, NEW w, NEW t, Sound(t), Tidy(t, L, K, w), NEW enable,
           NEW mode \in BoolMode, w => mode # "insert"
    PROVE  Tidy(set_mode(t, mode, enable), L, K, w)
<1> DEFINE on == IF enable THEN t.modes.on \cup {mode} ELSE t.modes.on \ {mode}
           u == with_mode(t, mode, enable)
<1>1. /\ \A f \in Fields \ {"modes"} : u[f] = t[f]
      /\ u.modes = [t.modes EXCEPT !.on = on] /\ Shape(u)
  BY DEF Sound, Shape, Fields, with_mode
<1>2. t.modes \in ModesOf(w)
  BY SmallParts
<1>3. on \in SUBSET BoolMode /\ (w => "insert" \notin on)
  BY <1>2 DEF ModesOf
<1> HIDE DEF on
<1>4. [t.modes EXCEPT !.on = on] \in ModesOf(w)
  BY <1>2, <1>3 DEF ModesOf
<1>5. \A f \in Fields \ (Position \cup Small) : u[f] = t[f]
  BY <1>1 DEF Small, Position, Fields
<1>6. u.pen = t.pen /\ u.replies = t.replies /\ u.hyperlink_counter = t.hyperlink_counter
  BY <1>1 DEF Fields
<1> HIDE DEF u
<1>7. Tidy(u, L, K, w)
  BY <1>1, <1>4, <1>5, <1>6, SmallParts, TidySmall
<1>8. Tidy(set_position(u, 1, 1), L, K, w)
  <2>1. \A row, col : Tidy(at(u, row, col), L, K, w)
    <3> TAKE row, col
    <3>1. /\ \A f \in Fields \ (Position \cup {"wrap_pending"}) : at(u, row, col)[f] = u[f]
          /\ at(u, row, col).wrap_pending = FALSE
      BY <1>1 DEF at, Shape, Fields, Position
    <3> QED
      BY <1>1, <1>7, <3>1, TidyWrap
  <2> QED
    BY <2>1 DEF set_position
<1> QED
  BY <1>7, <1>8 DEF set_mode, u

LEMMA QuietTidy ==
    ASSUME NEW L, NEW K, NEW w, NEW t, Sound(t), Tidy(t, L, K, w)
    PROVE  /\ \A mouse \in MouseReporting : \A enable : Tidy(set_mouse(t, mouse, enable), L, K, w)
           /\ Tidy(primary_da(t), L, K, w) /\ \A n : Tidy(device_status(t, n), L, K, w)
           /\ Tidy(sgr_reset(t), L, K, w)
           /\ \A look \in {"plain", "bold"} : Tidy(sgr_look(t, look), L, K, w)
           /\ Tidy(osc_hyperlink_close(t), L, K, w)
<1>1. /\ t.pen \in StyleOf(L) /\ t.modes \in ModesOf(w) /\ t.replies \in Nat
      /\ t.hyperlink_counter \in 1 .. IdMax /\ NoLink \in L
  BY SmallParts
<1>2. \A mouse \in MouseReporting : \A enable : Tidy(set_mouse(t, mouse, enable), L, K, w)
  <2> TAKE mouse \in MouseReporting
  <2> TAKE enable
  <2> DEFINE m == IF enable THEN mouse ELSE "Off"
             u == set_mouse(t, mouse, enable)
  <2>1. /\ \A f \in Fields \ (Position \cup Small) : u[f] = t[f]
        /\ u.pen = t.pen /\ u.replies = t.replies /\ u.hyperlink_counter = t.hyperlink_counter
        /\ u.modes = [t.modes EXCEPT !.mouse = m]
    BY DEF Sound, Shape, Fields, Position, Small, set_mouse
  <2>2. m \in MouseReporting
    BY DEF MouseReporting
  <2> HIDE DEF u, m
  <2>3. [t.modes EXCEPT !.mouse = m] \in ModesOf(w)
    BY <1>1, <2>2 DEF ModesOf
  <2>4. Tidy(u, L, K, w)
    BY <1>1, <2>1, <2>3, TidySmall
  <2> QED
    BY <2>4 DEF u
<1>3. \A len \in Nat : Tidy(reply(t, len), L, K, w)
  <2> TAKE len \in Nat
  <2> DEFINE u == reply(t, len)
  <2>1. /\ \A f \in Fields \ (Position \cup Small) : u[f] = t[f]
        /\ u.pen = t.pen /\ u.modes = t.modes /\ u.hyperlink_counter = t.hyperlink_counter
        /\ u.replies = t.replies + len
    BY DEF Sound, Shape, Fields, Position, Small, reply
  <2> HIDE DEF u
  <2>2. u.replies \in Nat
    BY <1>1, <2>1
  <2>3. Tidy(u, L, K, w)
    BY <1>1, <2>1, <2>2, TidySmall
  <2> QED
    BY <2>3 DEF u
<1>4. Tidy(primary_da(t), L, K, w) /\ \A n : Tidy(device_status(t, n), L, K, w)
  <2>1. cpr_len(t) \in Nat
    BY DEF cpr_len, Digits
  <2> QED
    BY <1>3, <2>1 DEF primary_da, device_status
<1>5. \A pen \in StyleOf(L) : Tidy([t EXCEPT !.pen = pen], L, K, w)
  <2> TAKE pen \in StyleOf(L)
  <2> DEFINE u == [t EXCEPT !.pen = pen]
  <2>1. /\ \A f \in Fields \ (Position \cup Small) : u[f] = t[f]
        /\ u.pen = pen /\ u.modes = t.modes /\ u.hyperlink_counter = t.hyperlink_counter
        /\ u.replies = t.replies
    BY DEF Sound, Shape, Fields, Position, Small
  <2> HIDE DEF u
  <2>2. Tidy(u, L, K, w)
    BY <1>1, <2>1, TidySmall
  <2> QED
    BY <2>2 DEF u
<1>6. /\ DefaultStyle \in StyleOf(L)
      /\ \A look \in {"plain", "bold"} : [t.pen EXCEPT !.look = look] \in StyleOf(L)
      /\ [t.pen EXCEPT !.link = NoLink] \in StyleOf(L)
  BY <1>1 DEF StyleOf, DefaultStyle
<1>7. /\ sgr_reset(t) = [t EXCEPT !.pen = DefaultStyle]
      /\ \A look : sgr_look(t, look) = [t EXCEPT !.pen = [t.pen EXCEPT !.look = look]]
      /\ osc_hyperlink_close(t) = [t EXCEPT !.pen = [t.pen EXCEPT !.link = NoLink]]
  BY DEF sgr_reset, sgr_look, osc_hyperlink_close, Sound, Shape, Fields
<1>8. /\ Tidy(sgr_reset(t), L, K, w)
      /\ \A look \in {"plain", "bold"} : Tidy(sgr_look(t, look), L, K, w)
      /\ Tidy(osc_hyperlink_close(t), L, K, w)
  BY <1>5, <1>6, <1>7
<1> QED
  BY <1>2, <1>4, <1>8

LEMMA OscTidy ==
    ASSUME NEW L, NEW K, NEW w, NEW t, Sound(t), Tidy(t, L, K, w)
    PROVE  /\ Tidy(ring_bell(t), L, K, w) /\ Tidy(osc_request(t), L, K, w)
           /\ \A title : Tidy(osc_title(t, title), L, K, w)
<1>1. RequestReceived \in Payload
  BY DEF RequestReceived, Payload
<1>2. \A title : Tidy(osc_title(t, title), L, K, w)
  <2> TAKE title
  <2> DEFINE u == [t EXCEPT !.title = title]
  <2>1. (\A f \in Fields \ Position : u[f] = t[f]) /\ Shape(u)
    BY DEF Sound, Shape, Fields, Position
  <2> HIDE DEF u
  <2>2. Tidy(u, L, K, w)
    BY <2>1, TidyFrame
  <2>3. Tidy(report(u, "title_updated"), L, K, w)
    BY <2>1, <2>2, ReportTidy DEF Flag
  <2> QED
    BY <2>3 DEF osc_title, u
<1> QED
  BY <1>1, <1>2, OfferTidy DEF ring_bell, osc_request, Sound

(* A hyperlink is announced in the step that makes the pen carry it. *)
LEMMA HyperlinkTidy ==
    ASSUME NEW L, NEW K, NEW w, NEW t, Sound(t), Tidy(t, L, K, w)
    PROVE  Tidy(osc_hyperlink_open(t), L \cup {t.hyperlink_counter}, K, w)
<1> DEFINE id == t.hyperlink_counter
           payload == HyperlinkAdded(id)
           next == IF id = IdMax THEN 1 ELSE id + 1
           pen == [t.pen EXCEPT !.link = id]
           a == offer(t, payload)
           u == [a EXCEPT !.hyperlink_counter = next, !.pen = pen]
           M == L \cup {id}
<1>1. /\ t.pen \in StyleOf(L) /\ t.modes \in ModesOf(w) /\ t.replies \in Nat
      /\ id \in 1 .. IdMax /\ NoLink \in L
  BY SmallParts
<1>2. payload \in Payload /\ payload.id = id
  BY <1>1 DEF Payload, HyperlinkAdded
<1>3. Tidy(a, M, K, w)
  <2> HIDE DEF a, payload
  <2> QED
    BY <1>2, OfferTidy DEF a, Sound
<1>4. a.modes = t.modes /\ a.replies = t.replies /\ Shape(a)
  BY DEF Sound, Shape, Fields, offer
<1>5. /\ \A f \in Fields \ (Position \cup Small) : u[f] = a[f]
      /\ u.pen = pen /\ u.modes = a.modes /\ u.hyperlink_counter = next
      /\ u.replies = a.replies
  BY <1>4 DEF Shape, Fields, Position, Small
<1>6. next \in 1 .. IdMax
  BY <1>1, TerminalAssumption
<1>7. pen \in StyleOf(M)
  BY <1>1 DEF StyleOf
<1>8. u = osc_hyperlink_open(t)
  BY DEF osc_hyperlink_open, offer, Sound, Shape, Fields
<1> HIDE DEF u, a, next, pen, M
<1>9. Tidy(u, M, K, w)
  BY <1>1, <1>3, <1>4, <1>5, <1>6, <1>7, TidySmall
<1> QED
  BY <1>8, <1>9 DEF M

-----------------------------------------------------------------------------
(* So do a switch of the screens, a reset, the end of a feed and a resize.    *)

LEMMA SetAlternateTidy ==
    ASSUME NEW L, NEW K, NEW w, NEW t, Sound(t), Tidy(t, L, K, w), NEW enable,
           NEW clear_on_enter
    PROVE  Tidy(set_alternate(t, enable, clear_on_enter), L, K, w)
<1>1. ASSUME NEW a, Sound(a), Tidy(a, L, K, w) PROVE Tidy(clear_alternate(a), L, K, w)
  <2> DEFINE u == [a EXCEPT !.alternate = clear_all(@, DefaultStyle),
                            !.scroll_top = 0, !.scroll_bottom = last_row(a)]
  <2>1. /\ \A f \in Fields \ (Position \cup {"alternate"}) : u[f] = a[f]
        /\ u.alternate = clear_all(a.alternate, DefaultStyle) /\ Shape(u)
    BY <1>1 DEF Sound, Shape, Fields, Position
  <2>2. u.alternate \in Pane(a.size.rows, a.size.cols, L, w)
    <3>1. /\ a.alternate \in Pane(a.size.rows, a.size.cols, L, w) /\ NoLink \in L
          /\ a.size.rows \in Nat \ {0} /\ a.size.cols \in Nat
      BY <1>1 DEF Tidy, Sound, Size
    <3>2. clear_all(a.alternate, DefaultStyle) \in Pane(a.size.rows, a.size.cols, L, w)
      BY <3>1, BlankPane
    <3> QED
      BY <2>1, <3>2
  <2> HIDE DEF u
  <2>3. /\ u.size = a.size /\ u.primary = a.primary
        /\ u.pen = a.pen /\ u.saved = a.saved /\ u.on_alternate = a.on_alternate
        /\ u.scrollback = a.scrollback /\ u.scrollback_cells = a.scrollback_cells
        /\ u.wrap_pending = a.wrap_pending /\ u.modes = a.modes
        /\ u.hyperlink_counter = a.hyperlink_counter /\ u.replies = a.replies
        /\ u.events = a.events
    BY <2>1 DEF Fields, Position
  <2>4. Tidy(u, L, K, w)
    BY <1>1, <2>2, <2>3, Zenon DEF Tidy
  <2>5. /\ \A f \in Fields \ (Position \cup {"wrap_pending"}) : at(u, 0, 0)[f] = u[f]
        /\ at(u, 0, 0).wrap_pending = FALSE
    BY <2>1 DEF at, Shape, Fields, Position
  <2>6. Tidy(at(u, 0, 0), L, K, w)
    BY <2>1, <2>4, <2>5, TidyWrap
  <2> QED
    BY <2>6 DEF clear_alternate, u
<1>2. Sound(enter_alternate(t)) /\ Tidy(enter_alternate(t), L, K, w)
  BY EnterAlternateSound, SaveTidy
<1>3. Tidy(restore_cursor([t EXCEPT !.on_alternate = FALSE]), L, K, w)
  <2> DEFINE u == [t EXCEPT !.on_alternate = FALSE]
  <2>1. Tidy(u, L, K, w)
    BY RestoreTidy
  <2>2. Same(t, u)
    BY DEF Same, Sound, Shape, Fields
  <2>3. Sound(u)
    BY <2>2, SoundFrame
  <2> HIDE DEF u
  <2>4. Tidy(restore_cursor(u), L, K, w)
    BY <2>1, <2>3, RestoreTidy
  <2> QED
    BY <2>4 DEF u
<1> QED
  BY <1>1, <1>2, <1>3 DEF set_alternate

LEMMA NewTidy ==
    ASSUME NEW K, NEW w, NEW size \in Size
    PROVE  Tidy(new(size), {NoLink}, K, w)
<1> DEFINE u == new(size)
           L == {NoLink}
<1>1. NoLink \in L /\ size.rows \in Nat \ {0} /\ size.cols \in Nat
  BY DEF Size
<1>2. DefaultStyle \in StyleOf(L)
  BY <1>1, BlankCell
<1>3. blank_screen(size.rows, size.cols) \in Pane(size.rows, size.cols, L, w)
  BY <1>1, BlankPane
<1>4. DefaultSaved \in [cursor : [row : Nat, col : Nat], pen : StyleOf(L),
                        wrap_pending : BOOLEAN, origin : BOOLEAN]
  BY <1>2 DEF DefaultSaved, Home
<1>5. /\ DefaultModes \in [on : SUBSET BoolMode, mouse : MouseReporting]
      /\ "insert" \notin DefaultModes.on
  BY DEF DefaultModes, BoolMode, MouseReporting
<1>6. NoEvents \in Events
  BY DEF NoEvents, Events
<1>7. 1 \in 1 .. IdMax
  BY TerminalAssumption
<1>8. <<>> \in Seq(Retained(L, w)) /\ CellCount(<<>>) = 0
  BY CountNothing
<1>9. /\ u.size = size /\ u.primary = blank_screen(size.rows, size.cols)
      /\ u.alternate = blank_screen(size.rows, size.cols)
      /\ u.pen = DefaultStyle /\ u.saved = DefaultSaved /\ u.on_alternate = FALSE
      /\ u.scrollback = <<>> /\ u.scrollback_cells = 0
      /\ u.wrap_pending = FALSE /\ u.modes = DefaultModes
      /\ u.hyperlink_counter = 1 /\ u.replies = 0 /\ u.events = NoEvents
  BY DEF new
<1>10. L \subseteq K \cup {NoLink} \cup Ids(u.events.payload)
  OBVIOUS
<1> HIDE DEF u, L
<1>11. 0 \in Nat /\ FALSE \in BOOLEAN
  OBVIOUS
<1>12. Tidy(u, L, K, w)
  BY <1>1, <1>2, <1>3, <1>4, <1>5, <1>6, <1>7, <1>8, <1>9, <1>10, <1>11, Zenon DEF Tidy
<1> QED
  BY <1>12 DEF u, L

(* After RIS no hyperlink is in use, so none of them need be announced. *)
LEMMA ResetTidy ==
    ASSUME NEW L, NEW K, NEW w, NEW t, Sound(t), Tidy(t, L, K, w)
    PROVE  Tidy(reset_child_state(t), {NoLink}, K, w)
<1> DEFINE a == new(t.size)
           M == {NoLink}
           u == [a EXCEPT !.primary = mark_dirty(@), !.replies = t.replies,
                          !.hyperlink_counter = t.hyperlink_counter,
                          !.events = clear_requests(t.events)]
<1>1. Tidy(a, M, K, w) /\ a.size = t.size /\ Shape(a)
  BY NewTidy, NewSound DEF Sound, new
<1> HIDE DEF a, M
<1>2. /\ \A f \in Fields \ {"primary", "replies", "hyperlink_counter", "events"} : u[f] = a[f]
      /\ u.primary = mark_dirty(a.primary) /\ u.replies = t.replies
      /\ u.hyperlink_counter = t.hyperlink_counter /\ u.events = clear_requests(t.events)
      /\ Shape(u)
  BY <1>1 DEF Shape, Fields
<1> HIDE DEF u
<1>3. t.replies \in Nat /\ t.hyperlink_counter \in 1 .. IdMax /\ t.events \in Events
  BY DEF Tidy
<1>4. u.primary \in Pane(a.size.rows, a.size.cols, M, w)
  <2>1. /\ a.primary \in Pane(a.size.rows, a.size.cols, M, w) /\ NoLink \in M
        /\ a.size.rows \in Nat \ {0} /\ a.size.cols \in Nat
    BY <1>1 DEF Tidy, Sound, Size
  <2> QED
    BY <1>2, <2>1, BlankPane
<1>5. clear_requests(t.events) \in Events
  <2>1. <<>> \in Seq(Payload)
    OBVIOUS
  <2>2. \A none \in Seq(Payload) : [t.events EXCEPT !.payload = none] \in Events
    BY <1>3 DEF Events
  <2> QED
    BY <2>1, <2>2 DEF clear_requests
<1>6. /\ u.size = a.size /\ u.alternate = a.alternate
      /\ u.pen = a.pen /\ u.saved = a.saved /\ u.on_alternate = a.on_alternate
      /\ u.scrollback = a.scrollback /\ u.scrollback_cells = a.scrollback_cells
      /\ u.wrap_pending = a.wrap_pending /\ u.modes = a.modes
  BY <1>2 DEF Fields
<1>7. NoLink \in M /\ M \subseteq K \cup {NoLink} \cup Ids(u.events.payload)
  BY DEF M
<1>8. Tidy(u, M, K, w)
  BY <1>1, <1>2, <1>3, <1>4, <1>5, <1>6, <1>7, Zenon DEF Tidy
<1>9. Tidy(report(u, "terminal_reset"), M, K, w)
  BY <1>2, <1>8, ReportTidy DEF Flag
<1> QED
  BY <1>9 DEF reset_child_state, u, a, M

LEMMA FeedEndTidy ==
    ASSUME NEW L, NEW K, NEW w, NEW t, Sound(t), Tidy(t, L, K, w), NEW snapshot
    PROVE  Tidy(feed_end(t, snapshot), L, K, w)
<1> DEFINE u == [t EXCEPT !.primary = take_dirty(@)]
<1>1. /\ \A f \in Fields \ {"primary"} : u[f] = t[f]
      /\ u.primary = take_dirty(t.primary) /\ Shape(u)
  BY DEF Sound, Shape, Fields
<1>2. take_dirty(t.primary) \in Pane(t.size.rows, t.size.cols, L, w)
  <2>1. /\ t.primary \in Pane(t.size.rows, t.size.cols, L, w) /\ NoLink \in L
        /\ t.size.rows \in Nat \ {0} /\ t.size.cols \in Nat
    BY DEF Tidy, Sound, Size
  <2> QED
    BY <2>1, BlankPane
<1> HIDE DEF u
<1>3. /\ u.size = t.size /\ u.alternate = t.alternate
      /\ u.pen = t.pen /\ u.saved = t.saved /\ u.on_alternate = t.on_alternate
      /\ u.scrollback = t.scrollback /\ u.scrollback_cells = t.scrollback_cells
      /\ u.wrap_pending = t.wrap_pending /\ u.modes = t.modes
      /\ u.hyperlink_counter = t.hyperlink_counter /\ u.replies = t.replies
      /\ u.events = t.events
  BY <1>1 DEF Fields
<1>4. Tidy(u, L, K, w)
  BY <1>1, <1>2, <1>3, Zenon DEF Tidy
<1>5. Tidy(report(u, "screen_updated"), L, K, w)
  BY <1>1, <1>4, ReportTidy DEF Flag
<1> QED
  BY <1>4, <1>5 DEF feed_end, u

LEMMA ResizeTidy ==
    ASSUME NEW L, NEW K, NEW w, NEW t, Sound(t), Tidy(t, L, K, w), NEW size \in Size
    PROVE  Tidy(resize_terminal(t, size), L, K, w)
<1> DEFINE m == t.size.rows
           n == t.size.cols
           dropped == dropped_rows(t.primary, size.rows)
           u == IF t.on_alternate THEN t ELSE push_displaced_to_scrollback(t, dropped)
           row == Least(Monus(t.cursor.row, active_shift(t, size.rows)), size.rows - 1)
           col == Least(t.cursor.col, size.cols - 1)
           v == at(u, row, col)
           x == [v EXCEPT !.size = size, !.scroll_top = 0, !.scroll_bottom = size.rows - 1,
                          !.primary = take_dirty(resize(@, size.rows, size.cols)),
                          !.alternate = resize(@, size.rows, size.cols)]
<1>1. /\ m \in Nat \ {0} /\ n \in Nat \ {0} /\ size.rows \in Nat \ {0} /\ size.cols \in Nat \ {0}
      /\ t.primary \in Pane(m, n, L, w) /\ NoLink \in L
  BY DEF Tidy, Sound, Size
<1>2. dropped \in Seq(Line(n, L, w))
  <2> DEFINE shift == row_shift(t.primary, size.rows)
             rows == t.primary.cells
  <2>1. shift \in 0 .. m
    BY <1>1, ResizePane
  <2>2. rows \in [1 .. m -> Line(n, L, w)]
    BY <1>1, PaneSize
  <2>3. rows \in Seq(Line(n, L, w)) /\ Len(rows) = m
    BY <1>1, <2>2
  <2> HIDE DEF shift, rows
  <2>4. SubSeq(rows, 1, shift) \in Seq(Line(n, L, w))
    BY <1>1, <2>1, <2>3
  <2> QED
    BY <2>4 DEF dropped_rows, shift, rows
<1> HIDE DEF dropped
<1>3. Sound(u) /\ Tidy(u, L, K, w) /\ u.size = t.size
  <2>1. Same(t, u)
    BY PushSame DEF Same, Sound
  <2>2. Tidy(u, L, K, w)
    BY <1>1, <1>2, PushTidy
  <2> HIDE DEF u
  <2> QED
    BY <2>1, <2>2, SoundFrame DEF Same
<1> HIDE DEF u, row, col
<1>4. Tidy(v, L, K, w) /\ Shape(v) /\ v.size = t.size
  <2>1. Tidy(v, L, K, w)
    BY <1>3, AtTidy
  <2>2. Shape(v) /\ v.size = u.size
    BY <1>3 DEF at, Sound, Shape, Fields
  <2> QED
    BY <1>3, <2>1, <2>2
<1> HIDE DEF v
<1>5. /\ \A f \in Fields \ (Position \cup {"size", "primary", "alternate"}) : x[f] = v[f]
      /\ x.size = size /\ Shape(x)
      /\ x.primary = take_dirty(resize(v.primary, size.rows, size.cols))
      /\ x.alternate = resize(v.alternate, size.rows, size.cols)
  BY <1>4 DEF Shape, Fields, Position
<1> HIDE DEF x
<1>6. /\ x.primary \in Pane(size.rows, size.cols, L, w)
      /\ x.alternate \in Pane(size.rows, size.cols, L, w)
  <2>1. v.primary \in Pane(m, n, L, w) /\ v.alternate \in Pane(m, n, L, w)
    BY <1>4 DEF Tidy
  <2> HIDE DEF m, n
  <2>2. /\ resize(v.primary, size.rows, size.cols) \in Pane(size.rows, size.cols, L, w)
        /\ resize(v.alternate, size.rows, size.cols) \in Pane(size.rows, size.cols, L, w)
    BY <1>1, <2>1, ResizePane
  <2>3. take_dirty(resize(v.primary, size.rows, size.cols))
             \in Pane(size.rows, size.cols, L, w)
    BY <1>1, <2>2, BlankPane
  <2> QED
    BY <1>5, <2>2, <2>3
<1>7. /\ x.pen = v.pen /\ x.saved = v.saved /\ x.on_alternate = v.on_alternate
      /\ x.scrollback = v.scrollback /\ x.scrollback_cells = v.scrollback_cells
      /\ x.wrap_pending = v.wrap_pending /\ x.modes = v.modes
      /\ x.hyperlink_counter = v.hyperlink_counter /\ x.replies = v.replies
      /\ x.events = v.events
  BY <1>5 DEF Fields, Position
<1>8. Tidy(x, L, K, w)
  BY <1>4, <1>5, <1>6, <1>7, Zenon DEF Tidy
<1>9. Tidy(repair_cursor_cell(x), L, K, w)
  BY <1>5, <1>8, RepairTidy
<1>10. Shape(repair_cursor_cell(x))
  BY <1>5 DEF repair_cursor_cell, Shape, Fields
<1>11. Tidy(report(repair_cursor_cell(x), "screen_updated"), L, K, w)
  BY <1>9, <1>10, ReportTidy DEF Flag
<1> QED
  BY <1>11 DEF resize_terminal, u, v, x, row, col, dropped

-----------------------------------------------------------------------------
(* So does the caller: trimming, draining the events, writing replies.        *)

LEMMA ExcessInside ==
    ASSUME NEW t, NEW R, t.scrollback \in Seq(R), NEW lines, NEW cells, 0 \notin {lines, cells}
    PROVE  excess(t, lines, cells) \in 0 .. Len(t.scrollback)
<1> DEFINE size == Len(t.scrollback)
           enough(n) == \/ n = size
                        \/ /\ size - n <= lines
                           /\ Monus(t.scrollback_cells, CellCount(SubSeq(t.scrollback, 1, n)))
                                  <= cells
           S == {n \in 0 .. size : enough(n)}
<1>1. size \in Nat
  OBVIOUS
<1> HIDE DEF size
<1>2. S \in SUBSET Nat /\ size \in S
  BY <1>1
<1>3. PICK n \in S : \A m \in 0 .. n - 1 : m \notin S
  <2> HIDE DEF S
  <2> QED
    BY <1>2, LeastNat
<1>4. n \in 0 .. size /\ enough(n) /\ \A m \in 0 .. n - 1 : ~enough(m)
  <2>1. n \in 0 .. size /\ \A m \in 0 .. n - 1 : m \in 0 .. size
    BY <1>1
  <2> HIDE DEF enough
  <2> QED
    BY <1>3, <2>1
<1> HIDE DEF enough
<1>5. excess(t, lines, cells)
          = CHOOSE k \in 0 .. size : enough(k) /\ \A m \in 0 .. k - 1 : ~enough(m)
  BY DEF excess, enough, size
<1> QED
  BY <1>4, <1>5 DEF size

LEMMA TrimTidy ==
    ASSUME NEW L, NEW K, NEW w, NEW t, Sound(t), Tidy(t, L, K, w), NEW lines, NEW cells
    PROVE  Tidy(trim_scrollback(t, lines, cells), L, K, w)
<1>1. Tidy(erase_saved_lines(t), L, K, w)
  BY EraseSavedTidy DEF Sound
<1>2. ASSUME 0 \notin {lines, cells}
      PROVE  Tidy(drop_lines(t, excess(t, lines, cells)), L, K, w)
  <2> DEFINE n == excess(t, lines, cells)
             u == drop_lines(t, n)
  <2>1. t.scrollback \in Seq(Retained(L, w)) /\ t.scrollback_cells = CellCount(t.scrollback)
    BY DEF Tidy
  <2>2. n \in 0 .. Len(t.scrollback)
    BY <1>2, <2>1, ExcessInside
  <2> HIDE DEF n
  <2>3. /\ \A f \in Fields \ {"scrollback", "scrollback_cells"} : u[f] = t[f]
        /\ u.scrollback = SubSeq(t.scrollback, n + 1, Len(t.scrollback))
        /\ u.scrollback_cells
               = Monus(t.scrollback_cells, CellCount(SubSeq(t.scrollback, 1, n)))
    BY DEF Sound, Shape, Fields, drop_lines
  <2> HIDE DEF u
  <2>4. /\ u.scrollback \in Seq(Retained(L, w))
        /\ u.scrollback_cells = CellCount(u.scrollback)
    BY <2>1, <2>2, <2>3, RetainedLine, CountDropped
  <2>5. /\ u.size = t.size /\ u.primary = t.primary /\ u.alternate = t.alternate
        /\ u.pen = t.pen /\ u.saved = t.saved /\ u.on_alternate = t.on_alternate
        /\ u.wrap_pending = t.wrap_pending /\ u.modes = t.modes
        /\ u.hyperlink_counter = t.hyperlink_counter /\ u.replies = t.replies
        /\ u.events = t.events
    BY <2>3 DEF Fields
  <2>6. Tidy(u, L, K, w)
    BY <2>4, <2>5, Zenon DEF Tidy
  <2> QED
    BY <2>6 DEF u, n
<1> QED
  BY <1>1, <1>2 DEF trim_scrollback

(* A hyperlink whose announcement is drained is known from then on. *)
LEMMA DequeueTidy ==
    ASSUME NEW L, NEW K, NEW w, NEW t, Sound(t), Tidy(t, L, K, w), Pending(t.events),
           NEW J, K \subseteq J, next_event(t.events).id \in J \cup {NoLink}
    PROVE  Tidy([t EXCEPT !.events = after_next(@)], L, J, w)
<1> DEFINE events == t.events
           u == [t EXCEPT !.events = after_next(@)]
<1>1. (\A f \in Fields \ {"events"} : u[f] = t[f]) /\ u.events = after_next(events)
  BY DEF Sound, Shape, Fields
<1>2. events \in Events /\ NoLink \in L /\ L \subseteq K \cup {NoLink} \cup Ids(events.payload)
  BY DEF Tidy
<1>3. after_next(events) \in Events
  <2>1. /\ events = [flags |-> events.flags, payload |-> events.payload]
        /\ events.flags \in SUBSET Flag /\ events.payload \in Seq(Payload)
    BY <1>2 DEF Events
  <2>2. \A flags \in SUBSET Flag, payload \in Seq(Payload) :
            [flags |-> flags, payload |-> payload] \in Events
    BY DEF Events
  <2>3. CASE events.flags # {}
    <3> DEFINE rest == events.flags \ {next_flag(events)}
    <3>1. after_next(events) = [events EXCEPT !.flags = rest]
      BY <2>3, Zenon DEF after_next
    <3>2. rest \in SUBSET Flag
      BY <2>1
    <3> HIDE DEF rest, events
    <3>3. after_next(events) = [flags |-> rest, payload |-> events.payload]
      BY <2>1, <3>1
    <3> QED
      BY <2>1, <2>2, <3>2, <3>3, Zenon
  <2>4. CASE events.flags = {}
    <3> DEFINE rest == Tail(events.payload)
    <3>1. after_next(events) = [events EXCEPT !.payload = rest]
      BY <2>4 DEF after_next
    <3>2. rest \in Seq(Payload)
      <4>1. events.payload # <<>>
        BY <2>4 DEF Pending
      <4> QED
        BY <2>1, <4>1
    <3> HIDE DEF rest, events
    <3>3. after_next(events) = [flags |-> events.flags, payload |-> rest]
      BY <2>1, <3>1
    <3> QED
      BY <2>1, <2>2, <3>2, <3>3, Zenon
  <2> QED
    BY <2>3, <2>4
<1>4. Ids(events.payload) \subseteq Ids(after_next(events).payload) \cup J \cup {NoLink}
  <2>1. CASE events.flags # {}
    BY <2>1 DEF after_next
  <2>2. CASE events.flags = {}
    <3> DEFINE s == events.payload
    <3>1. s \in Seq(Payload) /\ s # <<>>
      BY <1>2, <2>2 DEF Events, Pending
    <3>2. after_next(events).payload = Tail(s) /\ Head(s).id \in J \cup {NoLink}
      BY <1>2, <2>2 DEF after_next, next_event, Events
    <3> HIDE DEF s
    <3>3. ASSUME NEW i \in DOMAIN s
          PROVE  s[i] = Head(s) \/ \E j \in DOMAIN Tail(s) : Tail(s)[j] = s[i]
      <4>1. i = 1 \/ (i - 1 \in DOMAIN Tail(s) /\ Tail(s)[i - 1] = s[i])
        BY <3>1
      <4> QED
        BY <3>1, <4>1
    <3>4. Ids(s) \subseteq Ids(Tail(s)) \cup {Head(s).id}
      BY <3>3 DEF Ids
    <3> QED
      BY <3>2, <3>4 DEF s
  <2> QED
    BY <2>1, <2>2
<1> HIDE DEF u, events
<1>5. L \subseteq J \cup {NoLink} \cup Ids(u.events.payload)
  BY <1>1, <1>2, <1>4
<1>6. /\ u.size = t.size /\ u.primary = t.primary /\ u.alternate = t.alternate
      /\ u.pen = t.pen /\ u.saved = t.saved /\ u.on_alternate = t.on_alternate
      /\ u.scrollback = t.scrollback /\ u.scrollback_cells = t.scrollback_cells
      /\ u.wrap_pending = t.wrap_pending /\ u.modes = t.modes
      /\ u.hyperlink_counter = t.hyperlink_counter /\ u.replies = t.replies
  BY <1>1 DEF Fields
<1>7. u.events \in Events
  BY <1>1, <1>3
<1>8. Tidy(u, L, J, w)
  BY <1>2, <1>5, <1>6, <1>7, Zenon DEF Tidy
<1> QED
  BY <1>8 DEF u

LEMMA RepliesTidy ==
    ASSUME NEW L, NEW K, NEW w, NEW t, Sound(t), Tidy(t, L, K, w), NEW n \in 1 .. t.replies
    PROVE  Tidy([t EXCEPT !.replies = @ - n], L, K, w)
<1> DEFINE u == [t EXCEPT !.replies = @ - n]
<1>1. /\ \A f \in Fields \ (Position \cup Small) : u[f] = t[f]
      /\ u.pen = t.pen /\ u.modes = t.modes /\ u.hyperlink_counter = t.hyperlink_counter
      /\ u.replies = t.replies - n
  BY DEF Sound, Shape, Fields, Position, Small
<1>2. t.replies - n \in Nat
  BY SmallParts
<1> HIDE DEF u
<1>3. Tidy(u, L, K, w)
  BY <1>1, <1>2, SmallParts, TidySmall
<1> QED
  BY <1>3 DEF u

-----------------------------------------------------------------------------
(* Every step keeps it.                                                       *)

(* ICH, DCH and insert mode can separate the halves of a wide glyph. *)
Cutting == {"ICH", "DCH", "insert"}

LEMMA MoveTidyStep ==
    ASSUME NEW L, NEW K, NEW w, Sound(term), Tidy(term, L, K, w),
           \/ PrintChar \/ Backspace \/ HorizontalTab \/ LineFeed \/ CarriageReturn
           \/ SaveCursor \/ RestoreCursor \/ NextLine \/ ReverseIndex
           \/ CursorUp \/ CursorDown \/ CursorForward \/ CursorBackward
           \/ CursorNextLine \/ CursorPreviousLine \/ SetCol \/ SetRow \/ SetPosition
    PROVE  Tidy(term', L, K, w)
<1>1. CASE \/ PrintChar \/ Backspace \/ HorizontalTab \/ LineFeed \/ CarriageReturn
           \/ SaveCursor \/ RestoreCursor \/ NextLine \/ ReverseIndex
  <2>1. \/ \E ch \in Narrow \cup Wide : term' = print_char(term, ch)
        \/ term' \in {backspace(term), horizontal_tab(term), line_feed(term),
                      carriage_return(term), save_cursor(term), restore_cursor(term),
                      next_line(term), reverse_index(term)}
    BY <1>1
    DEF Handle, PrintChar, Backspace, HorizontalTab, LineFeed, CarriageReturn,
        SaveCursor, RestoreCursor, NextLine, ReverseIndex
  <2>2. \A ch \in Narrow \cup Wide : Tidy(print_char(term, ch), L, K, w)
    BY PrintTidy
  <2>3. /\ Tidy(backspace(term), L, K, w) /\ Tidy(horizontal_tab(term), L, K, w)
        /\ Tidy(line_feed(term), L, K, w) /\ Tidy(reverse_index(term), L, K, w)
        /\ Tidy(carriage_return(term), L, K, w) /\ Tidy(next_line(term), L, K, w)
    BY MovesTidy, LineFeedTidy, NextLineTidy, ReverseIndexTidy
  <2>4. Tidy(save_cursor(term), L, K, w) /\ Tidy(restore_cursor(term), L, K, w)
    BY SaveTidy, RestoreTidy
  <2> QED
    BY <2>1, <2>2, <2>3, <2>4
<1>2. CASE \/ CursorUp \/ CursorDown \/ CursorForward \/ CursorBackward
           \/ CursorNextLine \/ CursorPreviousLine \/ SetCol \/ SetRow \/ SetPosition
  BY <1>2, MovesTidy, FirstColTidy
  DEF Handle, CursorUp, CursorDown, CursorForward, CursorBackward, CursorNextLine,
      CursorPreviousLine, SetCol, SetRow, SetPosition
<1> QED
  BY <1>1, <1>2

LEMMA EditTidyStep ==
    ASSUME NEW L, NEW K, NEW w, Sound(term), Tidy(term, L, K, w),
           w => Cutting \cap repertoire = {},
           \/ EraseDisplay \/ EraseLine \/ EraseChars \/ InsertChars \/ DeleteChars
           \/ InsertLines \/ DeleteLines \/ ScrollUp \/ ScrollDown \/ SetScrollRegion
    PROVE  Tidy(term', L, K, w)
<1>1. \A n \in Params : n \in Nat /\ param_or(n, 1) \in Nat
                        /\ param_or(n, term.size.rows) \in Nat
  BY ParamIsNumber DEF Sound, Size
<1>2. CASE EraseDisplay \/ EraseLine \/ EraseChars
  BY <1>1, <1>2, EraseTidy DEF Handle, EraseDisplay, EraseLine, EraseChars
<1>3. CASE InsertChars \/ DeleteChars
  <2>1. ~w
    BY <1>3 DEF Cutting, Handle, InsertChars, DeleteChars
  <2> QED
    BY <1>1, <1>3, <2>1, ColumnsTidy DEF Handle, InsertChars, DeleteChars
<1>4. CASE InsertLines \/ DeleteLines \/ ScrollUp \/ ScrollDown
  BY <1>1, <1>4, LinesTidy, ScrollUpTidy
  DEF Handle, InsertLines, DeleteLines, ScrollUp, ScrollDown
<1>5. CASE SetScrollRegion
  BY <1>1, <1>5, SetScrollRegionTidy DEF Handle, SetScrollRegion
<1> QED
  BY <1>2, <1>3, <1>4, <1>5

LEMMA ModeTidyStep ==
    ASSUME NEW L, NEW K, NEW w, Sound(term), Tidy(term, L, K, w),
           w => Cutting \cap repertoire = {},
           \/ SetMode \/ SetMouse \/ SetAlternate \/ DeviceStatus \/ PrimaryDa
           \/ SgrReset \/ SgrLook \/ OscTitle \/ OscRequest \/ OscHyperlink \/ RingBell
    PROVE  \E M : Tidy(term', M, K, w)
<1>1. CASE SetMode
  <2>1. PICK mode \in BoolMode, enable \in BOOLEAN :
            mode \in repertoire /\ term' = set_mode(term, mode, enable)
    BY <1>1 DEF Handle, SetMode
  <2>2. w => mode # "insert"
    BY <2>1 DEF Cutting
  <2>3. Tidy(set_mode(term, mode, enable), L, K, w)
    BY <2>2, SetModeTidy
  <2> QED
    BY <2>1, <2>3
<1>2. CASE SetAlternate
  BY <1>2, SetAlternateTidy DEF Handle, SetAlternate
<1>3. CASE \/ SetMouse \/ DeviceStatus \/ PrimaryDa \/ SgrReset \/ SgrLook
  <2>1. \/ \E mouse \in MouseReporting : \E enable : term' = set_mouse(term, mouse, enable)
        \/ \E n : term' = device_status(term, n)
        \/ \E look \in {"plain", "bold"} : term' = sgr_look(term, look)
        \/ term' \in {primary_da(term), sgr_reset(term)}
    BY <1>3 DEF Handle, SetMouse, DeviceStatus, PrimaryDa, SgrReset, SgrLook
  <2>2. /\ \A mouse \in MouseReporting : \A enable : Tidy(set_mouse(term, mouse, enable), L, K, w)
        /\ \A n : Tidy(device_status(term, n), L, K, w)
        /\ \A look \in {"plain", "bold"} : Tidy(sgr_look(term, look), L, K, w)
        /\ Tidy(primary_da(term), L, K, w) /\ Tidy(sgr_reset(term), L, K, w)
    BY QuietTidy
  <2> QED
    BY <2>1, <2>2
<1>4. CASE OscTitle \/ OscRequest \/ RingBell
  BY <1>4, OscTidy DEF Handle, OscTitle, OscRequest, RingBell
<1>5. CASE OscHyperlink
  <2>1. term' \in {osc_hyperlink_open(term), osc_hyperlink_close(term)}
    BY <1>5 DEF Handle, OscHyperlink
  <2>2. Tidy(osc_hyperlink_open(term), L \cup {term.hyperlink_counter}, K, w)
    BY HyperlinkTidy
  <2>3. Tidy(osc_hyperlink_close(term), L, K, w)
    BY QuietTidy
  <2> QED
    BY <2>1, <2>2, <2>3
<1> QED
  BY <1>1, <1>2, <1>3, <1>4, <1>5

LEMMA TidyStep ==
    ASSUME NEW L, NEW K, NEW w, Sound(term), Tidy(term, L, K, w),
           w => Cutting \cap repertoire = {},
           NEW J, K \subseteq J,
           DequeueEvent => next_event(term.events).id \in J \cup {NoLink},
           [Next]_vars
    PROVE  \E M : Tidy(term', M, J, w)
<1>1. ASSUME NEW M, Tidy(term', M, K, w) PROVE Tidy(term', M, J, w)
  <2>1. M \subseteq J \cup {NoLink} \cup Ids(term'.events.payload)
    BY <1>1 DEF Tidy
  <2> QED
    BY <1>1, <2>1, TidyMore
<1>2. SUFFICES ASSUME ~DequeueEvent PROVE \E M : Tidy(term', M, K, w)
  <2>1. CASE DequeueEvent
    <3>1. /\ Pending(term.events) /\ next_event(term.events).id \in J \cup {NoLink}
          /\ term' = [term EXCEPT !.events = after_next(@)]
      BY <2>1 DEF DequeueEvent
    <3> QED
      BY <3>1, DequeueTidy
  <2> QED
    BY <1>1, <2>1
<1>3. CASE \/ PrintChar \/ Backspace \/ HorizontalTab \/ LineFeed \/ CarriageReturn
           \/ SaveCursor \/ RestoreCursor \/ NextLine \/ ReverseIndex
           \/ CursorUp \/ CursorDown \/ CursorForward \/ CursorBackward
           \/ CursorNextLine \/ CursorPreviousLine \/ SetCol \/ SetRow \/ SetPosition
  BY <1>3, MoveTidyStep
<1>4. CASE \/ EraseDisplay \/ EraseLine \/ EraseChars \/ InsertChars \/ DeleteChars
           \/ InsertLines \/ DeleteLines \/ ScrollUp \/ ScrollDown \/ SetScrollRegion
  BY <1>4, EditTidyStep
<1>5. CASE \/ SetMode \/ SetMouse \/ SetAlternate \/ DeviceStatus \/ PrimaryDa
           \/ SgrReset \/ SgrLook \/ OscTitle \/ OscRequest \/ OscHyperlink \/ RingBell
  BY <1>5, ModeTidyStep
<1>6. CASE ResetChildState
  <2>1. term' = reset_child_state(term)
    BY <1>6 DEF ResetChildState, Handle
  <2> QED
    BY <2>1, ResetTidy
<1>7. CASE EndFeed
  <2>1. term' = feed_end(term, before)
    BY <1>7 DEF EndFeed
  <2> QED
    BY <2>1, FeedEndTidy
<1>8. CASE Resize
  <2>1. PICK size \in Size : term' = resize_terminal(term, size)
    BY <1>8, TerminalAssumption DEF Resize
  <2> QED
    BY <2>1, ResizeTidy
<1>9. CASE TrimScrollback
  <2>1. PICK limit \in Limits : term' = trim_scrollback(term, limit[1], limit[2])
    BY <1>9 DEF TrimScrollback
  <2> QED
    BY <2>1, TrimTidy
<1>10. CASE AdvanceReplyBytes
  <2>1. PICK n \in 1 .. term.replies : term' = [term EXCEPT !.replies = @ - n]
    BY <1>10 DEF AdvanceReplyBytes
  <2> QED
    BY <2>1, RepliesTidy
<1>11. CASE UNCHANGED vars
  BY <1>11 DEF vars
<1> QED
  BY <1>2, <1>3, <1>4, <1>5, <1>6, <1>7, <1>8, <1>9, <1>10, <1>11 DEF Next, Feed

-----------------------------------------------------------------------------
(* The types, the count of the history and the glyphs.                        *)

(* The inductive invariant, with any hyperlink known. *)
ContentInv(w) ==
    /\ SoundTerm
    /\ repertoire \in Repertoires /\ fed \in 0 .. MaxFeed
    /\ \E L : Tidy(term, L, Nat, w)

(* Every member of a sequence over a set is in the set. *)
LEMMA Members ==
    ASSUME NEW S, NEW s \in Seq(S)
    PROVE  \A i \in DOMAIN s : s[i] \in S
OBVIOUS

LEMMA ContentInit ==
    ASSUME NEW w, Init
    PROVE  ContentInv(w)
<1>1. PICK size \in Size : term = new(size)
  BY TerminalAssumption DEF Init
<1>2. Tidy(term, {NoLink}, Nat, w)
  BY <1>1, NewTidy
<1>3. fed \in 0 .. MaxFeed /\ repertoire \in Repertoires
  BY TerminalAssumption DEF Init
<1> QED
  BY <1>2, <1>3, SoundInit DEF ContentInv

LEMMA BookkeepingStep ==
    ASSUME repertoire \in Repertoires, fed \in 0 .. MaxFeed, [Next]_vars
    PROVE  repertoire' = repertoire /\ fed' \in 0 .. MaxFeed
<1>1. 0 \in 0 .. MaxFeed
  BY TerminalAssumption
<1>2. ASSUME NEW sequence, NEW t, Handle(sequence, t)
      PROVE  repertoire' = repertoire /\ fed' \in 0 .. MaxFeed
  BY <1>2, TerminalAssumption DEF Handle, Room
<1>3. CASE Feed /\ ~EndFeed
  <2>1. \E sequence, t : Handle(sequence, t)
    BY <1>3
    DEF Feed, PrintChar, Backspace, HorizontalTab, LineFeed, CarriageReturn, RingBell,
        SaveCursor, RestoreCursor, NextLine, ReverseIndex, ResetChildState,
        CursorUp, CursorDown, CursorForward, CursorBackward,
        CursorNextLine, CursorPreviousLine, SetCol, SetRow, SetPosition,
        EraseDisplay, EraseLine, EraseChars, InsertChars, DeleteChars,
        InsertLines, DeleteLines, ScrollUp, ScrollDown, SetScrollRegion,
        SetMode, SetMouse, SetAlternate, DeviceStatus, PrimaryDa,
        SgrReset, SgrLook, OscTitle, OscRequest, OscHyperlink
  <2> QED
    BY <1>2, <2>1
<1>4. CASE EndFeed \/ DequeueEvent \/ Resize \/ TrimScrollback \/ AdvanceReplyBytes
  BY <1>1, <1>4 DEF EndFeed, DequeueEvent, Resize, TrimScrollback, AdvanceReplyBytes
<1>5. CASE UNCHANGED vars
  BY <1>5 DEF vars
<1> QED
  BY <1>3, <1>4, <1>5 DEF Next

LEMMA ContentStep ==
    ASSUME NEW w, w => \A r \in Repertoires : Cutting \cap r = {},
           ContentInv(w), [Next]_vars
    PROVE  ContentInv(w)'
<1>1. PICK L : Tidy(term, L, Nat, w)
  BY DEF ContentInv
<1>2. SoundTerm' /\ repertoire' = repertoire /\ fed' \in 0 .. MaxFeed
  BY SoundStep, BookkeepingStep DEF ContentInv
<1>3. DequeueEvent => next_event(term.events).id \in Nat \cup {NoLink}
  <2> HAVE DequeueEvent
  <2>1. term.events \in Events /\ Pending(term.events)
    BY <1>1 DEF Tidy, DequeueEvent
  <2>2. CASE term.events.flags # {}
    BY <2>2 DEF next_event
  <2>3. CASE term.events.flags = {}
    <3>1. term.events.payload \in Seq(Payload) /\ term.events.payload # <<>>
      BY <2>1, <2>3 DEF Events, Pending
    <3>2. Head(term.events.payload) \in Payload
      BY <3>1
    <3> QED
      BY <2>3, <3>2 DEF next_event, Payload
  <2> QED
    BY <2>2, <2>3
<1>4. w => Cutting \cap repertoire = {}
  BY DEF ContentInv
<1>5. PICK M : Tidy(term', M, Nat, w)
  BY <1>1, <1>3, <1>4, TidyStep DEF ContentInv, SoundTerm
<1>6. repertoire' \in Repertoires
  BY <1>2 DEF ContentInv
<1> QED
  BY <1>2, <1>5, <1>6 DEF ContentInv

(* Every field of the terminal has its type in every reachable state, for     *)
(* screens of every size: no handler, however it is interrupted by a resize   *)
(* or a trim, leaves a row of another length, a mode or an event unknown.     *)
THEOREM TermTyping == Spec => []TypeOK
<1>1. Init => ContentInv(FALSE)
  BY ContentInit
<1>2. ContentInv(FALSE) /\ [Next]_vars => ContentInv(FALSE)'
  BY ContentStep
<1>3. ContentInv(FALSE) => TypeOK
  <2> SUFFICES ASSUME ContentInv(FALSE) PROVE TypeOK
    OBVIOUS
  <2>1. PICK L : Tidy(term, L, Nat, FALSE)
    BY DEF ContentInv
  <2>2. term.size \in Size /\ term.size.rows \in Nat \ {0} /\ term.size.cols \in Nat \ {0}
    BY DEF ContentInv, SoundTerm, Sound, Size
  <2>3. ASSUME NEW screen \in {term.primary, term.alternate}
        PROVE  /\ \A i \in DOMAIN screen.cells : DOMAIN screen.cells[i] = 1 .. term.size.cols
               /\ screen.dirty \in BOOLEAN
    <3>1. screen \in Pane(term.size.rows, term.size.cols, L, FALSE)
      BY <2>1 DEF Tidy
    <3>2. /\ screen.cells \in [1 .. term.size.rows -> Line(term.size.cols, L, FALSE)]
          /\ screen.dirty \in BOOLEAN
      BY <2>2, <3>1, PaneSize
    <3> QED
      BY <3>2 DEF Line
  <2>4. term.modes.on \subseteq BoolMode /\ term.modes.mouse \in MouseReporting
    BY <2>1 DEF Tidy
  <2>5. /\ term.on_alternate \in BOOLEAN /\ term.wrap_pending \in BOOLEAN
        /\ term.hyperlink_counter \in 1 .. IdMax /\ term.replies \in Nat
        /\ term.events \in Events
    BY <2>1, Zenon DEF Tidy
  <2> QED
    BY <2>2, <2>3, <2>4, <2>5, Zenon DEF TypeOK, ContentInv
<1> QED
  BY <1>1, <1>2, <1>3, PTL DEF Spec

(* The cells the history is said to hold are the cells of its lines, through  *)
(* every scroll, shrink, erasure and trim: the subtraction of a trim never    *)
(* falls short, so the limits are compared with the true total; and no blank  *)
(* line is ever retained.                                                     *)
THEOREM HistoryIsCounted == Spec => []ScrollbackExact
<1>1. Init => ContentInv(FALSE)
  BY ContentInit
<1>2. ContentInv(FALSE) /\ [Next]_vars => ContentInv(FALSE)'
  BY ContentStep
<1>3. ContentInv(FALSE) => ScrollbackExact
  <2> SUFFICES ASSUME ContentInv(FALSE) PROVE ScrollbackExact
    OBVIOUS
  <2>1. PICK L : /\ term.scrollback \in Seq(Retained(L, FALSE))
                 /\ term.scrollback_cells = CellCount(term.scrollback)
    BY DEF ContentInv, Tidy
  <2>2. \A i \in DOMAIN term.scrollback : term.scrollback[i] \in Retained(L, FALSE)
    BY <2>1, Members
  <2> QED
    BY <2>1, <2>2 DEF ScrollbackExact, Retained
<1> QED
  BY <1>1, <1>2, <1>3, PTL DEF Spec

(* No half of a wide glyph stands alone, on either screen or in the history,  *)
(* whatever overwrites, erases, scrolls, shrinks or widens it, as long as the *)
(* child leaves ICH, DCH and insert mode alone: these three shift cells       *)
(* without looking where a glyph is cut.                                      *)
THEOREM GlyphsStayWhole ==
    ASSUME \A r \in Repertoires : Cutting \cap r = {}
    PROVE  Spec => []PairsWhole
<1>1. Init => ContentInv(TRUE)
  BY ContentInit
<1>2. ContentInv(TRUE) /\ [Next]_vars => ContentInv(TRUE)'
  BY ContentStep
<1>3. ContentInv(TRUE) => PairsWhole
  <2> SUFFICES ASSUME ContentInv(TRUE) PROVE PairsWhole
    OBVIOUS
  <2>1. PICK L : Tidy(term, L, Nat, TRUE)
    BY DEF ContentInv
  <2>2. term.size.rows \in Nat \ {0} /\ term.size.cols \in Nat \ {0}
    BY DEF ContentInv, SoundTerm, Sound, Size
  <2>3. /\ term.primary.cells \in [1 .. term.size.rows -> Line(term.size.cols, L, TRUE)]
        /\ term.alternate.cells \in [1 .. term.size.rows -> Line(term.size.cols, L, TRUE)]
    BY <2>1, <2>2, PaneSize DEF Tidy
  <2>4. term.scrollback \in Seq(Retained(L, TRUE))
    BY <2>1 DEF Tidy
  <2>5. \A i \in DOMAIN term.scrollback : term.scrollback[i] \in Retained(L, TRUE)
    BY <2>4, Members
  <2>6. (\A n, r : r \in Line(n, L, TRUE) => Whole(r)) /\ \A r \in Retained(L, TRUE) : Whole(r)
    BY DEF Line, Retained
  <2> QED
    BY <2>3, <2>5, <2>6 DEF PairsWhole
<1> QED
  BY <1>1, <1>2, <1>3, PTL DEF Spec

-----------------------------------------------------------------------------
(* The hyperlinks.                                                            *)

(* The inductive invariant, with the hyperlinks the caller knows. *)
LinkInv ==
    /\ SoundTerm /\ Listener
    /\ \E L : Tidy(term, L, caller.known, FALSE)

(* A step tells the caller the hyperlink it takes from the channel, and the   *)
(* caller forgets none.                                                       *)
LEMMA KnownStep ==
    ASSUME "HyperlinkAdded" \in Watched, Listener, term.events \in Events, [Next]_vars
    PROVE  /\ Listener' /\ caller.known \subseteq caller'.known
           /\ DequeueEvent => next_event(term.events).id \in caller'.known \cup {NoLink}
<1>1. CASE DequeueEvent
  <2> DEFINE event == next_event(term.events)
  <2>1. /\ Pending(term.events)
        /\ caller'.known = IF /\ event.kind \in {"HyperlinkAdded", "terminal_reset"}
                              /\ event.id # NoLink
                           THEN caller.known \cup {event.id} ELSE caller.known
        /\ Listener'
    BY <1>1 DEF DequeueEvent, Listener
  <2>2. event.id # NoLink => event.kind = "HyperlinkAdded"
    <3>1. CASE term.events.flags # {}
      BY <3>1 DEF next_event, NoLink
    <3>2. CASE term.events.flags = {}
      <4>1. term.events.payload \in Seq(Payload) /\ term.events.payload # <<>>
        BY <2>1, <3>2 DEF Events, Pending
      <4>2. Head(term.events.payload) \in Payload
        BY <4>1
      <4> QED
        BY <3>2, <4>2 DEF next_event, Payload, NoLink
    <3> QED
      BY <3>1, <3>2
  <2> HIDE DEF event
  <2>3. event.id \in caller'.known \cup {NoLink} /\ caller.known \subseteq caller'.known
    BY <2>1, <2>2
  <2> QED
    BY <2>1, <2>3 DEF event
<1>2. ~DequeueEvent => Listener' /\ caller'.known = caller.known
  <2> HAVE ~DequeueEvent
  <2>1. CASE TrimScrollback
    BY <2>1 DEF TrimScrollback, Listener
  <2>2. CASE ~TrimScrollback
    <3>1. UNCHANGED caller
      BY <2>2
      DEF Next, Feed, vars, EndFeed, Resize, AdvanceReplyBytes, Handle,
          PrintChar, Backspace, HorizontalTab, LineFeed, CarriageReturn,
          RingBell, SaveCursor, RestoreCursor, NextLine, ReverseIndex, ResetChildState,
          CursorUp, CursorDown, CursorForward, CursorBackward, CursorNextLine,
          CursorPreviousLine, SetCol, SetRow, SetPosition,
          EraseDisplay, EraseLine, EraseChars, InsertChars, DeleteChars,
          InsertLines, DeleteLines, ScrollUp, ScrollDown, SetScrollRegion,
          SetMode, SetMouse, SetAlternate, DeviceStatus, PrimaryDa, SgrReset, SgrLook,
          OscTitle, OscRequest, OscHyperlink
    <3> QED
      BY <3>1 DEF Listener
  <2> QED
    BY <2>1, <2>2
<1> QED
  BY <1>1, <1>2

LEMMA LinkStep ==
    ASSUME "HyperlinkAdded" \in Watched, LinkInv, [Next]_vars
    PROVE  LinkInv'
<1>1. PICK L : Tidy(term, L, caller.known, FALSE)
  BY DEF LinkInv
<1>2. term.events \in Events
  BY <1>1 DEF Tidy
<1>3. /\ Listener' /\ caller.known \subseteq caller'.known
      /\ DequeueEvent => next_event(term.events).id \in caller'.known \cup {NoLink}
  BY <1>2, KnownStep DEF LinkInv
<1>4. Sound(term) /\ SoundTerm'
  BY SoundStep DEF LinkInv, SoundTerm
<1> DEFINE J == caller'.known
<1> HIDE DEF J
<1>5. PICK M : Tidy(term', M, J, FALSE)
  BY <1>1, <1>3, <1>4, TidyStep DEF J
<1> QED
  BY <1>3, <1>4, <1>5 DEF LinkInv, J

(* The links in use are links the invariant speaks of. *)
LEMMA LinksTidy ==
    ASSUME NEW L, NEW K, Sound(term), Tidy(term, L, K, FALSE)
    PROVE  LinksInUse \subseteq L
<1>1. term.size.rows \in Nat \ {0} /\ term.size.cols \in Nat \ {0}
  BY DEF Sound, Size
<1>2. \A n, r : r \in Line(n, L, FALSE) => Links(r) \subseteq L
  BY DEF Line, CellOf, StyleOf, Links
<1>3. \A r \in Retained(L, FALSE) : Links(r) \subseteq L
  BY <1>2 DEF Retained
<1>4. /\ term.primary.cells \in [1 .. term.size.rows -> Line(term.size.cols, L, FALSE)]
      /\ term.alternate.cells \in [1 .. term.size.rows -> Line(term.size.cols, L, FALSE)]
  BY <1>1, PaneSize DEF Tidy
<1>5. term.scrollback \in Seq(Retained(L, FALSE))
  BY DEF Tidy
<1>6. \A i \in DOMAIN term.scrollback : term.scrollback[i] \in Retained(L, FALSE)
  BY <1>5, Members
<1>7. term.pen.link \in L /\ term.saved.pen.link \in L
  BY DEF Tidy, StyleOf
<1>8. /\ \A i \in DOMAIN term.primary.cells : Links(term.primary.cells[i]) \subseteq L
      /\ \A i \in DOMAIN term.alternate.cells : Links(term.alternate.cells[i]) \subseteq L
      /\ \A i \in DOMAIN term.scrollback : Links(term.scrollback[i]) \subseteq L
  BY <1>2, <1>3, <1>4, <1>6
<1> DEFINE rows == {Links(term.primary.cells[i]) : i \in DOMAIN term.primary.cells}
                   \cup {Links(term.alternate.cells[i]) : i \in DOMAIN term.alternate.cells}
                   \cup {Links(term.scrollback[i]) : i \in DOMAIN term.scrollback}
<1>9. \A links \in rows : links \subseteq L
  BY <1>8
<1>10. LinksInUse = (UNION rows) \cup {term.pen.link, term.saved.pen.link}
  BY DEF LinksInUse
<1> HIDE DEF rows
<1> QED
  <2>1. UNION rows \subseteq L
    BY <1>9, Zenon
  <2> QED
    BY <1>7, <1>10, <2>1

(* A caller that takes every HyperlinkAdded can resolve each hyperlink it     *)
(* meets in a cell, on either screen or in the history, and the ones the pen  *)
(* will still write: it was told, or the event is waiting for it.             *)
THEOREM LinksAreAnnounced ==
    ASSUME "HyperlinkAdded" \in Watched
    PROVE  Spec => []LinksResolve
<1>1. Init => LinkInv
  <2> SUFFICES ASSUME Init PROVE LinkInv
    OBVIOUS
  <2>1. PICK size \in Size : term = new(size) /\ caller = CallerInit(new(size))
    BY TerminalAssumption DEF Init
  <2>2. Listener
    BY <2>1 DEF CallerInit, Listener
  <2>3. Tidy(term, {NoLink}, caller.known, FALSE)
    BY <2>1, NewTidy
  <2> QED
    BY <2>2, <2>3, SoundInit DEF LinkInv
<1>2. LinkInv /\ [Next]_vars => LinkInv'
  BY LinkStep
<1>3. LinkInv => LinksResolve
  <2> SUFFICES ASSUME LinkInv PROVE LinksResolve
    OBVIOUS
  <2>1. PICK L : Tidy(term, L, caller.known, FALSE)
    BY DEF LinkInv
  <2>2. LinksInUse \subseteq L
    BY <2>1, LinksTidy DEF LinkInv, SoundTerm
  <2>3. L \subseteq caller.known \cup {NoLink} \cup Ids(term.events.payload)
    BY <2>1 DEF Tidy
  <2> QED
    BY <2>2, <2>3 DEF LinksResolve, LinksAnnounced, Ids
<1> QED
  BY <1>1, <1>2, <1>3, PTL DEF Spec

-----------------------------------------------------------------------------
(* The primary screen under the alternate one.                                *)

(* A step leaves the history alone, or gives up oldest lines of it. *)
Shortened(lines, rest) == \E n \in 0 .. Len(lines) : rest = SubSeq(lines, n + 1, Len(lines))

LEMMA WholeOrNothing ==
    ASSUME NEW S, NEW lines \in Seq(S), NEW rest \in {lines, <<>>}
    PROVE  Shortened(lines, rest)
<1>1. Len(lines) \in Nat /\ lines = SubSeq(lines, 0 + 1, Len(lines))
      /\ <<>> = SubSeq(lines, Len(lines) + 1, Len(lines))
  OBVIOUS
<1>2. 0 \in 0 .. Len(lines) /\ Len(lines) \in 0 .. Len(lines)
  BY <1>1
<1> QED
  BY <1>1, <1>2 DEF Shortened

LEMMA PrimaryStep ==
    ASSUME ContentInv(FALSE), Ready(term), [Next]_vars,
           term.on_alternate, term'.on_alternate, term'.size = term.size
    PROVE  /\ term'.primary.cells = term.primary.cells
           /\ Shortened(term.scrollback, term'.scrollback)
<1>1. PICK S : term.scrollback \in Seq(S)
  BY DEF ContentInv, Tidy
<1>2. SUFFICES ASSUME ~TrimScrollback
               PROVE  /\ term'.primary.cells = term.primary.cells
                      /\ term'.scrollback \in {term.scrollback, <<>>}
  <2>1. CASE TrimScrollback
    <3>1. PICK limit : term' = trim_scrollback(term, limit[1], limit[2])
      BY <2>1 DEF TrimScrollback
    <3> DEFINE n == excess(term, limit[1], limit[2])
    <3>2. /\ term'.primary.cells = term.primary.cells
          /\ term'.scrollback = IF 0 \in {limit[1], limit[2]} THEN <<>>
                                ELSE SubSeq(term.scrollback, n + 1, Len(term.scrollback))
      BY <3>1, TrimTells DEF Fields
    <3>3. 0 \notin {limit[1], limit[2]} => n \in 0 .. Len(term.scrollback)
      BY <1>1, ExcessInside
    <3> HIDE DEF n
    <3>4. CASE 0 \in {limit[1], limit[2]}
      BY <1>1, <3>2, <3>4, WholeOrNothing
    <3>5. CASE 0 \notin {limit[1], limit[2]}
      BY <3>2, <3>3, <3>5 DEF Shortened
    <3> QED
      BY <3>2, <3>4, <3>5
  <2> QED
    BY <1>1, <2>1, WholeOrNothing
<1>3. CASE Ordinary
  <2>1. Drawn(term, term')
    BY <1>3, OrdinaryWorks DEF Works
  <2> QED
    BY <2>1 DEF Drawn, NoNewLines
<1>4. CASE ResetChildState
  BY <1>4, ResetTells DEF ResetChildState, Handle
<1>5. CASE SetAlternate
  <2>1. PICK enable, clear_on_enter : term' = set_alternate(term, enable, clear_on_enter)
    BY <1>5 DEF SetAlternate, Handle
  <2>2. term'.primary = term.primary /\ term'.scrollback = term.scrollback
    BY <2>1, SwitchTells
  <2> QED
    BY <2>2
<1>6. CASE EndFeed \/ DequeueEvent \/ AdvanceReplyBytes
  <2>1. CASE EndFeed
    BY <2>1, FeedEndTells DEF EndFeed, Fields
  <2>2. CASE DequeueEvent
    BY <2>2, DequeueTells DEF DequeueEvent, Fields
  <2>3. CASE AdvanceReplyBytes
    BY <2>3 DEF AdvanceReplyBytes, Ready, Shape, Fields
  <2> QED
    BY <1>6, <2>1, <2>2, <2>3
<1>7. CASE Resize
  <2>1. PICK size : size # term.size /\ term' = resize_terminal(term, size)
    BY <1>7 DEF Resize
  <2>2. term'.size = size
    BY <2>1, ResizeTells
  <2> QED
    BY <2>1, <2>2
<1>8. CASE UNCHANGED vars
  BY <1>8 DEF vars
<1> QED
  BY <1>2, <1>3, <1>4, <1>5, <1>6, <1>7, <1>8 DEF Next, Feed, Ordinary

(* No control sequence, however it scrolls, erases or wraps the alternate     *)
(* screen, writes a cell of the primary screen or adds a line to the history; *)
(* and a caller that trims the history then takes its oldest lines.           *)
THEOREM PrimaryIsUntouched == Spec => PrimaryUntouched
<1> DEFINE Inv == ContentInv(FALSE) /\ Ready(term)
           Untouched ==
               term.on_alternate /\ term'.on_alternate /\ term'.size = term.size
                   => /\ term'.primary.cells = term.primary.cells
                      /\ \E n \in 0 .. Len(term.scrollback) :
                            term'.scrollback = SubSeq(term.scrollback, n + 1, Len(term.scrollback))
<1>1. Init => Inv
  BY ContentInit, ReadyInit
<1>2. Inv /\ [Next]_vars => Inv'
  BY ContentStep, ReadyStep
<1>3. Inv /\ [Next]_vars => [Untouched]_vars
  BY PrimaryStep DEF Shortened
<1>4. Spec => [][Untouched]_vars
  <2> HIDE DEF Inv, Untouched
  <2> QED
    BY <1>1, <1>2, <1>3, PTL DEF Spec
<1> QED
  BY <1>4 DEF PrimaryUntouched

-----------------------------------------------------------------------------
(* What no handler but a few writes: the saved cursor and the modes.          *)

(* The saved cursor and the modes stay as they are. *)
Frozen(t, u) == Shape(u) /\ u.saved = t.saved /\ u.modes = t.modes

LEMMA FrozenTrans ==
    ASSUME NEW t, NEW u, NEW v, Frozen(t, u), Frozen(u, v)
    PROVE  Frozen(t, v)
BY DEF Frozen

LEMMA FrozenParts ==
    ASSUME NEW t, Shape(t)
    PROVE  /\ Frozen(t, t)
           /\ \A x : /\ Frozen(t, with_active(t, x)) /\ Frozen(t, report(t, x))
                    /\ Frozen(t, offer(t, x)) /\ Frozen(t, push_displaced_to_scrollback(t, x))
           /\ Frozen(t, erase_saved_lines(t)) /\ Frozen(t, repair_cursor_cell(t))
           /\ \A x, y : Frozen(t, at(t, x, y))
<1>1. Frozen(t, t) /\ Frozen(t, erase_saved_lines(t)) /\ Frozen(t, repair_cursor_cell(t))
  BY DEF Frozen, Shape, Fields, erase_saved_lines, repair_cursor_cell
<1>2. \A x : Frozen(t, with_active(t, x)) /\ Frozen(t, report(t, x)) /\ Frozen(t, offer(t, x))
  BY DEF Frozen, Shape, Fields, with_active, report, offer
<1>3. \A x : Frozen(t, push_displaced_to_scrollback(t, x))
  <2> SUFFICES ASSUME NEW x PROVE Frozen(t, push_displaced_to_scrollback(t, x))
    OBVIOUS
  <2> DEFINE lines == contents(x)
             u == [t EXCEPT !.scrollback = @ \o lines, !.scrollback_cells = @ + CellCount(lines)]
  <2>1. Frozen(t, u)
    BY DEF Frozen, Shape, Fields
  <2> HIDE DEF u
  <2>2. Frozen(u, report(u, "scrollback_line_added"))
    BY <2>1 DEF Frozen, Shape, Fields, report
  <2>3. Frozen(t, report(u, "scrollback_line_added"))
    BY <2>1, <2>2 DEF Frozen
  <2> QED
    BY <1>1, <2>3 DEF push_displaced_to_scrollback, u
<1>4. \A x, y : Frozen(t, at(t, x, y))
  <2> SUFFICES ASSUME NEW x, NEW y PROVE Frozen(t, at(t, x, y))
    OBVIOUS
  <2> DEFINE u == at(t, x, y)
  <2>1. Shape(u) /\ u.saved = t.saved /\ u.modes = t.modes
    BY DEF Shape, Fields, at
  <2> QED
    BY <2>1, Zenon DEF Frozen
<1> QED
  BY <1>1, <1>2, <1>3, <1>4

(* So they do when the cursor alone moves. *)
LEMMA FrozenCursor ==
    ASSUME NEW t, Shape(t)
    PROVE  /\ Frozen(t, [t EXCEPT !.wrap_pending = FALSE]) /\ Frozen(t, to_first_col(t))
           /\ \A x : /\ Frozen(t, [t EXCEPT !.cursor.row = x])
                    /\ Frozen(t, [t EXCEPT !.cursor.col = x])
BY DEF Frozen, Shape, Fields, to_first_col

LEMMA ScrollUpFrozen ==
    ASSUME NEW t, Shape(t), NEW count
    PROVE  Frozen(t, scroll_up_screen(t, count))
<1> DEFINE u == with_active(t, scroll_up(active(t), count, t.scroll_top, t.scroll_bottom, t.pen))
           rows == scrolled_off(active(t), count, t.scroll_top, t.scroll_bottom)
<1>1. Frozen(t, u) /\ Shape(u)
  BY FrozenParts DEF Frozen
<1> HIDE DEF u, rows
<1>2. Frozen(t, push_displaced_to_scrollback(u, rows))
  BY <1>1, FrozenParts, FrozenTrans
<1> QED
  BY <1>1, <1>2 DEF scroll_up_screen, u, rows

LEMMA LineFeedFrozen ==
    ASSUME NEW t, Shape(t)
    PROVE  /\ Frozen(t, line_feed(t)) /\ Frozen(t, reverse_index(t))
           /\ Frozen(t, carriage_return(t)) /\ Frozen(t, next_line(t))
<1>1. ASSUME NEW a, Shape(a) PROVE Frozen(a, line_feed(a)) /\ Frozen(a, reverse_index(a))
  <2> DEFINE u == [a EXCEPT !.wrap_pending = FALSE]
  <2>1. Frozen(a, u) /\ Shape(u)
    BY <1>1, FrozenCursor DEF Frozen
  <2> HIDE DEF u
  <2>2. \A x : /\ Frozen(a, [u EXCEPT !.cursor.row = x]) /\ Frozen(a, with_active(u, x))
               /\ Frozen(a, scroll_up_screen(u, x))
    BY <2>1, FrozenParts, FrozenCursor, FrozenTrans, ScrollUpFrozen
  <2> QED
    BY <2>1, <2>2 DEF line_feed, reverse_index, u
<1>2. Frozen(t, carriage_return(t)) /\ Shape(carriage_return(t))
  BY FrozenParts DEF carriage_return, Frozen
<1>3. Frozen(t, next_line(t))
  BY <1>1, <1>2, FrozenTrans DEF next_line
<1> QED
  BY <1>1, <1>2, <1>3

LEMMA PrintFrozen ==
    ASSUME NEW t, Shape(t), NEW ch
    PROVE  Frozen(t, print_char(t, ch))
<1>1. ASSUME NEW a, Shape(a) PROVE Frozen(a, after_pending_wrap(a))
  <2> DEFINE u == [a EXCEPT !.wrap_pending = FALSE]
  <2>1. Frozen(a, u) /\ Shape(u)
    BY <1>1, FrozenCursor DEF Frozen
  <2> HIDE DEF u
  <2>2. Frozen(a, next_line(u))
    BY <2>1, LineFeedFrozen, FrozenTrans
  <2> QED
    BY <2>1, <2>2 DEF after_pending_wrap, u
<1>2. ASSUME NEW a, Shape(a), NEW width PROVE Frozen(a, make_room(a, width))
  BY <1>2, FrozenParts, FrozenCursor, LineFeedFrozen DEF make_room
<1>3. ASSUME NEW a, Shape(a) PROVE Frozen(a, put(a, ch))
  <2> DEFINE line == IF "insert" \in a.modes.on
                     THEN insert_columns(cursor_line(a), a.cursor.col, Width(ch), a.pen)
                     ELSE cursor_line(a)
             u == with_cursor_line(a, put_glyph(line, a.cursor.col, ch, Width(ch), a.pen))
  <2>1. Frozen(a, u) /\ Shape(u)
    BY <1>3, FrozenParts DEF with_cursor_line, Frozen
  <2> HIDE DEF u
  <2>2. ASSUME NEW x, NEW p PROVE Frozen(u, [u EXCEPT !.cursor.col = x, !.wrap_pending = p])
    <3> DEFINE v == [u EXCEPT !.cursor.col = x, !.wrap_pending = p]
    <3>1. u = [f \in Fields |-> u[f]]
      BY <2>1 DEF Shape
    <3>2. v = [f \in Fields |-> v[f]]
      BY <3>1
    <3>3. v.saved = u.saved /\ v.modes = u.modes
      BY <3>1 DEF Fields
    <3> QED
      BY <3>2, <3>3 DEF Frozen, Shape
  <2>3. \A x, p : Frozen(a, [u EXCEPT !.cursor.col = x, !.wrap_pending = p])
    BY <2>1, <2>2, FrozenTrans
  <2> QED
    BY <2>3 DEF put, u
<1> DEFINE u == after_pending_wrap(t)
           v == make_room(u, Width(ch))
<1>4. Frozen(t, u) /\ Shape(u)
  BY <1>1 DEF Frozen
<1> HIDE DEF u
<1>5. Frozen(t, v) /\ Shape(v)
  BY <1>2, <1>4, FrozenTrans DEF Frozen
<1> HIDE DEF v
<1>6. Frozen(t, put(v, ch))
  BY <1>3, <1>5, FrozenTrans
<1> QED
  BY <1>5, <1>6 DEF print_char, u, v

LEMMA MovesFrozen ==
    ASSUME NEW t, Shape(t), NEW n, NEW m
    PROVE  /\ Frozen(t, cursor_up(t, n)) /\ Frozen(t, cursor_down(t, n))
           /\ Frozen(t, cursor_forward(t, n)) /\ Frozen(t, cursor_backward(t, n))
           /\ Frozen(t, set_col(t, n)) /\ Frozen(t, set_row(t, n))
           /\ Frozen(t, set_position(t, n, m))
           /\ Frozen(t, backspace(t)) /\ Frozen(t, horizontal_tab(t))
           /\ Frozen(t, to_first_col(cursor_down(t, n)))
           /\ Frozen(t, to_first_col(cursor_up(t, n)))
<1>1. \A x, y : Frozen(t, at(t, x, y)) /\ Shape(at(t, x, y))
  BY FrozenParts DEF Frozen
<1>2. \A x, y : Frozen(t, to_first_col(at(t, x, y)))
  BY <1>1, FrozenCursor, FrozenTrans
<1> QED
  BY <1>1, <1>2 DEF cursor_up, cursor_down, cursor_forward, cursor_backward, set_col, set_row,
                    set_position, backspace, horizontal_tab

LEMMA EditsFrozen ==
    ASSUME NEW t, Shape(t), NEW n, NEW m
    PROVE  /\ Frozen(t, erase_display(t, n)) /\ Frozen(t, erase_line(t, n))
           /\ Frozen(t, erase_chars(t, n))
           /\ Frozen(t, insert_chars(t, n)) /\ Frozen(t, delete_chars(t, n))
           /\ Frozen(t, insert_rows(t, n)) /\ Frozen(t, delete_rows(t, n))
           /\ Frozen(t, scroll_down_screen(t, n)) /\ Frozen(t, set_scroll_region(t, n, m))
<1>1. /\ \A screen : Frozen(t, with_active(t, screen))
      /\ Frozen(t, t) /\ Frozen(t, erase_saved_lines(t))
  BY FrozenParts
<1>2. Frozen(t, erase_display(t, n)) /\ Frozen(t, erase_line(t, n))
  BY <1>1 DEF erase_display, erase_line
<1>3. /\ Frozen(t, erase_chars(t, n)) /\ Frozen(t, insert_chars(t, n))
      /\ Frozen(t, delete_chars(t, n)) /\ Frozen(t, insert_rows(t, n))
      /\ Frozen(t, delete_rows(t, n)) /\ Frozen(t, scroll_down_screen(t, n))
  BY <1>1 DEF erase_chars, insert_chars, delete_chars, with_cursor_line, insert_rows,
              delete_rows, scroll_down_screen
<1>4. Frozen(t, set_scroll_region(t, n, m))
  <2> DEFINE u == [t EXCEPT !.scroll_top = Monus(n, 1), !.scroll_bottom = Monus(m, 1)]
  <2>1. Frozen(t, u) /\ Shape(u)
    BY DEF Frozen, Shape, Fields
  <2> HIDE DEF u
  <2>2. \A v \in {t, u} : \A row : Frozen(t, at(v, row, 0))
    BY <2>1, FrozenParts, FrozenTrans
  <2> QED
    BY <2>2 DEF set_scroll_region, u
<1> QED
  BY <1>2, <1>3, <1>4

LEMMA QuietFrozen ==
    ASSUME NEW t, Shape(t), NEW a
    PROVE  /\ Frozen(t, primary_da(t)) /\ Frozen(t, device_status(t, a))
           /\ Frozen(t, sgr_reset(t)) /\ Frozen(t, sgr_look(t, a))
           /\ Frozen(t, osc_title(t, a)) /\ Frozen(t, osc_request(t))
           /\ Frozen(t, osc_hyperlink_open(t)) /\ Frozen(t, osc_hyperlink_close(t))
           /\ Frozen(t, ring_bell(t)) /\ Frozen(t, feed_end(t, a))
           /\ \A x, y : Frozen(t, trim_scrollback(t, x, y))
<1>1. Frozen(t, primary_da(t)) /\ Frozen(t, device_status(t, a))
  BY DEF Frozen, Shape, Fields, primary_da, device_status, reply
<1>2. /\ Frozen(t, sgr_reset(t)) /\ Frozen(t, sgr_look(t, a))
      /\ Frozen(t, osc_hyperlink_close(t))
  BY DEF Frozen, Shape, Fields, sgr_reset, sgr_look, osc_hyperlink_close
<1>3. Frozen(t, osc_request(t)) /\ Frozen(t, ring_bell(t))
  BY FrozenParts DEF osc_request, ring_bell
<1>4. Frozen(t, osc_title(t, a)) /\ Frozen(t, osc_hyperlink_open(t))
  BY DEF Frozen, Shape, Fields, osc_title, osc_hyperlink_open, report, offer
<1>5. Frozen(t, feed_end(t, a))
  BY DEF Frozen, Shape, Fields, feed_end, report
<1>6. \A x, y : Frozen(t, trim_scrollback(t, x, y))
  <2>1. \A n : Frozen(t, drop_lines(t, n))
    BY DEF Frozen, Shape, Fields, drop_lines
  <2> QED
    BY <2>1, FrozenParts DEF trim_scrollback
<1> QED
  BY <1>1, <1>2, <1>3, <1>4, <1>5, <1>6

LEMMA ResizeFrozen ==
    ASSUME NEW t, Shape(t), NEW size
    PROVE  Frozen(t, resize_terminal(t, size))
<1> DEFINE u == IF t.on_alternate THEN t
                ELSE push_displaced_to_scrollback(t, dropped_rows(t.primary, size.rows))
           row == Monus(t.cursor.row, active_shift(t, size.rows))
           v == at(u, Least(row, size.rows - 1), Least(t.cursor.col, size.cols - 1))
           w == [v EXCEPT !.size = size, !.scroll_top = 0, !.scroll_bottom = size.rows - 1,
                          !.primary = take_dirty(resize(@, size.rows, size.cols)),
                          !.alternate = resize(@, size.rows, size.cols)]
           x == repair_cursor_cell(w)
<1>1. Frozen(t, u) /\ Shape(u)
  BY FrozenParts DEF Frozen
<1> HIDE DEF u
<1>2. Frozen(t, v) /\ Shape(v)
  BY <1>1, FrozenParts, FrozenTrans DEF Frozen
<1> HIDE DEF v
<1>3. Frozen(v, w) /\ Shape(w)
  BY <1>2 DEF Frozen, Shape, Fields
<1> HIDE DEF w
<1>4. Frozen(t, x) /\ Shape(x)
  BY <1>2, <1>3, FrozenParts, FrozenTrans DEF Frozen
<1> HIDE DEF x
<1>5. Frozen(t, report(x, "screen_updated"))
  BY <1>4, FrozenParts, FrozenTrans
<1> QED
  BY <1>5 DEF resize_terminal, u, v, w, x

-----------------------------------------------------------------------------
(* The way back to the primary screen.                                        *)

(* Neither in origin mode, nor will a restored cursor lead back to it. *)
Steady(t) ==
    /\ t.modes = [on |-> t.modes.on, mouse |-> t.modes.mouse]
    /\ "origin" \notin t.modes.on /\ t.saved.origin = FALSE

LEMMA FrozenSteady ==
    ASSUME NEW t, NEW u, Frozen(t, u), Steady(t)
    PROVE  Steady(u)
BY DEF Frozen, Steady

LEMMA OrdinaryFrozen ==
    ASSUME Ready(term), Ordinary, ~SaveCursor, ~RestoreCursor, ~SetMode, ~SetMouse
    PROVE  Frozen(term, term')
<1>1. Shape(term)
  BY DEF Ready
<1>2. CASE \/ PrintChar \/ Backspace \/ HorizontalTab \/ LineFeed \/ CarriageReturn
           \/ NextLine \/ ReverseIndex
  BY <1>1, <1>2, PrintFrozen, MovesFrozen, LineFeedFrozen
  DEF Handle, PrintChar, Backspace, HorizontalTab, LineFeed, CarriageReturn, NextLine,
      ReverseIndex
<1>3. CASE \/ CursorUp \/ CursorDown \/ CursorForward \/ CursorBackward
           \/ CursorNextLine \/ CursorPreviousLine \/ SetCol \/ SetRow \/ SetPosition
  BY <1>1, <1>3, MovesFrozen
  DEF Handle, CursorUp, CursorDown, CursorForward, CursorBackward, CursorNextLine,
      CursorPreviousLine, SetCol, SetRow, SetPosition
<1>4. CASE \/ EraseDisplay \/ EraseLine \/ EraseChars \/ InsertChars \/ DeleteChars
           \/ InsertLines \/ DeleteLines \/ ScrollUp \/ ScrollDown \/ SetScrollRegion
  BY <1>1, <1>4, EditsFrozen, ScrollUpFrozen
  DEF Handle, EraseDisplay, EraseLine, EraseChars, InsertChars, DeleteChars,
      InsertLines, DeleteLines, ScrollUp, ScrollDown, SetScrollRegion
<1>5. CASE \/ DeviceStatus \/ PrimaryDa \/ SgrReset \/ SgrLook
           \/ OscTitle \/ OscRequest \/ OscHyperlink \/ RingBell
  BY <1>1, <1>5, QuietFrozen
  DEF Handle, DeviceStatus, PrimaryDa, SgrReset, SgrLook, OscTitle, OscRequest,
      OscHyperlink, RingBell
<1> QED
  BY <1>2, <1>3, <1>4, <1>5 DEF Ordinary

(* What leaves the saved cursor alone and does not turn origin mode on. *)
Saves(t, u) == u.saved = t.saved /\ Steady(u)

LEMMA ModesSave ==
    ASSUME NEW t, Shape(t), Steady(t), NEW mode, NEW enable
    PROVE  /\ mode # "origin" => Saves(t, set_mode(t, mode, enable))
           /\ Saves(t, set_mouse(t, mode, enable))
<1>1. Saves(t, with_mode(t, mode, enable)) \/ mode = "origin"
  BY DEF Saves, Steady, Shape, Fields, with_mode
<1>2. Saves(t, set_mouse(t, mode, enable))
  BY DEF Saves, Steady, Shape, Fields, set_mouse
<1> QED
  BY <1>1, <1>2 DEF set_mode

LEMMA RestoreSaves ==
    ASSUME NEW t, Shape(t), Steady(t)
    PROVE  /\ Saves(t, restore_cursor(t))
           /\ restore_cursor(t).on_alternate = t.on_alternate
           /\ restore_cursor(t).pen = t.saved.pen
           /\ t.size \in Size /\ t.saved.cursor \in [row : 0 .. last_row(t), col : 0 .. last_col(t)]
              => restore_cursor(t).cursor =
                     repair_cursor_cell([restore_cursor(t) EXCEPT !.cursor = t.saved.cursor]).cursor
<1> DEFINE v == [t EXCEPT !.cursor = t.saved.cursor, !.pen = t.saved.pen,
                          !.wrap_pending = t.saved.wrap_pending,
                          !.modes.on = IF t.saved.origin THEN @ \cup {"origin"}
                                       ELSE @ \ {"origin"}]
           w == [v EXCEPT !.cursor = [row |-> clamp(@.row, origin_bounds(v)),
                                      col |-> Least(@.col, last_col(v))]]
           x == repair_cursor_cell(w)
<1>1. /\ Shape(v) /\ Saves(t, v)
      /\ v.on_alternate = t.on_alternate /\ v.pen = t.saved.pen /\ v.size = t.size
      /\ v.cursor = t.saved.cursor
  BY DEF Saves, Steady, Shape, Fields
<1> HIDE DEF v
<1>2. /\ Shape(w) /\ w.saved = t.saved /\ w.modes = v.modes
      /\ w.on_alternate = t.on_alternate /\ w.pen = t.saved.pen
  BY <1>1 DEF Saves, Shape, Fields
<1>3. t.size \in Size /\ t.saved.cursor \in [row : 0 .. last_row(t), col : 0 .. last_col(t)]
         => w.cursor = t.saved.cursor
  <2>1. SUFFICES ASSUME t.size \in Size,
                        t.saved.cursor \in [row : 0 .. last_row(t), col : 0 .. last_col(t)]
                 PROVE  w.cursor = t.saved.cursor
    OBVIOUS
  <2>2. origin_bounds(v) = [min |-> 0, max |-> last_row(t)] /\ last_col(v) = last_col(t)
    BY <1>1 DEF Saves, Steady, origin_bounds, origin, last_row, last_col
  <2>3. w.cursor = [row |-> clamp(v.cursor.row, origin_bounds(v)),
                    col |-> Least(v.cursor.col, last_col(v))]
    BY <1>1 DEF Shape, Fields
  <2>4. /\ clamp(v.cursor.row, origin_bounds(v)) = t.saved.cursor.row
        /\ Least(v.cursor.col, last_col(v)) = t.saved.cursor.col
    BY <1>1, <2>1, <2>2 DEF clamp, Least, Greatest, Size, last_row, last_col
  <2> QED
    BY <2>1, <2>3, <2>4
<1> HIDE DEF w
<1>4. /\ Shape(x) /\ x.saved = t.saved /\ x.modes = v.modes
      /\ x.on_alternate = t.on_alternate /\ x.pen = t.saved.pen
      /\ w = [x EXCEPT !.cursor = w.cursor]
  BY <1>2 DEF Shape, Fields, repair_cursor_cell
<1>5. x = restore_cursor(t)
  BY DEF restore_cursor, clamp_cursor, v, w
<1>6. t.size \in Size /\ t.saved.cursor \in [row : 0 .. last_row(t), col : 0 .. last_col(t)]
         => x.cursor = repair_cursor_cell([x EXCEPT !.cursor = t.saved.cursor]).cursor
  BY <1>3, <1>4
<1> HIDE DEF x
<1> QED
  BY <1>1, <1>4, <1>5, <1>6 DEF Saves, Steady

LEMMA EnterSaves ==
    ASSUME NEW t, Shape(t), Steady(t)
    PROVE  LET u == enter_alternate(t)
           IN /\ Shape(u) /\ Steady(u) /\ u.on_alternate
              /\ t.on_alternate => u = t
              /\ ~t.on_alternate => u.saved.cursor = t.cursor /\ u.saved.pen = t.pen
<1> DEFINE v == [save_cursor(t) EXCEPT !.on_alternate = TRUE]
<1>1. /\ Shape(v) /\ v.on_alternate = TRUE /\ v.modes = t.modes
      /\ v.saved = [cursor |-> t.cursor, pen |-> t.pen,
                    wrap_pending |-> t.wrap_pending, origin |-> origin(t)]
  BY DEF Shape, Fields, save_cursor
<1>2. enter_alternate(t) = IF t.on_alternate THEN t ELSE v
  BY DEF enter_alternate
<1> HIDE DEF v
<1>3. origin(t) = FALSE
  BY DEF Steady, origin
<1>4. v.saved.origin = FALSE
  BY <1>1, <1>3
<1>5. Steady(v)
  BY <1>1, <1>4 DEF Steady
<1>6. v.saved.cursor = t.cursor /\ v.saved.pen = t.pen
  BY <1>1
<1> QED
  BY <1>1, <1>2, <1>5, <1>6

LEMMA ClearSaves ==
    ASSUME NEW t, Shape(t), Steady(t)
    PROVE  Saves(t, clear_alternate(t)) /\ clear_alternate(t).on_alternate = t.on_alternate
<1> DEFINE u == [t EXCEPT !.alternate = clear_all(@, DefaultStyle),
                          !.scroll_top = 0, !.scroll_bottom = last_row(t)]
<1>1. Shape(u) /\ u.saved = t.saved /\ u.modes = t.modes /\ u.on_alternate = t.on_alternate
  BY DEF Shape, Fields
<1> HIDE DEF u
<1>2. /\ at(u, 0, 0).saved = t.saved /\ at(u, 0, 0).modes = t.modes
      /\ at(u, 0, 0).on_alternate = t.on_alternate
  BY <1>1 DEF Shape, Fields, at
<1> QED
  BY <1>2 DEF clear_alternate, u, Saves, Steady

(* A child with no saved cursor of its own and no origin mode. *)
Plain == repertoire \cap {"DECSC", "origin"} = {}

(* What the primary screen was left with is what leaving the alternate one    *)
(* restores, and it lies on a screen of the size that it was left in.         *)
Kept(t, l) ==
    IF t.on_alternate
    THEN /\ l.cursor = t.saved.cursor /\ l.pen = t.saved.pen
         /\ l.cursor \in [row : 0 .. l.size.rows - 1, col : 0 .. l.size.cols - 1]
    ELSE l = WhereLeft(t)

ReturnInv == Plain => Steady(term) /\ Kept(term, left)

(* ReturnRestores, as a relation of two states of a plain child. *)
Returns ==
    term.on_alternate /\ ~term'.on_alternate /\ term.size = left.size
        => \/ /\ term'.cursor = repair_cursor_cell([term' EXCEPT !.cursor = left.cursor]).cursor
              /\ term'.pen = left.pen
           \/ "terminal_reset" \in term'.events.flags

LEMMA KeptHandled ==
    ASSUME NEW sequence, NEW t, Handle(sequence, t), Kept(term, left),
           t.on_alternate = term.on_alternate, t.saved = term.saved
    PROVE  Kept(term', left')
<1>1. term' = t /\ left' = IF t.on_alternate THEN left ELSE WhereLeft(t)
  BY DEF Handle
<1> QED
  BY <1>1 DEF Kept

LEMMA ReturnSequence ==
    ASSUME SoundTerm, Ready(term), Plain, Steady(term), Kept(term, left),
           NEW sequence, NEW t, Handle(sequence, t), Ordinary
    PROVE  Steady(term') /\ Kept(term', left') /\ term'.on_alternate = term.on_alternate
<1>1. term' = t /\ term'.on_alternate = term.on_alternate /\ Shape(term)
  BY OrdinaryWorks DEF Handle, Works, Ready
<1>2. SUFFICES Steady(term') /\ term'.saved = term.saved
  BY <1>1, KeptHandled
<1>3. ~SaveCursor
  BY DEF SaveCursor, Handle, Plain
<1>4. CASE RestoreCursor
  BY <1>1, <1>4, RestoreSaves DEF RestoreCursor, Handle, Saves
<1>5. CASE SetMode
  <2>1. PICK mode, enable : mode \in repertoire /\ term' = set_mode(term, mode, enable)
    BY <1>5 DEF SetMode, Handle
  <2>2. mode # "origin"
    BY <2>1 DEF Plain
  <2> QED
    BY <1>1, <2>1, <2>2, ModesSave DEF Saves
<1>6. CASE SetMouse
  BY <1>1, <1>6, ModesSave DEF SetMouse, Handle, Saves
<1>7. CASE ~RestoreCursor /\ ~SetMode /\ ~SetMouse
  <2>1. Frozen(term, term')
    BY <1>3, <1>7, OrdinaryFrozen
  <2> QED
    BY <2>1, FrozenSteady DEF Frozen
<1> QED
  BY <1>4, <1>5, <1>6, <1>7

LEMMA ReturnReset ==
    ASSUME Ready(term), ResetChildState
    PROVE  /\ Steady(term') /\ Kept(term', left')
           /\ "terminal_reset" \in term'.events.flags
<1> DEFINE u == Restarted(term)
<1>1. Shape(u) /\ Steady(u)
  <2>1. Shape(u) /\ u.modes = DefaultModes /\ u.saved = DefaultSaved
    BY RestartedParts, Zenon
  <2> HIDE DEF u
  <2> QED
    BY <2>1 DEF Steady, DefaultModes, DefaultSaved
<1>0. reset_child_state(term) = report(u, "terminal_reset")
  BY Zenon DEF reset_child_state, Restarted
<1> HIDE DEF u
<1>2. Frozen(u, report(u, "terminal_reset"))
  BY <1>1, FrozenParts
<1>3. Steady(reset_child_state(term))
  BY <1>0, <1>1, <1>2, FrozenSteady
<1>4. term' = reset_child_state(term)
      /\ left' = IF term'.on_alternate THEN left ELSE WhereLeft(term')
  BY DEF ResetChildState, Handle
<1>5. term'.on_alternate = FALSE /\ "terminal_reset" \in term'.events.flags
  BY <1>4, ResetTells
<1> QED
  BY <1>3, <1>4, <1>5 DEF Kept

(* Entering saves what the primary screen is left with; leaving restores it. *)
LEMMA ReturnSwitch ==
    ASSUME SoundTerm, Ready(term), Steady(term), Kept(term, left), SetAlternate
    PROVE  Steady(term') /\ Kept(term', left') /\ Returns
<1>1. PICK enable, clear_on_enter :
          /\ term' = set_alternate(term, enable, clear_on_enter)
          /\ left' = IF term'.on_alternate THEN left ELSE WhereLeft(term')
  BY DEF SetAlternate, Handle
<1>2. Shape(term)
  BY DEF Ready
<1>3. CASE enable
  <2> DEFINE u == enter_alternate(term)
  <2>1. /\ Shape(u) /\ Steady(u) /\ u.on_alternate
        /\ term.on_alternate => u = term
        /\ ~term.on_alternate => u.saved.cursor = term.cursor /\ u.saved.pen = term.pen
    BY <1>2, EnterSaves
  <2> HIDE DEF u
  <2>2. Saves(u, clear_alternate(u)) /\ clear_alternate(u).on_alternate = u.on_alternate
    BY <2>1, ClearSaves
  <2>3. term' = u \/ term' = clear_alternate(u)
    BY <1>1, <1>3 DEF set_alternate, u
  <2>4. Steady(term') /\ term'.saved = u.saved /\ term'.on_alternate
    BY <2>1, <2>2, <2>3 DEF Saves
  <2>5. /\ left.cursor = u.saved.cursor /\ left.pen = u.saved.pen
        /\ left.cursor \in [row : 0 .. left.size.rows - 1, col : 0 .. left.size.cols - 1]
    BY <2>1 DEF Kept, WhereLeft, SoundTerm, Sound, Bounded, last_row, last_col
  <2>6. Kept(term', left')
    BY <1>1, <2>4, <2>5 DEF Kept
  <2> QED
    BY <2>4, <2>6 DEF Returns
<1>4. CASE ~enable /\ term.on_alternate
  <2> DEFINE u == [term EXCEPT !.on_alternate = FALSE]
  <2>1. /\ Shape(u) /\ Steady(u) /\ u.on_alternate = FALSE /\ u.saved = term.saved
        /\ u.size = term.size
    BY <1>2 DEF Shape, Fields, Steady
  <2>2. term' = restore_cursor(u)
    BY <1>1, <1>4 DEF set_alternate
  <2> HIDE DEF u
  <2>3. /\ Steady(term') /\ term'.on_alternate = FALSE /\ term'.pen = left.pen
    BY <1>4, <2>1, <2>2, RestoreSaves DEF Saves, Kept
  <2>4. Kept(term', left')
    BY <1>1, <2>3 DEF Kept
  <2>5. ASSUME term.size = left.size
        PROVE  term'.cursor = repair_cursor_cell([term' EXCEPT !.cursor = left.cursor]).cursor
    <3>1. u.size \in Size /\ left.cursor = u.saved.cursor
          /\ u.saved.cursor \in [row : 0 .. last_row(u), col : 0 .. last_col(u)]
      BY <1>4, <2>1, <2>5 DEF Kept, SoundTerm, Sound, last_row, last_col
    <3> QED
      BY <2>1, <2>2, <3>1, RestoreSaves
  <2> QED
    BY <2>3, <2>4, <2>5 DEF Returns
<1>5. CASE ~enable /\ ~term.on_alternate
  <2>1. term' = term /\ left' = WhereLeft(term')
    BY <1>1, <1>5 DEF set_alternate
  <2> QED
    BY <1>5, <2>1 DEF Kept, Returns
<1> QED
  BY <1>3, <1>4, <1>5

(* The end of a feed and the caller, unless it resizes, leave all of this be. *)
LEMMA ReturnQuiet ==
    ASSUME Ready(term), Steady(term), Kept(term, left),
           EndFeed \/ DequeueEvent \/ TrimScrollback \/ AdvanceReplyBytes
    PROVE  Steady(term') /\ Kept(term', left') /\ term'.on_alternate = term.on_alternate
<1>1. left' = left
  BY DEF EndFeed, DequeueEvent, TrimScrollback, AdvanceReplyBytes
<1> DEFINE Parts == {"size", "on_alternate", "cursor", "saved", "pen", "modes"}
<1>2. CASE EndFeed
  <2>1. \A f \in Parts : term'[f] = term[f]
    BY <1>2, FeedEndTells DEF EndFeed, Fields
  <2> QED
    BY <1>1, <2>1 DEF Steady, Kept, WhereLeft
<1>3. CASE DequeueEvent
  <2>1. \A f \in Parts : term'[f] = term[f]
    BY <1>3, DequeueTells DEF DequeueEvent, Fields
  <2> QED
    BY <1>1, <2>1 DEF Steady, Kept, WhereLeft
<1>4. CASE TrimScrollback
  <2>1. \A f \in Parts : term'[f] = term[f]
    BY <1>4, TrimTells DEF TrimScrollback, Fields
  <2> QED
    BY <1>1, <2>1 DEF Steady, Kept, WhereLeft
<1>5. CASE AdvanceReplyBytes
  <2>1. \A f \in Parts : term'[f] = term[f]
    BY <1>5 DEF AdvanceReplyBytes, Ready, Shape, Fields
  <2> QED
    BY <1>1, <2>1 DEF Steady, Kept, WhereLeft
<1> QED
  BY <1>2, <1>3, <1>4, <1>5

LEMMA ReturnResize ==
    ASSUME Ready(term), Steady(term), Kept(term, left), Resize
    PROVE  Steady(term') /\ Kept(term', left') /\ term'.on_alternate = term.on_alternate
<1>1. PICK size : term' = resize_terminal(term, size)
  BY DEF Resize
<1>2. term'.on_alternate = term.on_alternate /\ Frozen(term, term')
  BY <1>1, ResizeTells, ResizeFrozen DEF Ready
<1>3. left' = IF term.on_alternate THEN left ELSE WhereLeft(term')
  BY DEF Resize
<1>4. Steady(term') /\ term'.saved = term.saved
  BY <1>2, FrozenSteady DEF Frozen
<1> QED
  BY <1>2, <1>3, <1>4 DEF Kept

LEMMA ReturnStep ==
    ASSUME ContentInv(FALSE), Ready(term), ReturnInv, [Next]_vars
    PROVE  ReturnInv' /\ (Plain => Returns)
<1>1. repertoire' = repertoire
  BY BookkeepingStep DEF ContentInv
<1>2. SUFFICES ASSUME Plain
               PROVE  Steady(term') /\ Kept(term', left') /\ Returns
  BY <1>1 DEF ReturnInv, Plain
<1>3. SoundTerm /\ Steady(term) /\ Kept(term, left)
  BY <1>2 DEF ReturnInv, ContentInv
<1>4. term'.on_alternate = term.on_alternate => Returns
  BY DEF Returns
<1>5. CASE Ordinary
  <2>1. \E sequence, t : Handle(sequence, t)
    BY <1>5
    DEF Ordinary, PrintChar, Backspace, HorizontalTab, LineFeed, CarriageReturn, RingBell,
        SaveCursor, RestoreCursor, NextLine, ReverseIndex,
        CursorUp, CursorDown, CursorForward, CursorBackward,
        CursorNextLine, CursorPreviousLine, SetCol, SetRow, SetPosition,
        EraseDisplay, EraseLine, EraseChars, InsertChars, DeleteChars,
        InsertLines, DeleteLines, ScrollUp, ScrollDown, SetScrollRegion,
        SetMode, SetMouse, DeviceStatus, PrimaryDa,
        SgrReset, SgrLook, OscTitle, OscRequest, OscHyperlink
  <2> QED
    BY <1>2, <1>3, <1>4, <1>5, <2>1, ReturnSequence
<1>6. CASE ResetChildState
  BY <1>6, ReturnReset DEF Returns
<1>7. CASE SetAlternate
  BY <1>3, <1>7, ReturnSwitch
<1>8. CASE EndFeed \/ DequeueEvent \/ TrimScrollback \/ AdvanceReplyBytes
  BY <1>3, <1>4, <1>8, ReturnQuiet
<1>9. CASE Resize
  BY <1>3, <1>4, <1>9, ReturnResize
<1>10. CASE UNCHANGED vars
  BY <1>3, <1>4, <1>10 DEF vars
<1> QED
  BY <1>5, <1>6, <1>7, <1>8, <1>9, <1>10 DEF Next, Feed, Ordinary

(* A child that enters the alternate screen and returns finds the cursor and  *)
(* the pen of the primary screen as it left them, however often it entered,   *)
(* whatever it drew, and however often the caller resized to other sizes and  *)
(* back, as long as it uses neither DECSC nor origin mode.                    *)
THEOREM PrimaryIsRestored == Spec => ReturnRestores
<1> DEFINE Inv == ContentInv(FALSE) /\ Ready(term) /\ ReturnInv
           Restored == Plain => Returns
<1>1. Init => Inv
  <2>1. ASSUME Init PROVE ReturnInv
    <3>1. PICK size : term = new(size) /\ left = WhereLeft(new(size))
      BY <2>1 DEF Init
    <3>2. Steady(new(size)) /\ new(size).on_alternate = FALSE
      BY DEF new, Steady, DefaultModes, DefaultSaved
    <3> QED
      BY <3>1, <3>2 DEF ReturnInv, Kept
  <2> QED
    BY <2>1, ContentInit, ReadyInit
<1>2. Inv /\ [Next]_vars => Inv'
  BY ContentStep, ReadyStep, ReturnStep
<1>3. Inv /\ [Next]_vars => [Restored]_vars
  BY ReturnStep
<1>4. Spec => [][Restored]_vars
  <2> HIDE DEF Inv, Restored
  <2> QED
    BY <1>1, <1>2, <1>3, PTL DEF Spec
<1>5. Restored => [term.on_alternate /\ ~term'.on_alternate /\ term.size = left.size
                   /\ repertoire \cap {"DECSC", "origin"} = {}
                   => \/ /\ term'.cursor = repair_cursor_cell([term' EXCEPT !.cursor = left.cursor]).cursor
                         /\ term'.pen = left.pen
                      \/ "terminal_reset" \in term'.events.flags]_vars
  BY DEF Plain, Returns
<1> QED
  BY <1>4, <1>5, PTL DEF ReturnRestores

-----------------------------------------------------------------------------
(* The text of a list of rows, and where a resize puts it.                    *)

piece(r) == IF HasContent(r) THEN <<glyphs(r)>> ELSE <<>>
pieces(rows) == [i \in DOMAIN rows |-> piece(rows[i])]
Glyphs(R) == {glyphs(r) : r \in R}

LEMMA Pieces ==
    ASSUME NEW R, NEW rows \in Seq(R)
    PROVE  /\ pieces(rows) \in Seq(Seq(Glyphs(R))) /\ Len(pieces(rows)) = Len(rows)
           /\ \A i \in 1 .. Len(rows) : pieces(rows)[i] = piece(rows[i])
           /\ \A r \in R : piece(r) \in Seq(Glyphs(R))
           /\ TextOf(rows) = FlattenSeq(pieces(rows))
<1>1. ASSUME NEW r \in R PROVE piece(r) \in Seq(Glyphs(R))
  <2>1. glyphs(r) \in Glyphs(R)
    BY DEF Glyphs
  <2> QED
    BY <2>1 DEF piece
<1> DEFINE n == Len(rows)
<1>2. n \in Nat /\ DOMAIN rows = 1 .. n /\ \A i \in 1 .. n : rows[i] \in R
  OBVIOUS
<1> HIDE DEF n
<1>3. pieces(rows) \in [1 .. n -> Seq(Glyphs(R))]
  BY <1>1, <1>2 DEF pieces
<1>4. \A i \in 1 .. n : pieces(rows)[i] = piece(rows[i])
  BY <1>2 DEF pieces
<1>5. pieces(rows) \in Seq(Seq(Glyphs(R))) /\ Len(pieces(rows)) = n
  BY <1>2, <1>3
<1>6. TextOf(rows) = FlattenSeq(pieces(rows))
  BY DEF TextOf, pieces, piece
<1> QED
  BY <1>1, <1>4, <1>5, <1>6 DEF n

LEMMA ConcatParts ==
    ASSUME NEW T, NEW s, NEW t, s \in Seq(T) /\ t \in Seq(T)
    PROVE  /\ s \o t \in Seq(T) /\ Len(s \o t) = Len(s) + Len(t)
           /\ \A i \in 1 .. Len(s) : (s \o t)[i] = s[i]
           /\ \A i \in 1 .. Len(t) : (s \o t)[Len(s) + i] = t[i]
OBVIOUS

LEMMA TextConcat ==
    ASSUME NEW R, NEW a \in Seq(R), NEW b \in Seq(R)
    PROVE  /\ TextOf(a) \in Seq(Glyphs(R)) /\ TextOf(b) \in Seq(Glyphs(R))
           /\ TextOf(a \o b) = TextOf(a) \o TextOf(b)
<1> DEFINE A == Len(a)
           B == Len(b)
           c == a \o b
<1>1. /\ A \in Nat /\ B \in Nat /\ c \in Seq(R) /\ Len(c) = A + B
      /\ \A i \in 1 .. A : c[i] = a[i]
      /\ \A i \in 1 .. B : c[A + i] = b[i]
  OBVIOUS
<1> HIDE DEF c
<1> DEFINE p == pieces(a)
           q == pieces(b)
<1>2. /\ p \in Seq(Seq(Glyphs(R))) /\ Len(p) = A /\ (\A i \in 1 .. A : p[i] = piece(a[i]))
      /\ TextOf(a) = FlattenSeq(p)
  BY Pieces
<1>3. /\ q \in Seq(Seq(Glyphs(R))) /\ Len(q) = B /\ (\A i \in 1 .. B : q[i] = piece(b[i]))
      /\ TextOf(b) = FlattenSeq(q)
  BY Pieces
<1>4. /\ pieces(c) \in Seq(Seq(Glyphs(R))) /\ Len(pieces(c)) = A + B
      /\ (\A i \in 1 .. A + B : pieces(c)[i] = piece(c[i]))
      /\ TextOf(c) = FlattenSeq(pieces(c))
  BY <1>1, Pieces
<1> HIDE DEF A, B, p, q
<1> DEFINE T == Seq(Glyphs(R))
<1>5. p \in Seq(T) /\ q \in Seq(T) /\ pieces(c) \in Seq(T)
  BY <1>2, <1>3, <1>4
<1> HIDE DEF T
<1>6. /\ p \o q \in Seq(T) /\ Len(p \o q) = A + B
      /\ \A i \in 1 .. A : (p \o q)[i] = p[i]
      /\ \A i \in 1 .. B : (p \o q)[A + i] = q[i]
  <2>0. p \in Seq(T) /\ q \in Seq(T)
    BY <1>5
  <2>1. /\ p \o q \in Seq(T) /\ Len(p \o q) = Len(p) + Len(q)
        /\ \A i \in 1 .. Len(p) : (p \o q)[i] = p[i]
        /\ \A i \in 1 .. Len(q) : (p \o q)[Len(p) + i] = q[i]
    BY <2>0, ConcatParts
  <2> QED
    BY <1>2, <1>3, <2>1, Zenon
<1>7. ASSUME NEW i \in 1 .. A + B PROVE pieces(c)[i] = (p \o q)[i]
  <2>1. pieces(c)[i] = piece(c[i])
    BY <1>4
  <2>2. CASE i <= A
    <3>1. i \in 1 .. A
      BY <1>1, <2>2
    <3>2. c[i] = a[i] /\ p[i] = piece(a[i]) /\ (p \o q)[i] = p[i]
      BY <1>1, <1>2, <1>6, <3>1
    <3> QED
      BY <2>1, <3>2
  <2>3. CASE i > A
    <3> DEFINE j == i - A
    <3>1. j \in 1 .. B /\ A + j = i
      BY <1>1, <2>3
    <3> HIDE DEF j
    <3>2. c[A + j] = b[j] /\ q[j] = piece(b[j]) /\ (p \o q)[A + j] = q[j]
      BY <1>1, <1>3, <1>6, <3>1, Zenon
    <3>3. c[i] = b[j] /\ (p \o q)[i] = q[j]
      BY <3>1, <3>2
    <3> QED
      BY <2>1, <3>2, <3>3, Zenon
  <2>4. A \in Nat /\ B \in Nat
    BY <1>1
  <2>5. i <= A \/ i > A
    BY <2>4
  <2> QED
    BY <2>2, <2>3, <2>5, Zenon
<1>8. pieces(c) = p \o q
  BY <1>4, <1>5, <1>6, <1>7, SeqEqual
<1>9. FlattenSeq(p \o q) = FlattenSeq(p) \o FlattenSeq(q)
      /\ FlattenSeq(p) \in Seq(Glyphs(R)) /\ FlattenSeq(q) \in Seq(Glyphs(R))
  BY <1>2, <1>3, FlattenConcat
<1> QED
  BY <1>2, <1>3, <1>4, <1>8, <1>9 DEF c

LEMMA TextSingle ==
    ASSUME NEW R, NEW r \in R
    PROVE  TextOf(<<r>>) = piece(r)
<1> DEFINE s == <<r>>
<1>1. s \in Seq(R) /\ Len(s) = 1 /\ s[1] = r
  OBVIOUS
<1> HIDE DEF s
<1> DEFINE p == pieces(s)
<1>2. /\ p \in Seq(Seq(Glyphs(R))) /\ Len(p) = Len(s)
      /\ (\A i \in 1 .. Len(s) : p[i] = piece(s[i])) /\ TextOf(s) = FlattenSeq(p)
  BY <1>1, Pieces
<1>3. piece(r) \in Seq(Glyphs(R))
  BY <1>1, Pieces
<1> HIDE DEF p
<1>4. Len(p) = 1 /\ p[1] = piece(r)
  BY <1>1, <1>2
<1>5. PICK f \in Joins(Glyphs(R), Len(p), p) : FlattenSeq(p) = f[Len(p)]
  BY <1>2, FlattenRuns
<1>6. f[0] = <<>> /\ \A k \in 1 .. 1 : f[k] = f[k - 1] \o p[k]
  BY <1>4, <1>5 DEF Joins
<1>7. 1 \in 1 .. 1 /\ 1 - 1 = 0
  OBVIOUS
<1>8. f[1] = <<>> \o p[1]
  BY <1>6, <1>7
<1>9. <<>> \o piece(r) = piece(r)
  BY <1>3
<1> QED
  BY <1>2, <1>4, <1>5, <1>8, <1>9 DEF s

(* The rows that draw nothing have no text. *)
LEMMA ContentsText ==
    ASSUME NEW R, NEW rows \in Seq(R)
    PROVE  contents(rows) \in Seq(R) /\ TextOf(contents(rows)) = TextOf(rows)
<1> DEFINE n == Len(rows)
           G == Glyphs(R)
<1>1. n \in Nat /\ \A k \in 1 .. n : rows[k] \in R
  OBVIOUS
<1>2. PICK f \in Gathers(R, rows) : contents(rows) = f[n]
  BY ContentsGather
<1>3. /\ \A k \in 0 .. n : f[k] \in Seq({r \in R : HasContent(r)})
      /\ f[0] = <<>>
      /\ \A k \in 1 .. n : f[k] = IF HasContent(rows[k]) THEN Append(f[k - 1], rows[k])
                                  ELSE f[k - 1]
  BY <1>2 DEF Gathers
<1>4. pieces(rows) \in Seq(Seq(G)) /\ Len(pieces(rows)) = n
      /\ (\A k \in 1 .. n : pieces(rows)[k] = piece(rows[k])) /\ TextOf(rows) = FlattenSeq(pieces(rows))
      /\ \A r \in R : piece(r) \in Seq(G)
  BY Pieces
<1>5. PICK g \in Joins(G, n, pieces(rows)) : TextOf(rows) = g[n]
  BY <1>4, FlattenRuns
<1>6. g \in [0 .. n -> Seq(G)] /\ g[0] = <<>> /\ \A k \in 1 .. n : g[k] = g[k - 1] \o piece(rows[k])
  BY <1>4, <1>5 DEF Joins
<1> HIDE DEF n, G
<1>7. \A k \in 0 .. n : f[k] \in Seq(R)
  <2>1. \A s : s \in Seq({r \in R : HasContent(r)}) => s \in Seq(R)
    OBVIOUS
  <2> QED
    BY <1>3, <2>1
<1> DEFINE h == [k \in 0 .. n |-> TextOf(f[k])]
<1>8. h[0] = g[0]
  <2>1. TextOf(<<>>) = <<>>
    <3>1. <<>> \in Seq(R)
      OBVIOUS
    <3>2. pieces(<<>>) = <<>>
      BY DEF pieces
    <3>3. FlattenSeq(<<>>) = <<>>
      BY DEF FlattenSeq
    <3> QED
      BY <3>1, <3>2, <3>3, Pieces
  <2> QED
    BY <1>1, <1>3, <1>6, <2>1
<1>9. ASSUME NEW k \in 1 .. n, h[k - 1] = g[k - 1] PROVE h[k] = g[k]
  <2>1. k \in 0 .. n /\ k - 1 \in 0 .. n
    BY <1>1
  <2>2. h[k] = TextOf(f[k]) /\ TextOf(f[k - 1]) = g[k - 1]
    BY <1>9, <2>1
  <2>3. f[k - 1] \in Seq(R) /\ rows[k] \in R
    BY <1>1, <1>7, <2>1
  <2> HIDE DEF h
  <2>4. CASE HasContent(rows[k])
    <3>1. f[k] = f[k - 1] \o <<rows[k]>>
      <4>1. f[k] = Append(f[k - 1], rows[k])
        BY <1>3, <2>4
      <4>2. \A s \in Seq(R), x \in R : Append(s, x) = s \o <<x>>
        OBVIOUS
      <4> QED
        BY <2>3, <4>1, <4>2
    <3>2. <<rows[k]>> \in Seq(R)
      BY <2>3
    <3>3. TextOf(f[k]) = TextOf(f[k - 1]) \o TextOf(<<rows[k]>>)
      BY <2>3, <3>1, <3>2, TextConcat
    <3>4. TextOf(<<rows[k]>>) = piece(rows[k])
      BY <2>3, TextSingle
    <3> QED
      BY <1>6, <2>2, <3>3, <3>4
  <2>5. CASE ~HasContent(rows[k])
    <3>1. f[k] = f[k - 1]
      BY <1>3, <2>5
    <3>2. piece(rows[k]) = <<>>
      BY <2>5 DEF piece
    <3>3. g[k - 1] \in Seq(G)
      BY <1>6, <2>1
    <3>4. \A s \in Seq(G) : s \o <<>> = s
      OBVIOUS
    <3> QED
      BY <1>6, <2>2, <3>1, <3>2, <3>3, <3>4
  <2> QED
    BY <2>4, <2>5
<1>10. \A k \in 0 .. n : h[k] = g[k]
  <2> HIDE DEF h
  <2>1. SameSteps(n, h, g)
    BY <1>8, <1>9 DEF SameSteps
  <2>2. SameValues(n, h, g)
    BY <1>1, <2>1, StepsAgree
  <2> QED
    BY <2>2 DEF SameValues
<1>11. n \in 0 .. n
  BY <1>1
<1>12. TextOf(f[n]) = g[n]
  BY <1>10, <1>11
<1> QED
  BY <1>2, <1>5, <1>7, <1>11, <1>12

(* The rows of a screen past content_rows draw nothing. *)
LEMMA RowsPastContent ==
    ASSUME NEW m \in Nat, NEW s, DOMAIN s.cells = 1 .. m
    PROVE  \A i \in 1 .. m : i > content_rows(s) => ~HasContent(s.cells[i])
<1> DEFINE kept == {i \in DOMAIN s.cells :
                       \E j \in DOMAIN s.cells : i <= j /\ HasContent(s.cells[j])}
<1> SUFFICES ASSUME NEW i \in 1 .. m, HasContent(s.cells[i])
             PROVE  i <= content_rows(s)
  <2>1. content_rows(s) \in 0 .. m
    BY ContentRows
  <2> QED
    BY <2>1
<1>1. kept \subseteq 1 .. m /\ 1 .. i \subseteq kept
  OBVIOUS
<1> HIDE DEF kept
<1>2. IsFiniteSet(1 .. m)
  BY FS_Interval
<1>3. IsFiniteSet(kept)
  BY <1>1, <1>2, FS_Subset
<1>4. Cardinality(1 .. i) = i
  BY FS_Interval
<1>5. Cardinality(1 .. i) <= Cardinality(kept)
  BY <1>1, <1>3, FS_Subset
<1> QED
  BY <1>4, <1>5 DEF content_rows, kept

(* Where a row of a screen goes in a resize that keeps the width: up by the   *)
(* shift, with its glyphs; the rows that leave are above, and the other rows  *)
(* of the resized screen are blank.                                           *)
Moved(a, b, shift, kept) ==
    /\ shift \in 0 .. Len(a) /\ kept \in 0 .. Len(b) /\ shift + kept \in 0 .. Len(a)
    /\ \A i \in 1 .. Len(a) : i > shift + kept => ~HasContent(a[i])
    /\ \A i \in 1 .. kept : glyphs(b[i]) = glyphs(a[i + shift])
    /\ \A i \in 1 .. Len(b) : i > kept => ~HasContent(b[i])

Padded(r, n, cols) ==
    [j \in 1 .. cols |-> IF j > Least(n, cols) THEN EMPTY
                         ELSE IF j = Least(n, cols) /\ r[j].width = 2 THEN EMPTY
                         ELSE r[j]]

LEMMA PaddedGlyphs ==
    ASSUME NEW L, NEW n \in Nat \ {0}, NEW w, NEW r \in Line(n, L, w), NEW cols \in Nat, n <= cols
    PROVE  glyphs(Padded(r, n, cols)) = glyphs(r)
<1>1. r \in [1 .. n -> CellOf(L)] /\ EdgeNarrow(r, n)
  BY DEF Line
<1>2. Least(n, cols) = n /\ r[n].width # 2
  BY <1>1 DEF Least, EdgeNarrow
<1> DEFINE s == Padded(r, n, cols)
<1>3. \A j \in 1 .. n : s[j] = r[j]
  BY <1>2 DEF Padded
<1>4. \A j \in 1 .. cols : j > n => is_blank_glyph(s[j])
  BY <1>2 DEF is_blank_glyph, EMPTY, blank, Padded
<1>5. DOMAIN s = 1 .. cols /\ DOMAIN r = 1 .. n
  BY <1>1 DEF Padded
<1> HIDE DEF s
<1>6. {j \in DOMAIN s : ~is_blank_glyph(s[j])} = {j \in DOMAIN r : ~is_blank_glyph(r[j])}
  <2>1. \A j : (j \in 1 .. cols /\ ~is_blank_glyph(s[j])) <=> (j \in 1 .. n /\ ~is_blank_glyph(r[j]))
    <3> SUFFICES ASSUME NEW j
                 PROVE  (j \in 1 .. cols /\ ~is_blank_glyph(s[j]))
                            <=> (j \in 1 .. n /\ ~is_blank_glyph(r[j]))
      OBVIOUS
    <3>1. j \in 1 .. cols => j \in 1 .. n \/ j > n
      OBVIOUS
    <3>2. j \in 1 .. n => j \in 1 .. cols
      OBVIOUS
    <3> QED
      BY <1>3, <1>4, <3>1, <3>2, Zenon
  <2> QED
    BY <1>5, <2>1
<1>7. \A j \in {j \in DOMAIN r : ~is_blank_glyph(r[j])} : s[j] = r[j]
  BY <1>3, <1>5
<1>8. glyphs(s) = glyphs(r)
  BY <1>6, <1>7 DEF glyphs
<1> QED
  BY <1>8 DEF s

LEMMA ResizeMoves ==
    ASSUME NEW m \in Nat \ {0}, NEW n \in Nat \ {0}, NEW L, NoLink \in L, NEW w,
           NEW s \in Pane(m, n, L, w), NEW rows \in Nat \ {0}, NEW cols \in Nat \ {0}, n <= cols
    PROVE  \E kept : Moved(s.cells, resize(s, rows, cols).cells, row_shift(s, rows), kept)
<1>1. s.cells \in [1 .. m -> Line(n, L, w)] /\ Rows(s) = m /\ Cols(s) = n
  BY PaneSize
<1> DEFINE shift == row_shift(s, rows)
           kept == IF rows >= Rows(s) THEN Rows(s) ELSE Least(content_rows(s), rows)
           width == Least(Cols(s), cols)
           cell(i, j) == s.cells[i + shift][j]
           line(i) == [j \in 1 .. cols |->
                          IF i > kept \/ j > width THEN EMPTY
                          ELSE IF j = width /\ cell(i, j).width = 2 THEN EMPTY
                          ELSE cell(i, j)]
           u == resize(s, rows, cols)
<1>2. content_rows(s) \in 0 .. m
  BY <1>1, ContentRows
<1>3. \A i \in 1 .. m : i > content_rows(s) => ~HasContent(s.cells[i])
  BY <1>1, RowsPastContent
<1>4. shift \in 0 .. m /\ kept \in 0 .. rows /\ shift + kept \in 0 .. m
      /\ (shift + kept = m \/ shift + kept = content_rows(s))
  BY <1>1, <1>2 DEF row_shift, Monus, Least
<1>5. u.cells = [i \in 1 .. rows |-> line(i)]
  BY DEF resize
<1>6. Len(u.cells) = rows /\ Len(s.cells) = m
  BY <1>1, <1>5
<1> HIDE DEF shift, kept, u
<1>7. ASSUME NEW i \in 1 .. kept PROVE glyphs(u.cells[i]) = glyphs(s.cells[i + shift])
  <2> DEFINE r == s.cells[i + shift]
  <2>1. r \in Line(n, L, w) /\ i \in 1 .. rows
    BY <1>1, <1>4
  <2>2. u.cells[i] = Padded(r, n, cols)
    BY <1>1, <1>4, <1>5, <2>1 DEF Padded
  <2> HIDE DEF r
  <2>3. glyphs(Padded(r, n, cols)) = glyphs(r)
    BY <2>1, PaddedGlyphs
  <2> QED
    BY <2>2, <2>3 DEF r
<1>8. ASSUME NEW i \in 1 .. rows, i > kept PROVE ~HasContent(u.cells[i])
  <2> DEFINE l == line(i)
  <2>1. \A j \in DOMAIN l : l[j] = EMPTY
    BY <1>8
  <2>2. is_blank_glyph(EMPTY)
    BY DEF is_blank_glyph, EMPTY, blank
  <2>3. u.cells[i] = l
    BY <1>5
  <2> HIDE DEF l
  <2> QED
    BY <2>1, <2>2, <2>3 DEF HasContent
<1>9. \A i \in 1 .. m : i > shift + kept => ~HasContent(s.cells[i])
  BY <1>3, <1>4
<1>10. Moved(s.cells, u.cells, shift, kept)
  BY <1>4, <1>7, <1>8, <1>9, <1>6, Zenon DEF Moved
<1> QED
  BY <1>10 DEF u, shift

LEMMA SplitParts ==
    ASSUME NEW T, NEW s, NEW k, s \in Seq(T) /\ k \in 0 .. Len(s)
    PROVE  /\ SubSeq(s, 1, k) \in Seq(T) /\ Len(SubSeq(s, 1, k)) = k
           /\ SubSeq(s, k + 1, Len(s)) \in Seq(T) /\ Len(SubSeq(s, k + 1, Len(s))) = Len(s) - k
           /\ \A i \in 1 .. k : SubSeq(s, 1, k)[i] = s[i]
           /\ \A i \in 1 .. Len(s) - k : SubSeq(s, k + 1, Len(s))[i] = s[k + i]
<1> DEFINE n == Len(s)
<1>1. n \in Nat /\ k \in 0 .. n /\ \A i \in 1 .. n : s[i] \in T
  OBVIOUS
<1> HIDE DEF n
<1>2. /\ 1 \in Int /\ k \in Int /\ (1 <= k \/ k = 0) /\ (\A i \in 1 .. k : s[i] \in T)
      /\ k - 1 + 1 = k /\ \A i \in 1 .. k : 1 + i - 1 = i
  BY <1>1
<1>3. /\ k + 1 \in Int /\ n \in Int /\ (k + 1 <= n \/ n = k) /\ (\A i \in k + 1 .. n : s[i] \in T)
      /\ n - (k + 1) + 1 = n - k /\ \A i \in 1 .. n - k : (k + 1) + i - 1 = k + i
  BY <1>1
<1>4. /\ SubSeq(s, 1, k) \in Seq(T) /\ Len(SubSeq(s, 1, k)) = k
      /\ \A i \in 1 .. k : SubSeq(s, 1, k)[i] = s[i]
  BY <1>2, SubSeqProperties
<1>5. /\ SubSeq(s, k + 1, n) \in Seq(T) /\ Len(SubSeq(s, k + 1, n)) = n - k
      /\ \A i \in 1 .. n - k : SubSeq(s, k + 1, n)[i] = s[k + i]
  BY <1>1, <1>3, SubSeqProperties
<1> QED
  BY <1>4, <1>5 DEF n

LEMMA Split ==
    ASSUME NEW T, NEW s, NEW k, s \in Seq(T) /\ k \in 0 .. Len(s)
    PROVE  s = SubSeq(s, 1, k) \o SubSeq(s, k + 1, Len(s))
<1> DEFINE a == SubSeq(s, 1, k)
           b == SubSeq(s, k + 1, Len(s))
           n == Len(s)
<1>1. /\ a \in Seq(T) /\ Len(a) = k /\ b \in Seq(T) /\ Len(b) = n - k
      /\ \A i \in 1 .. k : a[i] = s[i]
      /\ \A i \in 1 .. n - k : b[i] = s[k + i]
  BY SplitParts
<1>2. n \in Nat /\ k \in 0 .. n /\ s \in Seq(T)
  OBVIOUS
<1> HIDE DEF a, b
<1>3. a \in Seq(T) /\ b \in Seq(T)
  BY <1>1
<1>4. /\ a \o b \in Seq(T) /\ Len(a \o b) = Len(a) + Len(b)
      /\ \A i \in 1 .. Len(a) : (a \o b)[i] = a[i]
      /\ \A i \in 1 .. Len(b) : (a \o b)[Len(a) + i] = b[i]
  BY <1>3, ConcatParts
<1> DEFINE c == a \o b
<1>5. /\ c \in Seq(T) /\ Len(c) = k + (n - k)
      /\ \A i \in 1 .. k : c[i] = a[i]
      /\ \A i \in 1 .. n - k : c[k + i] = b[i]
  BY <1>1, <1>4, Zenon
<1>6. Len(s) = n
  OBVIOUS
<1> HIDE DEF c, n
<1>7. Len(c) = n
  BY <1>2, <1>5
<1>8. ASSUME NEW i \in 1 .. n PROVE s[i] = c[i]
  <2>1. CASE i <= k
    <3>1. i \in 1 .. k
      BY <2>1
    <3> QED
      BY <1>1, <1>5, <3>1, Zenon
  <2>2. CASE i > k
    <3> DEFINE j == i - k
    <3>1. j \in 1 .. n - k /\ k + j = i
      BY <1>2, <2>2
    <3> HIDE DEF j
    <3>2. b[j] = s[k + j] /\ c[k + j] = b[j]
      BY <1>1, <1>5, <3>1, Zenon
    <3> QED
      BY <3>1, <3>2
  <2>3. i <= k \/ i > k
    BY <1>2
  <2> QED
    BY <2>1, <2>2, <2>3, Zenon
<1>9. s = c
  BY <1>2, <1>5, <1>6, <1>7, <1>8, SeqEqual
<1> QED
  BY <1>9 DEF a, b, c, n

LEMMA TextSplit ==
    ASSUME NEW R, NEW s, NEW k, s \in Seq(R) /\ k \in 0 .. Len(s)
    PROVE  /\ TextOf(SubSeq(s, 1, k)) \in Seq(Glyphs(R))
           /\ TextOf(SubSeq(s, k + 1, Len(s))) \in Seq(Glyphs(R))
           /\ TextOf(s) = TextOf(SubSeq(s, 1, k)) \o TextOf(SubSeq(s, k + 1, Len(s)))
<1> DEFINE a == SubSeq(s, 1, k)
           b == SubSeq(s, k + 1, Len(s))
<1>1. a \in Seq(R) /\ b \in Seq(R)
  BY SplitParts
<1>2. s = a \o b
  BY Split
<1> HIDE DEF a, b
<1>3. /\ TextOf(a) \in Seq(Glyphs(R)) /\ TextOf(b) \in Seq(Glyphs(R))
      /\ TextOf(a \o b) = TextOf(a) \o TextOf(b)
  BY <1>1, TextConcat
<1> QED
  BY <1>2, <1>3 DEF a, b

LEMMA BlankText ==
    ASSUME NEW R, NEW s, s \in Seq(R) /\ \A i \in 1 .. Len(s) : ~HasContent(s[i])
    PROVE  TextOf(s) = <<>>
<1> DEFINE n == Len(s)
           p == pieces(s)
<1>1. n \in Nat /\ s \in Seq(R)
  OBVIOUS
<1>2. /\ p \in Seq(Seq(Glyphs(R))) /\ Len(p) = n /\ TextOf(s) = FlattenSeq(p)
      /\ \A i \in 1 .. n : p[i] = piece(s[i])
  BY <1>1, Pieces
<1> HIDE DEF p
<1>3. PICK f \in Joins(Glyphs(R), n, p) : FlattenSeq(p) = f[n]
  BY <1>2, FlattenRuns
<1>4. f[0] = <<>> /\ \A i \in 1 .. n : f[i] = f[i - 1] \o p[i]
  BY <1>3 DEF Joins
<1>5. \A i \in 1 .. n : p[i] = <<>>
  BY <1>2 DEF piece
<1> HIDE DEF n
<1>6. <<>> \o <<>> = <<>>
  OBVIOUS
<1> DEFINE nothing == {<<>>}
<1>7. f[0] \in nothing /\ \A i \in 1 .. n : f[i - 1] \in nothing => f[i] \in nothing
  BY <1>4, <1>5, <1>6
<1> HIDE DEF nothing
<1>8. \A i \in 0 .. n : f[i] \in nothing
  BY <1>1, <1>7, StepsKeep
<1>9. f[n] \in nothing
  BY <1>1, <1>8
<1> QED
  BY <1>2, <1>3, <1>9 DEF nothing

LEMMA SameText ==
    ASSUME NEW R, NEW a, NEW b, a \in Seq(R) /\ b \in Seq(R) /\ Len(a) = Len(b),
           \A i \in 1 .. Len(a) : glyphs(a[i]) = glyphs(b[i])
    PROVE  TextOf(a) = TextOf(b)
<1> DEFINE n == Len(a)
           T == Seq(Glyphs(R))
<1>1. a \in Seq(R) /\ b \in Seq(R) /\ Len(b) = n
  OBVIOUS
<1>2. /\ pieces(a) \in Seq(T) /\ Len(pieces(a)) = n /\ TextOf(a) = FlattenSeq(pieces(a))
      /\ \A i \in 1 .. n : pieces(a)[i] = piece(a[i])
  BY <1>1, Pieces
<1>3. /\ pieces(b) \in Seq(T) /\ Len(pieces(b)) = n /\ TextOf(b) = FlattenSeq(pieces(b))
      /\ \A i \in 1 .. n : pieces(b)[i] = piece(b[i])
  BY <1>1, Pieces
<1>4. \A r : DOMAIN glyphs(r) = {j \in DOMAIN r : ~is_blank_glyph(r[j])}
  BY DEF glyphs
<1>5. \A r : HasContent(r) <=> DOMAIN glyphs(r) # {}
  BY <1>4 DEF HasContent
<1>6. \A i \in 1 .. n : piece(a[i]) = piece(b[i])
  BY <1>5 DEF piece
<1> HIDE DEF T
<1>7. pieces(a) = pieces(b)
  BY <1>2, <1>3, <1>6, SeqEqual
<1> QED
  BY <1>2, <1>3, <1>7

LEMMA MovedText ==
    ASSUME NEW R, NEW a, NEW b, NEW shift, NEW kept,
           a \in Seq(R) /\ b \in Seq(R), Moved(a, b, shift, kept)
    PROVE  /\ SubSeq(a, 1, shift) \in Seq(R)
           /\ TextOf(a) = TextOf(SubSeq(a, 1, shift)) \o TextOf(b)
<1> DEFINE m == Len(a)
           rows == Len(b)
           G == Glyphs(R)
<1>1. a \in Seq(R) /\ Len(a) = m /\ b \in Seq(R) /\ Len(b) = rows /\ m \in Nat /\ rows \in Nat
  OBVIOUS
<1>2. /\ shift \in 0 .. m /\ kept \in 0 .. rows /\ shift + kept \in 0 .. m
      /\ \A i \in 1 .. m : i > shift + kept => ~HasContent(a[i])
      /\ \A i \in 1 .. kept : glyphs(b[i]) = glyphs(a[i + shift])
      /\ \A i \in 1 .. rows : i > kept => ~HasContent(b[i])
  BY DEF Moved
<1> HIDE DEF m, rows
<1> DEFINE c == SubSeq(a, shift + 1, m)
           l == m - shift
<1>3. /\ SubSeq(a, 1, shift) \in Seq(R) /\ c \in Seq(R) /\ Len(c) = l
      /\ \A i \in 1 .. l : c[i] = a[shift + i]
  BY <1>1, <1>2, SplitParts
<1>4. TextOf(a) = TextOf(SubSeq(a, 1, shift)) \o TextOf(c)
  BY <1>1, <1>2, TextSplit
<1>5. l \in Nat /\ kept \in 0 .. l
  BY <1>1, <1>2
<1> HIDE DEF c
<1> DEFINE cut(x) == SubSeq(x, 1, kept)
           rest(x) == SubSeq(x, kept + 1, Len(x))
<1>6. ASSUME NEW x, x \in Seq(R) /\ kept \in 0 .. Len(x),
             \A i \in 1 .. Len(x) : i > kept => ~HasContent(x[i])
      PROVE  TextOf(x) = TextOf(cut(x))
  <2> DEFINE z == rest(x)
             n == Len(x)
  <2>1. /\ TextOf(cut(x)) \in Seq(G) /\ TextOf(x) = TextOf(cut(x)) \o TextOf(z)
    BY <1>6, TextSplit
  <2>2. z \in Seq(R) /\ Len(z) = n - kept /\ \A i \in 1 .. n - kept : z[i] = x[kept + i]
    BY <1>6, SplitParts
  <2>3. n \in Nat /\ kept \in 0 .. n
    BY <1>6
  <2> HIDE DEF z
  <2>4. \A i \in 1 .. n - kept : kept + i \in 1 .. n /\ kept + i > kept
    <3> HIDE DEF n
    <3> QED
      BY <2>3
  <2>5. \A i \in 1 .. Len(z) : ~HasContent(z[i])
    BY <1>6, <2>2, <2>4
  <2>6. TextOf(z) = <<>>
    BY <2>2, <2>5, BlankText
  <2>7. \A t \in Seq(G) : t \o <<>> = t
    OBVIOUS
  <2> QED
    BY <2>1, <2>6, <2>7
<1>7. TextOf(c) = TextOf(cut(c))
  <2>1. \A i \in 1 .. l : shift + i \in 1 .. m /\ (i > kept => shift + i > shift + kept)
    BY <1>1, <1>2
  <2> HIDE DEF l
  <2>2. \A i \in 1 .. l : i > kept => ~HasContent(c[i])
    BY <1>2, <1>3, <2>1
  <2> QED
    BY <1>3, <1>5, <1>6, <2>2
<1>8. TextOf(b) = TextOf(cut(b))
  BY <1>1, <1>2, <1>6
<1>9. TextOf(cut(b)) = TextOf(cut(c))
  <2>1. cut(b) \in Seq(R) /\ Len(cut(b)) = kept /\ \A i \in 1 .. kept : cut(b)[i] = b[i]
    BY <1>1, <1>2, SplitParts
  <2>2. cut(c) \in Seq(R) /\ Len(cut(c)) = kept /\ \A i \in 1 .. kept : cut(c)[i] = c[i]
    BY <1>3, <1>5, SplitParts
  <2> HIDE DEF cut
  <2>3. \A i \in 1 .. kept : i \in 1 .. l /\ i + shift = shift + i
    BY <1>2, <1>5
  <2> HIDE DEF l
  <2>4. \A i \in 1 .. kept : glyphs(b[i]) = glyphs(c[i])
    BY <1>2, <1>3, <2>3
  <2>5. \A i \in 1 .. kept : glyphs(cut(b)[i]) = glyphs(cut(c)[i])
    BY <2>1, <2>2, <2>4
  <2> QED
    BY <2>1, <2>2, <2>5, SameText
<1> QED
  BY <1>3, <1>4, <1>7, <1>8, <1>9

-----------------------------------------------------------------------------
(* A resize keeps the text, and the cursor on its line.                       *)

(* What a resize does to the screens, the history and the cursor's row. *)
Resized(t, u, size) ==
    /\ u.primary.cells = resize(t.primary, size.rows, size.cols).cells
    /\ u.alternate.cells = resize(t.alternate, size.rows, size.cols).cells
    /\ u.on_alternate = t.on_alternate /\ u.size = size
    /\ u.cursor.row = Least(Monus(t.cursor.row, active_shift(t, size.rows)), size.rows - 1)
    /\ ~t.on_alternate =>
          LET dropped == dropped_rows(t.primary, size.rows)
          IN \/ u.scrollback = t.scrollback \o contents(dropped)
             \/ u.scrollback = t.scrollback /\ contents(dropped) = <<>>

LEMMA ResizeParts ==
    ASSUME NEW t, Shape(t), NEW size
    PROVE  Resized(t, resize_terminal(t, size), size)
<1> DEFINE dropped == dropped_rows(t.primary, size.rows)
           u == IF t.on_alternate THEN t ELSE push_displaced_to_scrollback(t, dropped)
           row == Monus(t.cursor.row, active_shift(t, size.rows))
           v == at(u, Least(row, size.rows - 1), Least(t.cursor.col, size.cols - 1))
           w == [v EXCEPT !.size = size, !.scroll_top = 0, !.scroll_bottom = size.rows - 1,
                          !.primary = take_dirty(resize(@, size.rows, size.cols)),
                          !.alternate = resize(@, size.rows, size.cols)]
           x == repair_cursor_cell(w)
           y == report(x, "screen_updated")
<1>1. /\ Shape(u) /\ u.primary = t.primary /\ u.alternate = t.alternate
      /\ u.on_alternate = t.on_alternate
      /\ ~t.on_alternate => \/ u.scrollback = t.scrollback \o contents(dropped)
                            \/ u.scrollback = t.scrollback /\ contents(dropped) = <<>>
  <2> HIDE DEF dropped
  <2> QED
    BY DEF push_displaced_to_scrollback, report, Shape, Fields
<1> HIDE DEF u, dropped, row
<1>2. /\ Shape(v) /\ v.primary = u.primary /\ v.alternate = u.alternate
      /\ v.on_alternate = u.on_alternate /\ v.scrollback = u.scrollback
      /\ v.cursor = [row |-> Least(row, size.rows - 1), col |-> Least(t.cursor.col, size.cols - 1)]
  BY <1>1 DEF at, Shape, Fields
<1> HIDE DEF v
<1>3. /\ Shape(w) /\ w.primary = take_dirty(resize(v.primary, size.rows, size.cols))
      /\ w.alternate = resize(v.alternate, size.rows, size.cols)
      /\ w.on_alternate = v.on_alternate /\ w.scrollback = v.scrollback /\ w.cursor = v.cursor
      /\ w.size = size
  BY <1>2 DEF Shape, Fields
<1> HIDE DEF w
<1>4. /\ Shape(x) /\ x.primary = w.primary /\ x.alternate = w.alternate /\ x.size = w.size
      /\ x.on_alternate = w.on_alternate /\ x.scrollback = w.scrollback
      /\ x.cursor.row = w.cursor.row
  <2> DEFINE moved == [w EXCEPT !.cursor.col = @ - 1]
  <2>1. /\ Shape(moved) /\ moved.primary = w.primary /\ moved.alternate = w.alternate
        /\ moved.size = w.size /\ moved.on_alternate = w.on_alternate
        /\ moved.scrollback = w.scrollback
    BY <1>3 DEF Shape, Fields
  <2>2. moved.cursor.row = w.cursor.row
    BY <1>2, <1>3 DEF Shape, Fields
  <2>3. x = moved \/ x = w
    BY Zenon DEF repair_cursor_cell
  <2> HIDE DEF moved, x
  <2> QED
    BY <1>3, <2>1, <2>2, <2>3
<1> HIDE DEF x
<1>5. /\ y.primary = x.primary /\ y.alternate = x.alternate /\ y.size = x.size
      /\ y.on_alternate = x.on_alternate /\ y.scrollback = x.scrollback
      /\ y.cursor = x.cursor
  BY <1>4 DEF report, Shape, Fields
<1>6. /\ y = resize_terminal(t, size)
      /\ take_dirty(resize(t.primary, size.rows, size.cols)).cells
             = resize(t.primary, size.rows, size.cols).cells
  BY DEF resize_terminal, u, v, w, x, y, row, dropped, take_dirty, resize
<1> HIDE DEF y
<1>7. /\ y.primary.cells = resize(t.primary, size.rows, size.cols).cells
      /\ y.alternate.cells = resize(t.alternate, size.rows, size.cols).cells
      /\ y.on_alternate = t.on_alternate /\ y.size = size
      /\ y.cursor.row = Least(row, size.rows - 1)
      /\ ~t.on_alternate => \/ y.scrollback = t.scrollback \o contents(dropped)
                            \/ y.scrollback = t.scrollback /\ contents(dropped) = <<>>
  BY <1>1, <1>2, <1>3, <1>4, <1>5, <1>6
<1> QED
  BY <1>6, <1>7 DEF Resized, row, dropped

Widens(t, L, K, w, size) ==
    /\ Sound(t) /\ Tidy(t, L, K, w) /\ t.on_alternate = FALSE
    /\ size \in Size /\ size.cols >= t.size.cols
TextKept(t, u) == Text(u) = Text(t)

LEMMA ResizeText ==
    ASSUME NEW L, NEW K, NEW w, NEW t, NEW size, Widens(t, L, K, w, size)
    PROVE  TextKept(t, resize_terminal(t, size))
<1>0. /\ Sound(t) /\ Tidy(t, L, K, w) /\ t.on_alternate = FALSE
      /\ size \in Size /\ size.cols >= t.size.cols
  BY DEF Widens
<1> USE <1>0
<1> DEFINE u == resize_terminal(t, size)
           m == t.size.rows
           n == t.size.cols
           s == t.primary
           v == resize(s, size.rows, size.cols)
           shift == row_shift(s, size.rows)
           dropped == SubSeq(s.cells, 1, shift)
           R == UNION {Line(l, L, w) : l \in Nat}
           G == Glyphs(R)
<1>1. /\ m \in Nat \ {0} /\ n \in Nat \ {0} /\ size.rows \in Nat \ {0} /\ size.cols \in Nat \ {0}
      /\ n <= size.cols
      /\ s \in Pane(m, n, L, w) /\ NoLink \in L /\ t.scrollback \in Seq(Retained(L, w))
  BY DEF Tidy, Sound, Size
<1>2. /\ u.primary.cells = v.cells
      /\ \/ u.scrollback = t.scrollback \o contents(dropped)
         \/ u.scrollback = t.scrollback /\ contents(dropped) = <<>>
  <2>1. Resized(t, u, size)
    BY ResizeParts DEF Sound
  <2> HIDE DEF u
  <2> QED
    BY <2>1 DEF Resized, dropped_rows
<1> HIDE DEF u
<1>3. t.scrollback \in Seq(R)
  <2>1. Retained(L, w) \subseteq R
    BY DEF Retained
  <2> HIDE DEF R
  <2> QED
    BY <1>1, <2>1
<1>4. PICK kept : Moved(s.cells, v.cells, shift, kept)
  BY <1>1, ResizeMoves
<1>5. s.cells \in [1 .. m -> R] /\ v.cells \in [1 .. size.rows -> R]
  <2>1. v \in Pane(size.rows, size.cols, L, w)
    BY <1>1, ResizePane
  <2> HIDE DEF v
  <2>2. s.cells \in [1 .. m -> Line(n, L, w)] /\ v.cells \in [1 .. size.rows -> Line(size.cols, L, w)]
    BY <1>1, <2>1, PaneSize
  <2>3. Line(n, L, w) \subseteq R /\ Line(size.cols, L, w) \subseteq R
    BY <1>1
  <2> HIDE DEF R
  <2> QED
    BY <2>2, <2>3
<1> HIDE DEF m, n, s, v, shift, R
<1>6. s.cells \in Seq(R) /\ v.cells \in Seq(R)
  <2>1. m \in Nat /\ size.rows \in Nat
    BY <1>1
  <2>2. \A k \in Nat : [1 .. k -> R] \subseteq Seq(R)
    OBVIOUS
  <2> QED
    BY <1>5, <2>1, <2>2, Zenon
<1> DEFINE h == t.scrollback
           c == contents(dropped)
           a == s.cells
           b == v.cells
<1>7. dropped \in Seq(R) /\ TextOf(a) = TextOf(dropped) \o TextOf(b)
  <2> HIDE DEF a, b
  <2>1. a \in Seq(R) /\ b \in Seq(R)
    BY <1>6 DEF a, b
  <2>2. Moved(a, b, shift, kept)
    BY <1>4 DEF a, b
  <2>3. SubSeq(a, 1, shift) \in Seq(R) /\ TextOf(a) = TextOf(SubSeq(a, 1, shift)) \o TextOf(b)
    BY <2>1, <2>2, MovedText
  <2> QED
    BY <2>3 DEF a
<1> HIDE DEF dropped
<1>8. c \in Seq(R) /\ TextOf(c) = TextOf(dropped) /\ h \in Seq(R) /\ a \in Seq(R) /\ b \in Seq(R)
  BY <1>3, <1>6, <1>7, ContentsText
<1>9. u.scrollback = h \o c
  <2>1. h \o <<>> = h
    BY <1>8
  <2> QED
    BY <1>2, <2>1
<1> HIDE DEF h, c, a, b
<1>10. h \o c \in Seq(R)
  BY <1>8
<1>11. /\ TextOf(h) \in Seq(G) /\ TextOf(c) \in Seq(G) /\ TextOf(b) \in Seq(G)
       /\ TextOf(h \o c) = TextOf(h) \o TextOf(c)
       /\ TextOf((h \o c) \o b) = TextOf(h \o c) \o TextOf(b)
       /\ TextOf(h \o a) = TextOf(h) \o TextOf(a)
  BY <1>8, <1>10, TextConcat
<1>12. (TextOf(h) \o TextOf(c)) \o TextOf(b) = TextOf(h) \o (TextOf(c) \o TextOf(b))
  <2>1. ThreeOf(G, TextOf(h), TextOf(c), TextOf(b))
    BY <1>11 DEF ThreeOf
  <2>2. Regrouped(TextOf(h), TextOf(c), TextOf(b))
    BY <2>1, Associative, Zenon
  <2> QED
    BY <2>2, Zenon DEF Regrouped
<1>13. TextOf(a) = TextOf(c) \o TextOf(b)
  BY <1>7, <1>8
<1>14. Text(u) = TextOf((h \o c) \o b) /\ Text(t) = TextOf(h \o a)
  BY <1>2, <1>9 DEF Text, h, a, b, s
<1>15. Text(u) = Text(t)
  BY <1>11, <1>12, <1>13, <1>14
<1> QED
  BY <1>15, Zenon DEF TextKept, u

(* The cursor goes where its line goes. *)
LEMMA ResizeCursor ==
    ASSUME NEW L, NEW K, NEW w, NEW t, Sound(t), Tidy(t, L, K, w), NEW size \in Size,
           size.cols >= t.size.cols, NEW i \in 1 .. size.rows,
           \A r \in 1 .. t.size.rows :
               glyphs(active(t).cells[r]) = glyphs(cursor_line(t)) => r = t.cursor.row + 1,
           HasContent(cursor_line(t))
    PROVE  LET u == resize_terminal(t, size)
           IN glyphs(active(u).cells[i]) = glyphs(cursor_line(t)) => u.cursor.row + 1 = i
<1> DEFINE u == resize_terminal(t, size)
           m == t.size.rows
           n == t.size.cols
           s == active(t)
           v == resize(s, size.rows, size.cols)
           shift == row_shift(s, size.rows)
           line == glyphs(cursor_line(t))
<1> SUFFICES ASSUME glyphs(active(u).cells[i]) = line
             PROVE  u.cursor.row + 1 = i
  OBVIOUS
<1>1. /\ m \in Nat \ {0} /\ n \in Nat \ {0} /\ size.rows \in Nat \ {0} /\ size.cols \in Nat \ {0}
      /\ n <= size.cols
      /\ s \in Pane(m, n, L, w) /\ NoLink \in L
  BY DEF Tidy, Sound, Size, active
<1>2. /\ active(u).cells = v.cells
      /\ u.cursor.row = Least(Monus(t.cursor.row, shift), size.rows - 1)
  <2>1. Resized(t, u, size)
    BY ResizeParts DEF Sound
  <2> HIDE DEF u
  <2>2. /\ u.cursor.row = Least(Monus(t.cursor.row, shift), size.rows - 1)
        /\ u.primary.cells = resize(t.primary, size.rows, size.cols).cells
        /\ u.alternate.cells = resize(t.alternate, size.rows, size.cols).cells
        /\ u.on_alternate = t.on_alternate
    BY <2>1 DEF Resized, active_shift
  <2> QED
    BY <2>2 DEF active
<1>3. PICK kept : Moved(s.cells, v.cells, shift, kept)
  BY <1>1, ResizeMoves
<1>4. t.cursor.row \in Nat
  BY Limits0
<1>5. Len(s.cells) = m /\ Len(v.cells) = size.rows
  <2>1. v \in Pane(size.rows, size.cols, L, w)
    BY <1>1, ResizePane
  <2> HIDE DEF v, s, m, n
  <2> QED
    BY <1>1, <2>1, PaneSize
<1> HIDE DEF u, v, shift
<1>6. i \in 1 .. kept
  <2>1. DOMAIN line # {}
    BY DEF HasContent, glyphs
  <2>2. HasContent(v.cells[i])
    <3>1. glyphs(v.cells[i]) = line
      BY <1>2
    <3> HIDE DEF line
    <3> QED
      BY <2>1, <3>1 DEF HasContent, glyphs
  <2>3. ~ (i > kept) /\ kept \in 0 .. size.rows
    BY <1>3, <1>5, <2>2 DEF Moved
  <2> QED
    BY <2>3
<1>7. glyphs(s.cells[i + shift]) = line /\ shift \in 0 .. m /\ shift + kept \in 0 .. m
      /\ kept \in 0 .. size.rows
  BY <1>2, <1>3, <1>6, <1>5 DEF Moved
<1>8. i + shift \in 1 .. m
  <2>1. /\ i \in 1 .. kept /\ shift \in 0 .. m /\ shift + kept \in 0 .. m
        /\ kept \in 0 .. size.rows /\ m \in Nat /\ size.rows \in Nat
    BY <1>1, <1>6, <1>7
  <2> HIDE DEF m
  <2> QED
    BY <2>1
<1>9. i + shift = t.cursor.row + 1
  BY <1>7, <1>8
<1> HIDE DEF line, s, m, n
<1> QED
  BY <1>1, <1>2, <1>4, <1>7, <1>9 DEF Least, Monus

LEMMA SwitchKeepsSize ==
    ASSUME NEW t, Shape(t), NEW enable, NEW clear_on_enter
    PROVE  set_alternate(t, enable, clear_on_enter).size = t.size
<1> DEFINE OfSize(u) == Shape(u) /\ u.size = t.size
<1>1. ASSUME NEW u, OfSize(u) PROVE OfSize(enter_alternate(u))
  BY <1>1 DEF enter_alternate, save_cursor, Shape, Fields
<1>2. ASSUME NEW u, OfSize(u) PROVE OfSize(clear_alternate(u))
  <2> DEFINE v == [u EXCEPT !.alternate = clear_all(@, DefaultStyle),
                            !.scroll_top = 0, !.scroll_bottom = last_row(u)]
  <2>1. OfSize(v)
    BY <1>2 DEF Shape, Fields
  <2> HIDE DEF v
  <2>2. OfSize(at(v, 0, 0))
    BY <2>1 DEF at, Shape, Fields
  <2> QED
    BY <2>2 DEF clear_alternate, v
<1>3. ASSUME NEW u, OfSize(u) PROVE OfSize(restore_cursor(u))
  <2> DEFINE v == [u EXCEPT !.cursor = u.saved.cursor, !.pen = u.saved.pen,
                            !.wrap_pending = u.saved.wrap_pending,
                            !.modes.on = IF u.saved.origin THEN @ \cup {"origin"}
                                         ELSE @ \ {"origin"}]
             x == [v EXCEPT !.cursor = [row |-> clamp(@.row, origin_bounds(v)),
                                        col |-> Least(@.col, last_col(v))]]
  <2>1. OfSize(v)
    BY <1>3 DEF Shape, Fields
  <2> HIDE DEF v
  <2>2. OfSize(x)
    BY <2>1 DEF Shape, Fields
  <2> HIDE DEF x
  <2>3. OfSize(repair_cursor_cell(x))
    BY <2>2 DEF repair_cursor_cell, Shape, Fields
  <2> QED
    BY <2>3 DEF restore_cursor, clamp_cursor, v, x
<1>4. OfSize([t EXCEPT !.on_alternate = FALSE]) /\ OfSize(t)
  BY DEF Shape, Fields
<1> HIDE DEF OfSize
<1>5. OfSize(set_alternate(t, enable, clear_on_enter))
  BY <1>1, <1>2, <1>3, <1>4, Zenon DEF set_alternate
<1> QED
  BY <1>5 DEF OfSize

LEMMA OnlyResizeSizes ==
    ASSUME Ready(term), [Next]_vars, ~Resize
    PROVE  term'.size = term.size
<1>1. CASE Ordinary
  BY <1>1, OrdinaryWorks DEF Works
<1>2. CASE ResetChildState
  BY <1>2, ResetTells DEF ResetChildState, Handle
<1>3. CASE SetAlternate
  <2>1. Shape(term)
    BY DEF Ready
  <2>2. \A enable, clear : set_alternate(term, enable, clear).size = term.size
    BY <2>1, SwitchKeepsSize
  <2> QED
    <3>1. \E enable, clear : Handle("1047", set_alternate(term, enable, clear))
                             \/ Handle("1049", set_alternate(term, enable, clear))
      BY <1>3, Zenon DEF SetAlternate
    <3>2. \E enable, clear : term' = set_alternate(term, enable, clear)
      BY <3>1, Zenon DEF Handle
    <3> QED
      BY <2>2, <3>2, Zenon
<1>4. CASE EndFeed
  BY <1>4, FeedEndTells DEF EndFeed, Fields
<1>5. CASE DequeueEvent
  BY <1>5, DequeueTells DEF DequeueEvent, Fields
<1>6. CASE TrimScrollback
  BY <1>6, TrimTells DEF TrimScrollback, Fields
<1>7. CASE AdvanceReplyBytes
  BY <1>7 DEF AdvanceReplyBytes, Ready, Shape, Fields
<1>8. CASE UNCHANGED vars
  BY <1>8 DEF vars
<1> QED
  BY <1>1, <1>2, <1>3, <1>4, <1>5, <1>6, <1>7, <1>8 DEF Next, Feed, Ordinary

LEMMA ResizeStep ==
    ASSUME ContentInv(FALSE), Ready(term), [Next]_vars, term'.size # term.size
    PROVE  /\ Sound(term) /\ \E L : Tidy(term, L, Nat, FALSE)
           /\ \E size \in Size : term' = resize_terminal(term, size) /\ term'.size = size
<1>1. Resize
  BY OnlyResizeSizes
<1>2. PICK size \in Sizes : term' = resize_terminal(term, size)
  BY <1>1 DEF Resize
<1>3. size \in Size
  BY <1>2, TerminalAssumption
<1>4. term'.size = size
  BY <1>2, ResizeTells
<1> QED
  BY <1>2, <1>3, <1>4 DEF ContentInv, SoundTerm

(* A resize of the primary screen loses no glyph, unless it makes the screen  *)
(* narrower: the rows it pushes off the top are the history's last lines.     *)
THEOREM ResizeLosesNothing == Spec => ResizeKeepsText
<1> DEFINE Inv == ContentInv(FALSE) /\ Ready(term)
           Keeps == ~term.on_alternate /\ term'.size # term.size
                        /\ term'.size.cols >= term.size.cols
                    => Text(term') = Text(term)
<1>1. Init => Inv
  BY ContentInit, ReadyInit
<1>2. Inv /\ [Next]_vars => Inv'
  BY ContentStep, ReadyStep
<1>3. ASSUME Inv, [Next]_vars PROVE Keeps
  <2> SUFFICES ASSUME ~term.on_alternate, term'.size # term.size,
                      term'.size.cols >= term.size.cols
               PROVE  Text(term') = Text(term)
    OBVIOUS
  <2>1. /\ Sound(term) /\ \E L : Tidy(term, L, Nat, FALSE)
        /\ \E size \in Size : term' = resize_terminal(term, size) /\ term'.size = size
    BY <1>3, ResizeStep
  <2>2. PICK L : Tidy(term, L, Nat, FALSE)
    BY <2>1
  <2>3. PICK size \in Size : term' = resize_terminal(term, size) /\ term'.size = size
    BY <2>1
  <2>4. size.cols >= term.size.cols
    BY <2>3
  <2>5. Text(resize_terminal(term, size)) = Text(term)
    <3>1. Sound(term) /\ term.on_alternate = FALSE
      BY <2>1, <2>2 DEF Tidy
    <3> HIDE DEF Inv, Keeps
    <3>2. Widens(term, L, Nat, FALSE, size)
      BY <2>2, <2>4, <3>1 DEF Widens
    <3>3. TextKept(term, resize_terminal(term, size))
      BY <3>2, ResizeText, Zenon
    <3> QED
      BY <3>3, Zenon DEF TextKept
  <2> QED
    BY <2>3, <2>5
<1>4. Inv /\ [Next]_vars => [Keeps]_vars
  BY <1>3
<1>5. Spec => [][Keeps]_vars
  <2> HIDE DEF Inv, Keeps
  <2> QED
    BY <1>1, <1>2, <1>4, PTL DEF Spec
<1> QED
  BY <1>5 DEF ResizeKeepsText

(* The cursor stays on its line through a resize, on whichever screen is      *)
(* shown, though the two screens shift by different amounts.                  *)
THEOREM CursorFollowsLine == Spec => CursorKeepsLine
<1> DEFINE Inv == ContentInv(FALSE) /\ Ready(term)
           Keeps == term'.size # term.size /\ term'.size.cols >= term.size.cols => CursorOnLine
<1>1. Init => Inv
  BY ContentInit, ReadyInit
<1>2. Inv /\ [Next]_vars => Inv'
  BY ContentStep, ReadyStep
<1>3. ASSUME Inv, [Next]_vars PROVE Keeps
  <2> DEFINE line == glyphs(cursor_line(term))
             lines(t) == {i \in 1 .. t.size.rows : glyphs(active(t).cells[i]) = line}
  <2> SUFFICES ASSUME term'.size # term.size, term'.size.cols >= term.size.cols,
                      line # <<>>, Cardinality(lines(term)) = 1, lines(term') # {}
               PROVE  term'.cursor.row + 1 \in lines(term')
    BY DEF CursorOnLine
  <2>1. /\ Sound(term) /\ \E L : Tidy(term, L, Nat, FALSE)
        /\ \E size \in Size : term' = resize_terminal(term, size) /\ term'.size = size
    BY <1>3, ResizeStep
  <2>2. PICK L : Tidy(term, L, Nat, FALSE)
    BY <2>1
  <2>3. PICK size \in Size : term' = resize_terminal(term, size) /\ term'.size = size
    BY <2>1
  <2>4. size.cols >= term.size.cols
    BY <2>3
  <2>5. PICK i \in 1 .. size.rows : glyphs(active(term').cells[i]) = line
    BY <2>3
  <2>6. HasContent(cursor_line(term))
    <3>1. \A r : (\A j \in DOMAIN r : is_blank_glyph(r[j])) => glyphs(r) = <<>>
      <4> SUFFICES ASSUME NEW r, \A j \in DOMAIN r : is_blank_glyph(r[j])
                   PROVE  glyphs(r) = <<>>
        OBVIOUS
      <4>1. {j \in DOMAIN r : ~is_blank_glyph(r[j])} = {}
        OBVIOUS
      <4>2. [j \in {} |-> r[j]] = <<>>
        OBVIOUS
      <4> QED
        BY <4>1, <4>2 DEF glyphs
    <3> QED
      BY <3>1 DEF HasContent
  <2>7. \A r \in 1 .. term.size.rows :
            glyphs(active(term).cells[r]) = line => r = term.cursor.row + 1
    <3> DEFINE at0 == term.cursor.row + 1
    <3>1. at0 \in 1 .. term.size.rows
      BY <2>1, Limits0
    <3>2. glyphs(active(term).cells[at0]) = line
      BY DEF cursor_line
    <3>3. IsFiniteSet(lines(term))
      <4>1. term.size.rows \in Int /\ 1 \in Int
        BY <2>1 DEF Sound, Size
      <4>2. IsFiniteSet(1 .. term.size.rows)
        BY <4>1, FS_Interval
      <4> QED
        BY <4>2, FS_Subset
    <3> HIDE DEF line
    <3>4. PICK r0 : lines(term) = {r0}
      BY <3>3, FS_Singleton
    <3>5. at0 \in lines(term)
      BY <3>1, <3>2
    <3> QED
      BY <3>4, <3>5
  <2>8. term'.cursor.row + 1 = i
    BY <2>1, <2>2, <2>3, <2>4, <2>5, <2>6, <2>7, ResizeCursor
  <2> HIDE DEF line
  <2> QED
    BY <2>3, <2>5, <2>8
<1>4. Inv /\ [Next]_vars => [Keeps]_vars
  BY <1>3
<1>5. Spec => [][Keeps]_vars
  <2> HIDE DEF Inv, Keeps
  <2> QED
    BY <1>1, <1>2, <1>4, PTL DEF Spec
<1> QED
  BY <1>5 DEF CursorKeepsLine
=============================================================================
