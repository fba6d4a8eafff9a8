---------------------------- MODULE Framebuffer ----------------------------
(***************************************************************************)
(* A terminal screen and what can be done to it:                           *)
(* terminal/terminalframebuffer.cc and .h, without any state of its own    *)
(* (a screen is a value: the server has one, the client another one).      *)
(*                                                                         *)
(* A screen is one record: the cells by rows, the DrawState, the titles,   *)
(* the clipboard and the bell count.  Rows and columns count from 0, as in *)
(* the code; the sequences that hold them count from 1.                    *)
(*                                                                         *)
(* Abstractions.                                                           *)
(*  - A cell's contents are one character of a small set, "" when empty.   *)
(*    wcwidth is always 1 in this program (terminal.cc:55), so that no     *)
(*    cell is wide, none is a fallback and no combining character arrives. *)
(*  - Row::gen and the sharing of rows between screens only tell whether   *)
(*    two rows are known to be the same: see Display.                      *)
(***************************************************************************)
EXTENDS Integers, Sequences, SequencesExt

CONSTANT TabEvery   \* 8: the distance of the default tab stops

Clamp(n, low, high) == IF n < low THEN low ELSE IF n > high THEN high ELSE n
Filled(n, v) == <<>> \o [i \in 1 .. n |-> v]

(* Renditions.  A colour is 0 (default), 30.. or 40.. plus its index in    *)
(* the palette, or a 25-bit true colour with its top bit set.              *)
TrueColor == 16777216
Renditions(background) == [fg |-> 0, bg |-> background, attributes |-> {}]
initial_rendition == Renditions(0)

\* The bits of three numbers, joined: what is above 255 spills into the next component, as
\* far as the 25 bits of a colour reach.
Bits(n) == {i \in 0 .. 23 : (n \div 2 ^ i) % 2 = 1}
make_true_color(red, green, blue) ==
    LET joined == Bits((red % 256) * 65536) \union Bits(green * 256) \union Bits(blue)
    IN  TrueColor + MapThenSumSet(LAMBDA i : 2 ^ i, joined)

set_foreground_color(r, num) ==
    IF num \in 0 .. 255 THEN [r EXCEPT !.fg = 30 + num]
    ELSE IF num >= TrueColor THEN [r EXCEPT !.fg = num] ELSE r
set_background_color(r, num) ==
    IF num \in 0 .. 255 THEN [r EXCEPT !.bg = 40 + num]
    ELSE IF num >= TrueColor THEN [r EXCEPT !.bg = num] ELSE r

Attributes == {1, 3, 4, 5, 7, 8}   \* bold italic underlined blink inverse invisible

set_rendition(r, num) ==
    CASE num = 0 -> initial_rendition
      [] num = 39 -> [r EXCEPT !.fg = 0]
      [] num = 49 -> [r EXCEPT !.bg = 0]
      [] num \in 30 .. 37 -> [r EXCEPT !.fg = num]
      [] num \in 40 .. 47 -> [r EXCEPT !.bg = num]
      [] num \in 90 .. 97 -> [r EXCEPT !.fg = num - 90 + 38]
      [] num \in 100 .. 107 -> [r EXCEPT !.bg = num - 100 + 48]
      [] num \in Attributes -> [r EXCEPT !.attributes = @ \union {num}]
      [] num = 22 -> [r EXCEPT !.attributes = @ \ {1}]
      [] num - 20 \in Attributes \ {1} -> [r EXCEPT !.attributes = @ \ {num - 20}]
      [] OTHER -> r

\* Renditions::sgr: the parameters of the sequence that sets exactly this rendition.
sgr(r) ==
    LET color(c, base, extended) ==
            IF c = 0 THEN <<>>
            ELSE IF c >= TrueColor
                 THEN <<extended, 2, (c \div 65536) % 256, (c \div 256) % 256, c % 256>>
            ELSE IF c > base + 7 THEN <<extended, 5, c - base>>
            ELSE <<c>>
    IN  <<0>> \o SetToSortSeq(r.attributes, <) \o color(r.fg, 30, 38) \o color(r.bg, 40, 48)

(* Cells and rows *)
Cell(background) == [contents |-> "", renditions |-> Renditions(background), wrap |-> FALSE]
Row(width, background) == Filled(width, Cell(background))
IsEmpty(cell) == cell.contents = ""
RowWraps(cells) == cells[Len(cells)].wrap

(* The DrawState and the whole screen *)
Unsaved == [cursor_col |-> 0, cursor_row |-> 0, renditions |-> initial_rendition,
            auto_wrap_mode |-> TRUE, origin_mode |-> FALSE]
DefaultTabs(from, width) == {i \in from .. width - 1 : i % TabEvery = 0}
NoMouse == [reporting |-> 0, encoding |-> 0]

NewFramebuffer(width, height) ==
    [width |-> width, height |-> height, rows |-> Filled(height, Row(width, 0)),
     cursor_col |-> 0, cursor_row |-> 0, next_print_will_wrap |-> FALSE, save |-> Unsaved,
     top |-> 0, bottom |-> height - 1, default_tabs |-> TRUE, tabs |-> DefaultTabs(0, width),
     renditions |-> initial_rendition, mouse |-> NoMouse,
     modes |-> [origin_mode |-> FALSE, auto_wrap_mode |-> TRUE, insert_mode |-> FALSE,
                cursor_visible |-> TRUE, reverse_video |-> FALSE, bracketed_paste |-> FALSE,
                mouse_focus_event |-> FALSE, mouse_alternate_scroll |-> FALSE,
                application_mode_cursor_keys |-> FALSE],
     icon_name |-> <<>>, window_title |-> <<>>, title_initialized |-> FALSE,
     clipboard |-> <<>>, bell_count |-> 0]

RowAt(fb, y) == fb.rows[y + 1]
CellAt(fb, y, x) == fb.rows[y + 1][x + 1]
WithRow(fb, y, cells) == [fb EXCEPT !.rows[y + 1] = cells]
NewRow(fb) == Row(fb.width, fb.renditions.bg)
ResetRow(fb, y) == WithRow(fb, y, NewRow(fb))
ResetRows(fb, Y) == [fb EXCEPT !.rows = [i \in DOMAIN @ |-> IF i - 1 \in Y THEN NewRow(fb) ELSE @[i]]]
ResetCells(fb, y, X) ==
    WithRow(fb, y, [i \in 1 .. fb.width |->
                        IF i - 1 \in X THEN Cell(fb.renditions.bg) ELSE RowAt(fb, y)[i]])

(* Moving the cursor *)
LimitTop(fb) == IF fb.modes.origin_mode THEN fb.top ELSE 0
\* Mutant: one row too many.
LimitBelow(fb) == IF fb.modes.origin_mode THEN fb.bottom ELSE fb.height
LimitBottom(fb) == IF fb.modes.origin_mode THEN fb.bottom ELSE fb.height - 1

SnapCursor(fb) ==
    [fb EXCEPT !.cursor_row = Clamp(@, LimitTop(fb), LimitBottom(fb)),
               !.cursor_col = Clamp(@, 0, fb.width - 1)]
Unwrapped(fb) == [fb EXCEPT !.next_print_will_wrap = FALSE]

move_row(fb, n) == Unwrapped(SnapCursor([fb EXCEPT !.cursor_row = n + LimitTop(fb)]))
move_row_by(fb, n) == Unwrapped(SnapCursor([fb EXCEPT !.cursor_row = @ + n]))
move_col(fb, n) == Unwrapped(SnapCursor([fb EXCEPT !.cursor_col = n]))
move_col_by(fb, n) == Unwrapped(SnapCursor([fb EXCEPT !.cursor_col = @ + n]))
\* move_col( n, true, true ): what printing does, which remembers that the row is full.
advance_col(fb, n) ==
    SnapCursor([fb EXCEPT !.cursor_col = @ + n,
                          !.next_print_will_wrap = fb.cursor_col + n >= fb.width])

(* Lines and cells in and out *)
insert_line(fb, before, count) ==
    LET n == Min({count, fb.bottom + 1 - before}) IN
    IF before < fb.top \/ before > fb.bottom + 1 \/ n = 0 THEN fb
    ELSE [fb EXCEPT !.rows = SubSeq(@, 1, before) \o Filled(n, NewRow(fb))
                             \o SubSeq(@, before + 1, fb.bottom + 1 - n)
                             \o SubSeq(@, fb.bottom + 2, fb.height)]

delete_line(fb, row, count) ==
    LET n == Min({count, fb.bottom + 1 - row}) IN
    IF row < fb.top \/ row > fb.bottom \/ n = 0 THEN fb
    ELSE [fb EXCEPT !.rows = SubSeq(@, 1, row) \o SubSeq(@, row + n + 1, fb.bottom + 1)
                             \o Filled(n, NewRow(fb)) \o SubSeq(@, fb.bottom + 2, fb.height)]

scroll(fb, n) == IF n >= 0 THEN delete_line(fb, fb.top, n) ELSE insert_line(fb, fb.top, -n)

move_rows_autoscroll(fb, n) ==
    LET to == fb.cursor_row + n
        beyond == IF to > fb.bottom THEN to - fb.bottom
                  ELSE IF to < fb.top THEN to - fb.top ELSE 0
    IN  IF fb.cursor_row \notin fb.top .. fb.bottom \/ beyond = 0 THEN move_row_by(fb, n)
        ELSE move_row_by(move_row_by(scroll(fb, beyond), -beyond), n)

\* insert_cell and delete_cell, count times, at the cursor.
insert_cells(fb, count) ==
    LET cells == RowAt(fb, fb.cursor_row)
        n == Min({count, fb.width - fb.cursor_col})
    IN  WithRow(fb, fb.cursor_row,
                SubSeq(cells, 1, fb.cursor_col) \o Row(n, fb.renditions.bg)
                \o SubSeq(cells, fb.cursor_col + 1, fb.width - n))
delete_cells(fb, count) ==
    LET cells == RowAt(fb, fb.cursor_row)
        n == Min({count, fb.width - fb.cursor_col})
    IN  WithRow(fb, fb.cursor_row,
                SubSeq(cells, 1, fb.cursor_col)
                \o SubSeq(cells, fb.cursor_col + n + 1, fb.width) \o Row(n, fb.renditions.bg))

(* Tabs, margins, saved cursor *)
\* DrawState::get_next_tab, with the end of the line in place of -1.
NextTab(fb, count) ==
    LET right == {i \in fb.tabs : fb.cursor_col < i}
        left == {i \in fb.tabs : 0 < i /\ i < fb.cursor_col}
        nth(S, k) == {i \in S : Cardinality({j \in S : IF count > 0 THEN j <= i ELSE j >= i}) = k}
    IN  IF count > 0
        THEN IF Cardinality(right) < count THEN fb.width - 1 ELSE CHOOSE i \in nth(right, count) : TRUE
        ELSE IF Cardinality(left) < -count THEN 0 ELSE CHOOSE i \in nth(left, -count) : TRUE

set_scrolling_region(fb, top, bottom) ==
    LET t == Max({top, 0})
        b == Max({Min({bottom, fb.height - 1}), t})
        set == [fb EXCEPT !.top = t, !.bottom = b]
    IN  IF fb.modes.origin_mode THEN SnapCursor(set) ELSE set

save_cursor(fb) ==
    [fb EXCEPT !.save = [cursor_col |-> fb.cursor_col, cursor_row |-> fb.cursor_row,
                         renditions |-> fb.renditions,
                         auto_wrap_mode |-> fb.modes.auto_wrap_mode,
                         origin_mode |-> fb.modes.origin_mode]]
restore_cursor(fb) ==
    SnapCursor([fb EXCEPT !.cursor_col = fb.save.cursor_col, !.cursor_row = fb.save.cursor_row,
                          !.renditions = fb.save.renditions,
                          !.modes.auto_wrap_mode = fb.save.auto_wrap_mode,
                          !.modes.origin_mode = fb.save.origin_mode])

(* Resets and resizing *)
\* Neither the icon name nor the bell count is reset.
reset(fb) ==
    [NewFramebuffer(fb.width, fb.height) EXCEPT
        !.icon_name = fb.icon_name, !.bell_count = fb.bell_count,
        !.title_initialized = fb.title_initialized]

soft_reset(fb) ==
    LET plain == [fb EXCEPT !.modes.insert_mode = FALSE, !.modes.origin_mode = FALSE,
                            !.modes.cursor_visible = TRUE,
                            !.modes.application_mode_cursor_keys = FALSE]
    IN  [set_scrolling_region(plain, 0, fb.height - 1) EXCEPT
            !.renditions = set_rendition(@, 0), !.save = Unsaved]

resize(fb, width, height) ==
    LET same == fb.width = width /\ fb.height = height
        ds == SnapCursor([fb EXCEPT
                !.top = IF same THEN @ ELSE 0,
                !.bottom = IF same THEN @ ELSE height - 1,
                !.tabs = {i \in @ : i < width}
                         \union (IF fb.default_tabs THEN DefaultTabs(fb.width, width) ELSE {}),
                !.width = width, !.height = height])
        resized(cells) ==
            IF fb.width = width THEN cells
            ELSE [i \in 1 .. width |->
                    IF i > fb.width THEN Cell(fb.renditions.bg)
                    ELSE IF i = fb.width THEN [cells[i] EXCEPT !.wrap = FALSE] ELSE cells[i]]
    IN  [ds EXCEPT !.rows = [y \in 1 .. height |->
            IF y <= fb.height THEN resized(fb.rows[y]) ELSE NewRow(ds)]]

\* Framebuffer::operator== and DrawState::operator==, with the rows compared by what is in them.
SameFramebuffer(a, b) ==
    /\ a.rows = b.rows /\ a.window_title = b.window_title
    /\ a.clipboard = b.clipboard /\ a.bell_count = b.bell_count
    /\ a.width = b.width /\ a.height = b.height
    /\ a.cursor_col = b.cursor_col /\ a.cursor_row = b.cursor_row
    /\ a.renditions = b.renditions /\ a.mouse = b.mouse
    /\ \A m \in {"cursor_visible", "reverse_video", "bracketed_paste", "mouse_focus_event",
                 "mouse_alternate_scroll"} : a.modes[m] = b.modes[m]
=============================================================================
