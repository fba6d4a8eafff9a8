------------------------------ MODULE Display ------------------------------
(***************************************************************************)
(* Painting: terminal/terminaldisplay.cc.  new_frame compares the screen   *)
(* the other side is believed to show (last) with the one it should show   *)
(* (f) and returns the functions that turn one into the other.             *)
(*                                                                         *)
(* A FrameState is a record: out is what was written so far, (x, y) where  *)
(* the writer believes the cursor to be ( -1 when it does not know), the   *)
(* rendition and the visibility of the cursor as it last set them.         *)
(*                                                                         *)
(* Abstraction: a row that new_frame finds to be the same object, or of    *)
(* the same generation and content, is here any row of the same content;   *)
(* where the generation could tell such rows apart, Scrolls leaves the     *)
(* choice open.                                                            *)
(***************************************************************************)
EXTENDS Emulator

CONSTANTS
    EraseMin,   \* 4: a run of more blanks than this is erased, not overwritten
    ShortMove   \* 5: fewer line feeds or backspaces than this are preferred to CUP

ASSUME DisplayAssumption == EraseMin \in Nat /\ ShortMove \in Nat

FrameState(last) ==
    [out |-> <<>>, x |-> 0, y |-> 0, rendition |-> initial_rendition,
     cursor_visible |-> last.modes.cursor_visible]

append(fr, functions) == [fr EXCEPT !.out = @ \o functions]
At(fr, y, x) == [fr EXCEPT !.y = y, !.x = x]
Repeat(n, name) == Filled(n, Control(name))
Mode(n, on) == <<CSI(IF on THEN "DECSM" ELSE "DECRM", <<n>>)>>
CUP(y, x) == <<CSI("CUP", <<y + 1, x + 1>>)>>

append_cell(fr, cell) == append(fr, <<Glyph(IF IsEmpty(cell) THEN " " ELSE cell.contents)>>)

append_move(fr, y, x) ==
    LET down == y - fr.y
        left == fr.x - x
        known == fr.x # -1 /\ fr.y # -1
    IN  At(append(fr,
            IF known /\ x = 0 /\ down \in 0 .. ShortMove - 1
            THEN (IF fr.x # 0 THEN <<Control("CR")>> ELSE <<>>) \o Repeat(down, "LF")
            ELSE IF known /\ down = 0 /\ left \in 1 .. ShortMove - 1
                 THEN Repeat(left, "BS")
            ELSE CUP(y, x)), y, x)

append_silent_move(fr, y, x) ==
    IF fr.x = x /\ fr.y = y THEN fr
    ELSE append_move(IF fr.cursor_visible
                     THEN [append(fr, Mode(25, FALSE)) EXCEPT !.cursor_visible = FALSE]
                     ELSE fr, y, x)

update_rendition(fr, r, force) ==
    IF force \/ fr.rendition # r
    THEN [append(fr, <<CSI("SGR", sgr(r))>>) EXCEPT !.rendition = r] ELSE fr

-----------------------------------------------------------------------------
(* put_row: acc is the loop's state, the columns before it being done.     *)

\* Move to the start of the run of blanks that ends before column x, and blank it.
ClearRun(acc, y, x) ==
    LET moved == update_rendition(append_silent_move(acc.fr, y, x - acc.clear), acc.blank, FALSE)
    IN  IF acc.clear > EraseMin THEN append(moved, <<CSI("ECH", <<acc.clear>>)>>)
        ELSE [append(moved, Filled(acc.clear, Glyph(" "))) EXCEPT !.x = x]

\* Draw one cell; about to fill a row that wraps, make sure of the position first.
DrawCell(fr, f, y, x, cell) ==
    LET last == RowWraps(RowAt(f, y)) /\ x + 1 >= f.width
        moved == append_silent_move(IF last THEN At(fr, -1, -1) ELSE fr, y, x)
        drawn == append_cell(update_rendition(moved, cell.renditions, FALSE), cell)
    IN  [drawn EXCEPT !.x = @ + 1]

PutCell(acc, initialized, f, y, x, old_cell) ==
    LET cell == CellAt(f, y, x)
        fr == IF acc.clear > 0 THEN ClearRun(acc, y, x) ELSE acc.fr
        drawn == [fr |-> DrawCell(fr, f, y, x, cell), clear |-> 0, blank |-> acc.blank,
                  wrote_last_cell |-> x + 1 >= f.width]
    IN  IF initialized /\ acc.clear = 0 /\ cell = old_cell THEN acc
        ELSE IF ~IsEmpty(cell) THEN drawn
        ELSE IF acc.clear > 0 /\ cell.renditions = acc.blank THEN [acc EXCEPT !.clear = @ + 1]
        ELSE [acc EXCEPT !.fr = fr, !.clear = 1, !.blank = cell.renditions]

\* The blanks at the end of a row.
EndOfLine(acc, f, y) ==
    LET moved == update_rendition(append_silent_move(acc.fr, y, f.width - acc.clear), acc.blank, FALSE)
    IN  IF acc.clear = 0 THEN acc
        ELSE IF ~RowWraps(RowAt(f, y)) THEN [acc EXCEPT !.fr = append(moved, <<CSI("EL", <<>>)>>)]
        ELSE [acc EXCEPT !.fr = [append(moved, Filled(acc.clear, Glyph(" "))) EXCEPT !.x = f.width],
                         !.wrote_last_cell = TRUE]

\* <<frame, wrap>>: wrap asks the next row to write its first cell, to make the cursor wrap.
NextLine(acc, f, y) ==
    IF ~acc.wrote_last_cell \/ y >= f.height - 1 THEN <<acc.fr, FALSE>>
    ELSE IF RowWraps(RowAt(f, y)) THEN <<At(acc.fr, acc.fr.y + 1, 0), TRUE>>
    ELSE <<At(append(acc.fr, <<Control("CR"), Control("LF")>>), acc.fr.y + 1, 0), FALSE>>

WrapCursor(fr, cell) ==
    LET drawn == append_cell(update_rendition(fr, cell.renditions, FALSE), cell)
    IN  [drawn EXCEPT !.x = @ + 1]

put_row(initialized, fr, f, y, old_row, wrap) ==
    LET begun == IF wrap THEN WrapCursor(fr, CellAt(f, y, 0)) ELSE fr
        first == IF wrap THEN 1 ELSE 0
        done[x \in first .. f.width] ==
            IF x = first
            THEN [fr |-> begun, clear |-> 0, blank |-> initial_rendition, wrote_last_cell |-> FALSE]
            ELSE PutCell(done[x - 1], initialized, f, y, x - 1, old_row[x])
    IN  IF initialized /\ RowAt(f, y) = old_row THEN <<begun, FALSE>>
        ELSE NextLine(EndOfLine(done[f.width], f, y), f, y)

-----------------------------------------------------------------------------
(* new_frame *)

SameSize(last, f) == last.width = f.width /\ last.height = f.height

\* last's rows, made as wide and as tall as f's.
OldRows(last, f) ==
    [y \in 1 .. Max({last.height, f.height}) |->
        IF y > last.height THEN Row(f.width, 0)
        ELSE last.rows[y] \o Row(Max({0, f.width - last.width}), f.renditions.bg)]

NoScroll == [lines |-> 0, height |-> 0]

(* What the search for a scroll may find.  The first old row known to be   *)
(* the new row 0 decides: row 0 itself means no scroll; then the region    *)
(* extends over the rows that follow as far as they are known to agree.    *)
Scrolls(last, f) ==
    LET same(new, old) == RowAt(f, new) = RowAt(last, old)
    IN  {NoScroll} \union
        {s \in [lines : 1 .. f.height - 1, height : 1 .. f.height - 1] :
            /\ SameSize(last, f)
            /\ s.lines + s.height <= f.height
            /\ \A i \in 0 .. s.height - 1 : same(i, s.lines + i)}

\* Mutant: the scrolling region is left as it was set.
ScrollInRegion(fr, f, s) ==
    LET region == append_silent_move(
                    At(append(update_rendition(fr, initial_rendition, TRUE),
                              <<CSI("DECSTBM", <<1, s.lines + s.height>>)>>), -1, -1),
                    s.lines + s.height - 1, 0)
    IN  At(append(region, Repeat(s.lines, "LF")), -1, -1)

\* Scroll the terminal by s, at the bottom of the screen or in a scrolling region.
ScrollTerminal(fr, f, s) ==
    LET plain == update_rendition(fr, initial_rendition, TRUE)
        bottom_margin == s.lines + s.height - 1
        region == append_silent_move(
                    At(append(plain, <<CSI("DECSTBM", <<1, bottom_margin + 1>>)>>), -1, -1),
                    bottom_margin, 0)
    IN  IF s.lines + s.height = f.height /\ plain.y + 1 = f.height
        THEN [append(plain, <<Control("CR")>> \o Repeat(s.lines, "LF")) EXCEPT !.x = 0]
        ELSE At(append(region, Repeat(s.lines, "LF") \o <<CSI("DECSTBM", <<>>)>>), -1, -1)

\* Mutant: the local rows do not follow the scroll.
RowsUnscrolled(rows, f, s) == rows

ScrolledRows(rows, f, s) ==
    [y \in DOMAIN rows |->
        IF y > s.lines + s.height THEN rows[y]
        ELSE IF y <= s.height THEN rows[y + s.lines] ELSE Row(f.width, 0)]

Titles(initialized, last, f) ==
    IF ~(f.title_initialized /\ (~initialized \/ f.icon_name # last.icon_name
                                 \/ f.window_title # last.window_title)) THEN <<>>
    ELSE IF f.icon_name = f.window_title THEN <<OSC("0", f.window_title)>>
    ELSE <<OSC("1", f.icon_name), OSC("2", f.window_title)>>

Clipboard(last, f) == IF f.clipboard # last.clipboard THEN <<OSC("52", f.clipboard)>> ELSE <<>>
Bell(last, f) == IF f.bell_count # last.bell_count THEN <<Control("BEL")>> ELSE <<>>

\* Mutant: a mode that is no longer reported is not switched off.
MouseReportingKept(initialized, old, new) ==
    IF new \in {0, old} THEN <<>> ELSE Mode(new, TRUE)
ReportingOff == Mode(1003, FALSE) \o Mode(1002, FALSE) \o Mode(1001, FALSE) \o Mode(1000, FALSE)
MouseReporting(initialized, old, new) ==
    IF initialized /\ new = old THEN <<>>
    ELSE IF new = 0 THEN ReportingOff
    ELSE (IF old # 0 THEN Mode(old, FALSE) ELSE <<>>) \o Mode(new, TRUE)
EncodingOff == Mode(1015, FALSE) \o Mode(1006, FALSE) \o Mode(1005, FALSE)
MouseEncoding(initialized, old, new) ==
    IF initialized /\ new = old THEN <<>>
    ELSE IF new = 0 THEN EncodingOff
    ELSE (IF old # 0 THEN Mode(old, FALSE) ELSE <<>>) \o Mode(new, TRUE)

\* A mode that is sent when it changed.
Changed(initialized, last, f, n) ==
    LET m == DECMode[n] IN
    IF initialized /\ f.modes[m] = last.modes[m] THEN <<>> ELSE Mode(n, f.modes[m])

\* The first frame, or one of another size, starts from an empty screen.
StartFrame(fr, same, last) ==
    IF same THEN [At(fr, last.cursor_row, last.cursor_col) EXCEPT !.rendition = last.renditions]
    ELSE [append(fr, <<CSI("DECSTBM", <<>>), CSI("SGR", <<0>>), CSI("CUP", <<>>), CSI("ED", <<2>>)>>
                     \o Mode(25, FALSE)) EXCEPT !.cursor_visible = FALSE]

PutRows(fr, same, f, rows, from) ==
    LET painted[y \in from .. f.height] ==
            IF y = from THEN <<fr, FALSE>>
            ELSE put_row(same, painted[y - 1][1], f, y - 1, rows[y], painted[y - 1][2])
    IN  painted[f.height][1]

PlaceCursor(fr, same, f) ==
    IF ~same \/ f.cursor_row # fr.y \/ f.cursor_col # fr.x
    THEN append_move(fr, f.cursor_row, f.cursor_col) ELSE fr

ShowCursor(fr, same, f) ==
    IF ~same \/ f.modes.cursor_visible # fr.cursor_visible
    THEN append(fr, Mode(25, f.modes.cursor_visible)) ELSE fr

new_frame(initialized, last, f, s) ==
    LET same == initialized /\ SameSize(last, f)
        started == StartFrame(append(FrameState(last),
                       Bell(last, f) \o Titles(initialized, last, f) \o Clipboard(last, f)
                       \o Changed(initialized, last, f, 5)), same, last)
        scrolled == IF s.lines > 0 THEN ScrollTerminal(started, f, s) ELSE started
        rows == IF s.lines > 0 THEN ScrolledRows(OldRows(last, f), f, s) ELSE OldRows(last, f)
        painted == PutRows(scrolled, same, f, rows, s.height)
        shown == ShowCursor(PlaceCursor(painted, same, f), same, f)
    IN  update_rendition(shown, f.renditions, ~same).out
        \o Changed(same, last, f, 2004)
        \o MouseReporting(same, last.mouse.reporting, f.mouse.reporting)
        \o Changed(same, last, f, 1004)
        \o MouseEncoding(same, last.mouse.encoding, f.mouse.encoding)
=============================================================================
