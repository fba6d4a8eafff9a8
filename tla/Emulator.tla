------------------------------ MODULE Emulator ------------------------------
(***************************************************************************)
(* The terminal emulator: what one parsed function does to a screen.       *)
(* terminal/terminal.cc, terminal/terminalfunctions.cc and the dispatch of *)
(* terminal/terminaldispatcher.cc.                                         *)
(*                                                                         *)
(* A function is a record: fn is the name of the operation, p its numeric  *)
(* parameters ( -1 where none was written), ch the character printed, and  *)
(* cmd and s the command and the text of an operating system command.  How *)
(* bytes become functions is modelled by Parser.  What the emulator        *)
(* answers to the host (device attributes and status) changes no screen.   *)
(***************************************************************************)
EXTENDS Framebuffer

CONSTANT TitleLimit   \* 256: an operating system command is cut to this length

Glyph(ch) == [fn |-> "print", ch |-> ch]
Control(name) == [fn |-> name, p |-> <<>>]
CSI(name, p) == [fn |-> name, p |-> p]
OSC(cmd, s) == [fn |-> "OSC", cmd |-> cmd, s |-> s]

\* Dispatcher::getparam, n counting from 1: a missing or zero parameter is the default.
getparam(p, n, default) == IF Len(p) >= n /\ p[n] >= 1 THEN p[n] ELSE default
\* A sequence without parameters has one, unwritten.
Params(p) == IF p = <<>> THEN <<-1>> ELSE p

(* Emulator::print, for a character one column wide *)
print(fb, ch) ==
    LET wrapped ==
            IF fb.modes.auto_wrap_mode /\ fb.next_print_will_wrap
            THEN move_rows_autoscroll(
                    move_col([fb EXCEPT !.rows[fb.cursor_row + 1][fb.width].wrap = TRUE], 0), 1)
            ELSE fb
        opened == IF wrapped.modes.insert_mode THEN insert_cells(wrapped, 1) ELSE wrapped
        cell == [contents |-> ch, renditions |-> opened.renditions, wrap |-> FALSE]
    IN  advance_col([opened EXCEPT !.rows[opened.cursor_row + 1][opened.cursor_col + 1] = cell], 1)

(* Erasing *)
CSI_EL(fb, p) ==
    LET n == getparam(p, 1, 0) IN
    CASE n = 0 -> ResetCells(fb, fb.cursor_row, fb.cursor_col .. fb.width - 1)
      [] n = 1 -> ResetCells(fb, fb.cursor_row, 0 .. fb.cursor_col)
      [] n = 2 -> ResetRow(fb, fb.cursor_row)
      [] OTHER -> fb

CSI_ED(fb, p) ==
    LET n == getparam(p, 1, 0) IN
    CASE n = 0 -> ResetRows(CSI_EL(fb, <<0>>), fb.cursor_row + 1 .. fb.height - 1)
      [] n = 1 -> ResetRows(CSI_EL(fb, <<1>>), 0 .. fb.cursor_row - 1)
      [] n = 2 -> ResetRows(fb, 0 .. fb.height - 1)
      [] OTHER -> fb

CSI_ECH(fb, p) ==
    LET limit == Min({fb.cursor_col + getparam(p, 1, 1) - 1, fb.width - 1})
    IN  ResetCells(fb, fb.cursor_row, fb.cursor_col .. limit)

Esc_DECALN(fb) ==
    [fb EXCEPT !.rows = Filled(fb.height,
        Filled(fb.width, [Cell(fb.renditions.bg) EXCEPT !.contents = "E"]))]

(* Moving *)
CSI_CUP(fb, p) == move_col(move_row(fb, getparam(p, 1, 1) - 1), getparam(p, 2, 1) - 1)

HT_n(fb, count) ==
    [move_col(fb, NextTab(fb, count)) EXCEPT !.next_print_will_wrap = fb.next_print_will_wrap]

CSI_TBC(fb, p) ==
    CASE getparam(p, 1, 0) = 0 -> [fb EXCEPT !.tabs = @ \ {fb.cursor_col}]
      [] getparam(p, 1, 0) = 3 -> [fb EXCEPT !.default_tabs = FALSE, !.tabs = {}]
      [] OTHER -> fb

CSI_DECSTBM(fb, p) ==
    LET top == getparam(p, 1, 1)
        bottom == getparam(p, 2, fb.height)
    IN  IF bottom <= top \/ top > fb.height THEN fb
        ELSE move_col(move_row(set_scrolling_region(fb, top - 1, bottom - 1), 0), 0)

(* Modes *)
DECMode == [n \in {1, 5, 6, 7, 25, 1004, 1007, 2004} |->
    CASE n = 1 -> "application_mode_cursor_keys" [] n = 5 -> "reverse_video"
      [] n = 6 -> "origin_mode" [] n = 7 -> "auto_wrap_mode" [] n = 25 -> "cursor_visible"
      [] n = 1004 -> "mouse_focus_event" [] n = 1007 -> "mouse_alternate_scroll"
      [] n = 2004 -> "bracketed_paste"]

\* One parameter of CSI_DECSM or CSI_DECRM; 3 clears the screen, 3 and 6 move the cursor home.
DECPrivate(fb, n, value) ==
    LET home == IF n \in {3, 6} THEN move_col(move_row(fb, 0), 0) ELSE fb IN
    CASE n = 9 \/ n \in 1000 .. 1003 -> [fb EXCEPT !.mouse.reporting = IF value THEN n ELSE 0]
      [] n \in {1005, 1006, 1015} -> [fb EXCEPT !.mouse.encoding = IF value THEN n ELSE 0]
      [] n = 3 -> ResetRows(home, 0 .. fb.height - 1)
      [] n \in DOMAIN DECMode -> [home EXCEPT !.modes[DECMode[n]] = value]
      [] OTHER -> fb

DECModes(fb, p, value) ==
    LET q == Params(p)
        set[i \in 0 .. Len(q)] == IF i = 0 THEN fb ELSE DECPrivate(set[i - 1], q[i], value)
    IN  set[Len(q)]
ANSIModes(fb, p, value) ==
    IF 4 \in ToSet(p) THEN [fb EXCEPT !.modes.insert_mode = value] ELSE fb

(* CSI_SGR: a colour of the palette takes three parameters, a true colour  *)
(* five; the others one each.                                              *)
CSI_SGR(fb, p) ==
    LET q == Params(p)
        at(i) == getparam(q, i, 0)
        color(i) == IF at(i) \notin {38, 48} THEN "none"
                    ELSE IF Len(q) - i >= 2 /\ at(i + 1) = 5 THEN "palette"
                    ELSE IF Len(q) - i >= 4 /\ at(i + 1) = 2 THEN "true" ELSE "none"
        set(r, i, c) == IF at(i) = 38 THEN set_foreground_color(r, c) ELSE set_background_color(r, c)
        one(acc, i) ==   \* acc.next is the next parameter that starts something
            IF i < acc.next THEN acc
            ELSE CASE color(i) = "none" -> [r |-> set_rendition(acc.r, at(i)), next |-> i + 1]
                   [] color(i) = "palette" -> [r |-> set(acc.r, i, at(i + 2)), next |-> i + 3]
                   [] color(i) = "true" ->
                        [r |-> set(acc.r, i, make_true_color(at(i + 2), at(i + 3), at(i + 4))),
                         next |-> i + 5]
        read[i \in 0 .. Len(q)] ==
            IF i = 0 THEN [r |-> fb.renditions, next |-> 1] ELSE one(read[i - 1], i)
    IN  [fb EXCEPT !.renditions = read[Len(q)].r]

(* Dispatcher::OSC_dispatch: cmd 52 is the clipboard; 0, 1, 2 and none are *)
(* titles.  What precedes the text counts towards the limit.               *)
OSC_dispatch(fb, cmd, s) ==
    LET prefix == IF cmd = "" THEN 1 ELSE 2
        newtitle == SubSeq(s, 1, Min({Len(s), TitleLimit - prefix}))
        icon == cmd \in {"", "0", "1"}
        title == cmd \in {"", "0", "2"}
    IN  IF cmd = "52" THEN [fb EXCEPT !.clipboard = s]
        ELSE [fb EXCEPT !.title_initialized = @ \/ icon \/ title,
                        !.icon_name = IF icon THEN newtitle ELSE @,
                        !.window_title = IF title THEN newtitle ELSE @]

(* Dispatcher::dispatch *)
KeepsWrap == {"HT", "CHT", "CBT", "TBC", "DECSM", "DECRM", "SGR"}

Function(fb, name, p) ==
    LET n == getparam(p, 1, 1) IN
    CASE name = "LF" -> move_rows_autoscroll(fb, 1)
      [] name = "CR" -> move_col(fb, 0)
      [] name = "BS" -> move_col_by(fb, -1)
      [] name = "RI" -> move_rows_autoscroll(fb, -1)
      [] name = "NEL" -> move_rows_autoscroll(move_col(fb, 0), 1)
      [] name = "HT" -> HT_n(fb, 1)
      [] name = "HTS" -> [fb EXCEPT !.tabs = @ \union {fb.cursor_col}]
      [] name = "BEL" -> [fb EXCEPT !.bell_count = @ + 1]
      [] name = "DECSC" -> save_cursor(fb)
      [] name = "DECRC" -> restore_cursor(fb)
      [] name = "DECALN" -> Esc_DECALN(fb)
      [] name = "RIS" -> reset(fb)
      [] name = "EL" -> CSI_EL(fb, p)
      [] name = "ED" -> CSI_ED(fb, p)
      [] name = "ECH" -> CSI_ECH(fb, p)
      [] name = "CUU" -> move_row_by(fb, -n)
      [] name = "CUD" -> move_row_by(fb, n)
      [] name = "CUF" -> move_col_by(fb, n)
      [] name = "CUB" -> move_col_by(fb, -n)
      [] name = "CUP" -> CSI_CUP(fb, p)
      [] name = "VPA" -> move_row(fb, n - 1)
      [] name = "CHA" -> move_col(fb, n - 1)
      [] name = "CHT" -> HT_n(fb, n)
      [] name = "CBT" -> HT_n(fb, -n)
      [] name = "TBC" -> CSI_TBC(fb, p)
      [] name = "IL" -> move_col(insert_line(fb, fb.cursor_row, n), 0)
      [] name = "DL" -> move_col(delete_line(fb, fb.cursor_row, n), 0)
      [] name = "ICH" -> insert_cells(fb, n)
      [] name = "DCH" -> delete_cells(fb, n)
      [] name = "SD" -> scroll(fb, n)
      [] name = "SU" -> scroll(fb, -n)
      [] name = "DECSTBM" -> CSI_DECSTBM(fb, p)
      [] name = "DECSM" -> DECModes(fb, p, TRUE)
      [] name = "DECRM" -> DECModes(fb, p, FALSE)
      [] name = "SM" -> ANSIModes(fb, p, TRUE)
      [] name = "RM" -> ANSIModes(fb, p, FALSE)
      [] name = "SGR" -> CSI_SGR(fb, p)
      [] name = "DECSTR" -> soft_reset(fb)
      [] OTHER -> fb      \* unknown, or one that only answers the host

Apply(fb, f) ==
    CASE f.fn = "print" -> print(fb, f.ch)
      [] f.fn = "OSC" -> OSC_dispatch(fb, f.cmd, f.s)
      [] OTHER -> Function(IF f.fn \in KeepsWrap THEN fb ELSE Unwrapped(fb), f.fn, f.p)

\* Complete::act for a run of functions.
Act(fb, functions) ==
    LET acted[n \in 0 .. Len(functions)] ==
            IF n = 0 THEN fb ELSE Apply(acted[n - 1], functions[n])
    IN  acted[Len(functions)]
=============================================================================
