------------------------------ MODULE Prediction ------------------------------
(***************************************************************************)
(* PredictionEngine (terminaloverlay.cpp) in the main loop (stmclient.cpp):*)
(* what keys will do to the screen is predicted, shown if a prediction of  *)
(* the same epoch was confirmed, and judged when the server says (its echo *)
(* ack) that the key has been in the hands of the host for a while.        *)
(*                                                                         *)
(* Abstractions.                                                           *)
(*  - A cell is a glyph; renditions are left out.  A cell that predicts    *)
(*    nothing is NoPrediction, whatever it last predicted.                 *)
(*  - One key is one byte, with what the engine's parser makes of it.      *)
(*  - Time is in units of the 50 ms of wait_time.                          *)
(*  - The way from the server takes no time: as the host only reacts to    *)
(*    keys, a slow answer is a host that reacts late.                      *)
(*  - The host is external.  It echoes or not, which only a return or a    *)
(*    control key changes (a password prompt, an editor's modes); the      *)
(*    server's echo ack may run ahead of what the host shows.              *)
(***************************************************************************)
EXTENDS Integers, SequencesExt

CONSTANTS
    DisplayPreferences, Overwrites, \* what the user may ask for in the environment
    Sizes, FirstSize,               \* screen sizes, <<height, width>>
    Echoed, Silent, Blank,          \* glyphs typed when the host echoes, when not; none
    Text, FirstCol,                 \* the glyph the host's screen is full of at first, and
                                    \* the column of its cursor
    KeyKinds, Intervals,            \* kinds of keys; send intervals the network measures
    GLITCH_THRESHOLD, GLITCH_FLAG_THRESHOLD,
    GLITCH_REPAIR_COUNT, GLITCH_REPAIR_MININTERVAL,
    MaxKeys, MaxFrame, MaxTime      \* bounds: keys typed, frames sent, time

Preferences == {"Always", "Never", "Adaptive", "Experimental"}

ASSUME PredictionAssumption ==
    /\ DisplayPreferences \subseteq Preferences /\ Overwrites \subseteq BOOLEAN
    /\ Sizes \subseteq (Nat \ {0}) \X (Nat \ {0}) /\ FirstSize \in Sizes
    /\ Echoed \cap Silent = {} /\ Blank \notin Echoed \cup Silent /\ Text \notin Silent
    /\ FirstCol \in 0 .. FirstSize[2] - 1
    /\ {GLITCH_THRESHOLD, GLITCH_FLAG_THRESHOLD, MaxKeys, MaxFrame, MaxTime} \subseteq Nat
    /\ GLITCH_REPAIR_COUNT \in Nat \ {0, 1} /\ GLITCH_REPAIR_MININTERVAL \in Nat \ {0}
    /\ Intervals \subseteq Nat

SRTT_TRIGGER_LOW == 20
SRTT_TRIGGER_HIGH == 30
FLAG_TRIGGER_LOW == 50
FLAG_TRIGGER_HIGH == 80

VARIABLES
    engine,             \* the PredictionEngine
    local_framebuffer,  \* what the user sees
    latest,             \* the latest remote state: [fb, echo_ack]
    phase, now,         \* where in an iteration of main; the time it was frozen at
    keys, unsent,       \* keys the host has not handled; how many are in no frame yet
    frame_num,          \* get_sent_state_last
    screen, host_echoes, echo_ack,    \* the host's screen; it echoes; the server's echo ack
    typed, typing_echoes,   \* how many keys were typed; whether the host will echo the next
    host_framebuffer    \* history: the host's screen that local_framebuffer was made from

server == <<screen, host_echoes, echo_ack>>
vars == <<engine, local_framebuffer, latest, phase, now, keys, unsent, frame_num, server,
          typed, typing_echoes, host_framebuffer>>

Cols(width) == 0 .. width - 1
Rows(height) == 0 .. height - 1

ScreenOf(size, glyph, col) ==
    [size |-> size, row |-> 0, col |-> col,
     cells |-> [r \in Rows(size[1]) |-> [c \in Cols(size[2]) |-> glyph]]]
Height(fb) == fb.size[1]
Width(fb) == fb.size[2]
OnScreen(fb, row, col) == row \in Rows(Height(fb)) /\ col \in Cols(Width(fb))

NoPrediction ==
    [active |-> FALSE, unknown |-> FALSE, replacement |-> Blank, originals |-> {},
     expiration |-> 0, epoch |-> 0, time |-> 0]

\* The elements of s that are in S.
Only(s, S) ==
    LET kept[n \in 0 .. Len(s)] ==
          IF n = 0 THEN <<>>
          ELSE IF s[n] \in S THEN Append(kept[n - 1], s[n]) ELSE kept[n - 1]
    IN  kept[Len(s)]

Init ==
    /\ engine \in
         [cursors : {<<>>}, overlays : {<<>>}, prediction_epoch : {1}, confirmed_epoch : {0},
          sent : {0}, late : {0}, size : {<<0, 0>>}, srtt_trigger : {FALSE},
          flagging : {FALSE}, glitch_trigger : {0}, quick : {0}, interval : {250},
          preference : DisplayPreferences, overwrite : Overwrites]
    /\ local_framebuffer = ScreenOf(FirstSize, Blank, 0)
    /\ host_framebuffer = local_framebuffer
    /\ latest = [fb |-> local_framebuffer, echo_ack |-> 0]
    /\ screen = ScreenOf(FirstSize, Text, FirstCol)
    /\ phase = "typed" /\ now = GLITCH_REPAIR_MININTERVAL
    /\ keys = <<>> /\ unsent = 0 /\ frame_num = 0
    /\ host_echoes = TRUE /\ echo_ack = 0 /\ typed = 0 /\ typing_echoes = TRUE

-----------------------------------------------------------------------------
(***************************************************************************)
(* The engine's operations take and return its state p; fb is the screen   *)
(* they are given.                                                         *)
(***************************************************************************)
Tentative(prediction, epoch) == prediction.epoch > epoch

BecomeTentative(p) ==
    IF p.preference = "Experimental" THEN p ELSE [p EXCEPT !.prediction_epoch = @ + 1]

Reset(p) == BecomeTentative([p EXCEPT !.cursors = <<>>, !.overlays = <<>>])

PushCursor(p, row, col) ==
    [p EXCEPT !.cursors = Append(@, [row |-> row, col |-> col, expiration |-> p.sent + 1,
                                     epoch |-> p.prediction_epoch])]
Cursor(p) == Last(p.cursors)
SetCursor(p, row, col) ==
    [p EXCEPT !.cursors[Len(p.cursors)] = [@ EXCEPT !.row = row, !.col = col]]
ExpireCursor(p) == [p EXCEPT !.cursors[Len(p.cursors)].expiration = p.sent + 1]

InitCursor(p, fb) ==
    IF p.cursors = <<>> THEN PushCursor(p, fb.row, fb.col)
    ELSE IF Cursor(p).epoch # p.prediction_epoch
         THEN PushCursor(p, Cursor(p).row, Cursor(p).col)
    ELSE p

KillEpoch(p, epoch, fb) ==
    LET survives(c) == ~Tentative(c, epoch - 1)
        thinned(row) == [row |-> row.row, cells |-> [c \in DOMAIN row.cells |->
                           IF survives(row.cells[c]) THEN row.cells[c] ELSE NoPrediction]]
        kept == [p EXCEPT
          !.cursors = Only(@, {c \in Range(@) : survives(c)}),
          !.overlays = [i \in DOMAIN @ |-> thinned(@[i])]]
    IN  BecomeTentative(PushCursor(kept, fb.row, fb.col))

Active(p) ==
    \/ p.cursors # <<>>
    \/ \E i \in DOMAIN p.overlays : \E c \in DOMAIN p.overlays[i].cells :
          p.overlays[i].cells[c].active

(***************************************************************************)
(* get_validity                                                            *)
(***************************************************************************)
\* mutant: a prediction stays pending one frame too long
CellValidityLate(p, cell, fb, row, col) ==
    IF ~cell.active THEN "Inactive"
    ELSE IF ~OnScreen(fb, row, col) THEN "IncorrectOrExpired"
    ELSE IF p.late <= cell.expiration THEN "Pending"
    ELSE IF cell.unknown \/ cell.replacement = Blank THEN "CorrectNoCredit"
    ELSE IF fb.cells[row][col] # cell.replacement THEN "IncorrectOrExpired"
    ELSE IF cell.replacement \in cell.originals THEN "CorrectNoCredit"
    ELSE "Correct"
CellValidity(p, cell, fb, row, col) ==
    IF ~cell.active THEN "Inactive"
    ELSE IF ~OnScreen(fb, row, col) THEN "IncorrectOrExpired"
    ELSE IF p.late < cell.expiration THEN "Pending"
    ELSE IF cell.unknown \/ cell.replacement = Blank THEN "CorrectNoCredit"
    ELSE IF fb.cells[row][col] # cell.replacement THEN "IncorrectOrExpired"
    ELSE IF cell.replacement \in cell.originals THEN "CorrectNoCredit"
    ELSE "Correct"

CursorValidity(p, cursor, fb) ==
    IF ~OnScreen(fb, cursor.row, cursor.col) THEN "IncorrectOrExpired"
    ELSE IF p.late < cursor.expiration THEN "Pending"
    ELSE IF <<cursor.row, cursor.col>> = <<fb.row, fb.col>> THEN "Correct"
    ELSE "IncorrectOrExpired"

(***************************************************************************)
(* cull: the triggers, then every cell in the order of the lists, then the *)
(* cursors.  A reset in the middle of it returns: nothing is left to judge.*)
(***************************************************************************)
Triggers(p) ==
    LET flagging == CASE p.interval > FLAG_TRIGGER_HIGH -> TRUE
                      [] p.interval <= FLAG_TRIGGER_LOW -> FALSE
                      [] OTHER -> p.flagging
    IN  [p EXCEPT
          !.srtt_trigger = \/ p.interval > SRTT_TRIGGER_HIGH
                           \/ @ /\ ~(p.interval <= SRTT_TRIGGER_LOW /\ ~Active(p)),
          !.flagging = flagging \/ p.glitch_trigger > GLITCH_REPAIR_COUNT]

\* A prediction pending for long shows predictions; for very long, underlined.
\* mutant: the long wait is only looked for where there is a short one
PendingGlitchOnce(p, age) ==
    IF age >= GLITCH_THRESHOLD /\ p.glitch_trigger < GLITCH_REPAIR_COUNT
    THEN [p EXCEPT !.glitch_trigger = GLITCH_REPAIR_COUNT] ELSE p
PendingGlitch(p, age) ==
    CASE age >= GLITCH_FLAG_THRESHOLD -> [p EXCEPT !.glitch_trigger = 2 * GLITCH_REPAIR_COUNT]
      [] age \in GLITCH_THRESHOLD .. GLITCH_FLAG_THRESHOLD - 1
         /\ p.glitch_trigger < GLITCH_REPAIR_COUNT ->
            [p EXCEPT !.glitch_trigger = GLITCH_REPAIR_COUNT]
      [] OTHER -> p

\* Predictions that are confirmed quickly slowly take the trigger away.
QuickRepair(p, age) ==
    IF /\ age < GLITCH_THRESHOLD /\ p.glitch_trigger > 0
       /\ now - GLITCH_REPAIR_MININTERVAL >= p.quick
    THEN [p EXCEPT !.glitch_trigger = @ - 1, !.quick = now] ELSE p

JudgeCell(p, fb, i, col) ==
    LET cell == p.overlays[i].cells[col]
        age == now - cell.time
        without(q) == [q EXCEPT !.overlays[i].cells[col] = NoPrediction]
        validity == CellValidity(p, cell, fb, p.overlays[i].row, col)
    IN  CASE validity = "IncorrectOrExpired" ->
                IF p.preference = "Experimental" THEN without(p)
                ELSE IF Tentative(cell, p.confirmed_epoch) THEN KillEpoch(p, cell.epoch, fb)
                ELSE Reset(p)
          [] validity = "Correct" ->
                without(QuickRepair([p EXCEPT !.confirmed_epoch =
                          IF @ < cell.epoch THEN cell.epoch ELSE @], age))
          [] validity = "CorrectNoCredit" -> without(p)
          [] validity = "Pending" -> PendingGlitch(p, age)
          [] OTHER -> p

JudgeRow(p, fb, i) ==
    LET judged[n \in 0 .. Width(fb)] ==
          IF n = 0 THEN p
          ELSE IF judged[n - 1].overlays = <<>> THEN judged[n - 1]
          ELSE JudgeCell(judged[n - 1], fb, i, n - 1)
    IN  judged[Width(fb)]

JudgeCells(p, fb) ==
    LET judged[n \in 0 .. Len(p.overlays)] ==
          IF n = 0 THEN p ELSE JudgeRow(judged[n - 1], fb, n)
    IN  judged[Len(p.overlays)]

JudgeCursors(p, fb) ==
    IF p.cursors # <<>> /\ CursorValidity(p, Cursor(p), fb) = "IncorrectOrExpired"
    THEN IF p.preference = "Experimental" THEN [p EXCEPT !.cursors = <<>>] ELSE Reset(p)
    ELSE [p EXCEPT !.cursors =
            Only(@, {c \in Range(@) : CursorValidity(p, c, fb) = "Pending"})]

\* mutant: predictions survive a change of the screen's size
FitKeep(p, fb) == [p EXCEPT !.size = fb.size]
Fit(p, fb) == IF p.size = fb.size THEN p ELSE Reset([p EXCEPT !.size = fb.size])

Cull(p, fb) ==
    IF p.preference = "Never" THEN p
    ELSE LET fit == Triggers(Fit(p, fb))
             on_screen == {row \in Range(fit.overlays) : row.row \in Rows(Height(fb))}
         IN  JudgeCursors(JudgeCells([fit EXCEPT !.overlays = Only(@, on_screen)], fb), fb)

(***************************************************************************)
(* apply: the predictions that are not tentative, if predictions are to be *)
(* shown at all.                                                           *)
(***************************************************************************)
Shown(p) ==
    p.preference # "Never" /\
        (p.srtt_trigger \/ p.glitch_trigger > 0 \/ p.preference \in {"Always", "Experimental"})

\* mutant: tentative predictions are shown as well
ShownCellAlways(p, row, col, glyph) ==
    LET cells == {p.overlays[i].cells[col] : i \in {j \in DOMAIN p.overlays :
                                                     p.overlays[j].row = row}}
        shown == {c \in cells : c.active /\ ~c.unknown}
    IN  IF shown = {} THEN glyph ELSE (CHOOSE c \in shown : TRUE).replacement
ShownCell(p, row, col, glyph) ==
    LET cells == {p.overlays[i].cells[col] : i \in {j \in DOMAIN p.overlays :
                                                     p.overlays[j].row = row}}
        shown == {c \in cells : c.active /\ ~c.unknown /\ ~Tentative(c, p.confirmed_epoch)}
    IN  IF shown = {} THEN glyph ELSE (CHOOSE c \in shown : TRUE).replacement

Apply(p, fb) ==
    LET settled == {c \in Range(p.cursors) : ~Tentative(c, p.confirmed_epoch)}
        cursors == Only(p.cursors, settled)
        cursor == IF cursors = <<>> THEN fb ELSE Last(cursors)
    IN  IF ~Shown(p) THEN fb
        ELSE [fb EXCEPT !.row = cursor.row, !.col = cursor.col,
                        !.cells = [r \in DOMAIN @ |-> [c \in DOMAIN @[r] |->
                                                        ShownCell(p, r, c, @[r][c])]]]

\* wait_time, in units of 50 ms
NeedsPoll(p) == ~(p.glitch_trigger > 0 /\ p.flagging) /\ Active(p)

-----------------------------------------------------------------------------
(***************************************************************************)
(* get_or_make_row                                                         *)
(***************************************************************************)
HasRow(p, row) == \E i \in DOMAIN p.overlays : p.overlays[i].row = row
RowIndex(p, row) == CHOOSE i \in DOMAIN p.overlays : p.overlays[i].row = row
MakeRow(p, fb, row) ==
    IF HasRow(p, row) THEN p
    ELSE [p EXCEPT !.overlays =
            Append(@, [row |-> row, cells |-> [c \in Cols(Width(fb)) |-> NoPrediction]])]
CellsOf(p, row) == p.overlays[RowIndex(p, row)].cells

(***************************************************************************)
(* What new_user_byte does to a cell it predicts: reset_with_orig, expire, *)
(* and the cell on the screen among the originals.                         *)
(***************************************************************************)
\* mutant: off by one frame
PredictLate(p, cell, content, original) ==
    [active |-> TRUE, unknown |-> content.unknown, replacement |-> content.replacement,
     originals |-> (IF cell.active /\ ~cell.unknown
                    THEN cell.originals \cup {cell.replacement} ELSE {}) \cup {original},
     expiration |-> p.sent + 2, epoch |-> p.prediction_epoch, time |-> now]
Predict(p, cell, content, original) ==
    [active |-> TRUE, unknown |-> content.unknown, replacement |-> content.replacement,
     originals |-> (IF cell.active /\ ~cell.unknown
                    THEN cell.originals \cup {cell.replacement} ELSE {}) \cup {original},
     expiration |-> p.sent + 1, epoch |-> p.prediction_epoch, time |-> now]

Known(glyph) == [unknown |-> FALSE, replacement |-> glyph]
Unknown == [unknown |-> TRUE, replacement |-> Blank]
Content(p, fb, row, col) ==
    LET cell == CellsOf(p, row)[col] IN
    CASE ~cell.active -> Known(fb.cells[row][col])
      [] cell.active /\ cell.unknown -> Unknown
      [] OTHER -> Known(cell.replacement)

\* Predict the cells of a row for which content says what will be in them.
PredictCells(p, row, content, original) ==
    [p EXCEPT !.overlays[RowIndex(p, row)].cells =
       [c \in DOMAIN @ |-> IF c \in DOMAIN content
                           THEN Predict(p, @[c], content[c], original[c]) ELSE @[c]]]

NewlineCarriageReturn(p, fb) ==
    LET q == InitCursor(p, fb)
        row == Cursor(q).row
        bottom == MakeRow(SetCursor(q, row, 0), fb, row)
        blank(cell) == [cell EXCEPT !.active = TRUE, !.replacement = Blank,
                                    !.epoch = p.prediction_epoch,
                                    !.expiration = p.sent + 1, !.time = now]
    IN  IF row # Height(fb) - 1 THEN SetCursor(q, row + 1, 0)
        ELSE [bottom EXCEPT !.overlays[RowIndex(bottom, row)].cells =
                [c \in DOMAIN @ |-> blank(@[c])]]

Backspace(p, fb) ==
    LET row == Cursor(p).row
        col == Cursor(p).col - 1
        made == MakeRow(p, fb, row)
        moved == ExpireCursor(SetCursor(made, row, col))
        shifted == [c \in col .. Width(fb) - 1 |->
                      IF c + 2 < Width(fb) THEN Content(made, fb, row, c + 1) ELSE Unknown]
    IN  CASE Cursor(p).col = 0 -> made
          [] Cursor(p).col > 0 /\ p.overwrite ->
                PredictCells(moved, row, [c \in {col} |-> Known(Blank)],
                             [c \in {col} |-> fb.cells[fb.row][fb.col]])
          [] OTHER -> PredictCells(moved, row, shifted, fb.cells[row])

InsertGlyph(p, fb, glyph) ==
    LET row == Cursor(p).row
        col == Cursor(p).col
        last == Width(fb) - 1
        made == MakeRow(p, fb, row)
        before == IF col = last THEN BecomeTentative(made) ELSE made
        inserted == [c \in IF p.overwrite THEN {col} ELSE col .. last |->
                       IF c = col THEN Known(glyph)
                       ELSE IF c = last THEN Unknown
                       ELSE Content(made, fb, row, c - 1)]
        predicted == ExpireCursor(PredictCells(before, row, inserted, fb.cells[row]))
    IN  IF col < last THEN SetCursor(predicted, row, col + 1)
        ELSE NewlineCarriageReturn(BecomeTentative(predicted), fb)

\* An arrow that cannot move does not set the expiration either.
Arrow(p, fb, col) ==
    IF col \in Cols(Width(fb)) THEN ExpireCursor(SetCursor(p, Cursor(p).row, col)) ELSE p

\* mutant: after a return, predictions go on as before
ReturnSettled(p, fb) == NewlineCarriageReturn(p, fb)
Return(p, fb) == NewlineCarriageReturn(BecomeTentative(p), fb)

NewUserByte(p, fb, key) ==
    LET q == Cull([p EXCEPT !.prediction_epoch =
                     IF p.preference = "Experimental" THEN p.confirmed_epoch ELSE @], fb)
        ready == InitCursor(q, fb)
    IN  IF p.preference = "Never" THEN p
        ELSE CASE key.kind = "print" -> InsertGlyph(ready, fb, key.glyph)
               [] key.kind = "backspace" -> Backspace(ready, fb)
               [] key.kind = "wide" -> BecomeTentative(ready)
               [] key.kind = "return" -> Return(q, fb)
               [] key.kind = "control" -> BecomeTentative(q)
               [] key.kind = "right" -> Arrow(ready, fb, Cursor(ready).col + 1)
               [] key.kind = "left" -> Arrow(ready, fb, Cursor(ready).col - 1)

-----------------------------------------------------------------------------
(***************************************************************************)
(* The main loop.  An iteration draws a frame, waits in select for at most *)
(* wait_time, reads a packet, then keys, and ticks.                        *)
(***************************************************************************)
Wait ==
    /\ phase = "select" /\ now < MaxTime
    /\ now' = now + 1
    /\ phase' = IF NeedsPoll(engine) THEN "woken" ELSE "select"
    /\ UNCHANGED <<engine, local_framebuffer, latest, keys, unsent, frame_num, server, typed,
                   typing_echoes, host_framebuffer>>

\* process_network_input, when the packet brings the server's latest state
Hinted(p, interval) == [p EXCEPT !.late = echo_ack, !.interval = interval]

Hear ==
    /\ phase \in {"select", "woken"}
    /\ latest' = [fb |-> screen, echo_ack |-> echo_ack]
    /\ \E interval \in Intervals : engine' = Hinted(engine, interval)
    /\ phase' = "heard"
    /\ UNCHANGED <<local_framebuffer, now, keys, unsent, frame_num, server, typed,
                   typing_echoes, host_framebuffer>>

\* process_user_input: one key at a time, or a paste, which is not predicted; and
\* process_resize, which reading the keys may call
Predicted(key) ==
    LET p == [engine EXCEPT !.sent = frame_num] IN
    IF key.kind = "resize" THEN Reset(engine)
    ELSE IF key.kind = "paste" THEN Reset(p)
    ELSE NewUserByte(p, local_framebuffer, key)

Key ==
    [kind : {"print", "paste"}, glyph : IF typing_echoes THEN Echoed ELSE Silent]
    \cup [kind : {"return", "control"}, echo : BOOLEAN]
    \cup [kind : {"resize"}, size : Sizes]
    \cup [kind : {"backspace", "wide", "right", "left"}]

ChangesEcho(key) == key.kind \in {"return", "control"}

Type ==
    \E key \in {k \in Key : k.kind \in KeyKinds} :
        /\ typed < MaxKeys /\ typed' = typed + 1
        /\ engine' = Predicted(key)
        /\ keys' = Append(keys, key) /\ unsent' = unsent + 1
        /\ typing_echoes' = IF ChangesEcho(key) THEN key.echo ELSE typing_echoes
        /\ phase' = "typed"
        /\ UNCHANGED <<local_framebuffer, latest, now, frame_num, server, host_framebuffer>>

\* The end of an iteration, and the start of the next: tick, which may send a frame, and
\* output_new_frame.
Iterate ==
    /\ \/ UNCHANGED <<unsent, frame_num>>
       \/ frame_num < MaxFrame /\ frame_num' = frame_num + 1 /\ unsent' = 0
    /\ engine' = Cull(engine, latest.fb)
    /\ local_framebuffer' = Apply(engine', latest.fb)
    /\ host_framebuffer' = latest.fb
    /\ phase' = "select"
    /\ UNCHANGED <<latest, now, keys, server, typed, typing_echoes>>

-----------------------------------------------------------------------------
(***************************************************************************)
(* The server and the host.                                                *)
(***************************************************************************)
Printed(fb, glyph) ==
    [fb EXCEPT !.cells[fb.row][fb.col] = glyph,
               !.col = IF fb.col < Width(fb) - 1 THEN @ + 1 ELSE @]

NewLine(fb) ==
    IF fb.row < Height(fb) - 1 THEN [fb EXCEPT !.row = @ + 1, !.col = 0]
    ELSE [fb EXCEPT !.col = 0,
                    !.cells = [r \in DOMAIN @ |-> IF r < fb.row THEN @[r + 1]
                                                  ELSE [c \in DOMAIN @[r] |-> Blank]]]

Resized(fb, size) ==
    [size |-> size, row |-> Min({fb.row, size[1] - 1}), col |-> Min({fb.col, size[2] - 1}),
     cells |-> [r \in Rows(size[1]) |-> [c \in Cols(size[2]) |->
                  IF OnScreen(fb, r, c) THEN fb.cells[r][c] ELSE Blank]]]

Handled(fb, key) ==
    IF key.kind = "resize" THEN Resized(fb, key.size)
    ELSE IF key.kind = "return" THEN NewLine(fb)
    ELSE IF ~host_echoes THEN fb
    ELSE CASE key.kind \in {"print", "paste"} -> Printed(fb, key.glyph)
           [] key.kind = "right" -> [fb EXCEPT !.col = Min({@ + 1, Width(fb) - 1})]
           [] key.kind = "left" -> [fb EXCEPT !.col = Max({@ - 1, 0})]
           [] key.kind = "backspace" ->
                 IF fb.col = 0 THEN fb
                 ELSE [fb EXCEPT !.col = @ - 1, !.cells[fb.row][fb.col - 1] = Blank]
           [] key.kind \in {"wide", "control"} -> fb

Host ==
    /\ Len(keys) > unsent
    /\ screen' = Handled(screen, Head(keys))
    /\ host_echoes' = IF ChangesEcho(Head(keys)) THEN Head(keys).echo ELSE host_echoes
    /\ keys' = Tail(keys)
    /\ UNCHANGED <<engine, local_framebuffer, latest, phase, now, unsent, frame_num, echo_ack,
                   typed, typing_echoes, host_framebuffer>>

EchoAck ==
    /\ echo_ack < frame_num
    /\ echo_ack' \in echo_ack + 1 .. frame_num
    /\ UNCHANGED <<engine, local_framebuffer, latest, phase, now, keys, unsent, frame_num,
                   screen, host_echoes, typed, typing_echoes, host_framebuffer>>

Next == Wait \/ Hear \/ Type \/ Iterate \/ Host \/ EchoAck

Spec == Init /\ [][Next]_vars

-----------------------------------------------------------------------------
(***************************************************************************)
(* The assertions of apply and of new_user_byte, and its indexing of cells *)
(* by columns of the screen: predictions lie within the screen they will   *)
(* next be used with, across resizes at either end.                        *)
(***************************************************************************)
PredictionsFit ==
    /\ \A i \in DOMAIN engine.cursors :
          OnScreen(local_framebuffer, engine.cursors[i].row, engine.cursors[i].col)
    /\ \A i \in DOMAIN engine.overlays :
          /\ engine.overlays[i].row \in Rows(Height(local_framebuffer))
          /\ DOMAIN engine.overlays[i].cells = Cols(Width(local_framebuffer))

(***************************************************************************)
(* What is typed while the host does not echo is never seen, however far   *)
(* the typing runs ahead of the host and whatever was typed before: of an  *)
(* engine that overwrites (MOSH_PREDICTION_OVERWRITE).  One that inserts   *)
(* moves predictions along and takes them into its present epoch, so that  *)
(* it may show what was typed in silence when something echoed was typed   *)
(* to the left of it and is confirmed.                                     *)
(***************************************************************************)
SilenceIsKept ==
    engine.overwrite /\ engine.preference # "Experimental" =>
        \A row \in Rows(Height(local_framebuffer)) :
            Range(local_framebuffer.cells[row]) \cap Silent = {}

(***************************************************************************)
(* Once a frame is drawn, no prediction is left that the server's echo ack *)
(* lets be judged: a wrong one is on the screen no longer.                 *)
(***************************************************************************)
JudgedAreGone ==
    phase = "select" /\ engine.preference # "Never" =>
        /\ \A i \in DOMAIN engine.cursors : engine.cursors[i].expiration > engine.late
        /\ \A i \in DOMAIN engine.overlays : \A c \in DOMAIN engine.overlays[i].cells :
              engine.overlays[i].cells[c].active =>
                  engine.overlays[i].cells[c].expiration > engine.late

(***************************************************************************)
(* Epochs are confirmed by what the host shows, not by other predictions:  *)
(* new_user_byte judges by the screen the user sees, predictions included, *)
(* and the main loop gives it the echo ack of a later one.                 *)
(***************************************************************************)
CreditIsTheHosts ==
    [][engine'.confirmed_epoch > engine.confirmed_epoch =>
         \E i \in DOMAIN engine.overlays : \E c \in DOMAIN engine.overlays[i].cells :
            LET cell == engine.overlays[i].cells[c] IN
            /\ cell.active /\ cell.epoch = engine'.confirmed_epoch
            /\ host_framebuffer'.cells[engine.overlays[i].row][c] = cell.replacement
            /\ cell.replacement # Blank]_vars

(***************************************************************************)
(* A prediction that is pending for long turns predictions on, and one     *)
(* pending for very long underlines them (in the next frame at the latest),*)
(* although the loop stops looking when it has nothing to find, and quick  *)
(* confirmations wear the trigger off.                                     *)
(***************************************************************************)
PendingSince(age) ==
    \E i \in DOMAIN engine.overlays : \E c \in DOMAIN engine.overlays[i].cells :
        engine.overlays[i].cells[c].active /\ now - engine.overlays[i].cells[c].time > age

LatePredictionsShow ==
    engine.preference # "Never" =>
        /\ PendingSince(GLITCH_THRESHOLD) => engine.glitch_trigger > 0
        /\ PendingSince(GLITCH_FLAG_THRESHOLD) =>
              engine.flagging \/ engine.glitch_trigger > GLITCH_REPAIR_COUNT

(***************************************************************************)
(* When the typing stops and what was typed has been sent, the user ends up*)
(* seeing the host's screen, whatever was predicted.                       *)
(*                                                                         *)
(* Fairness: the loop runs, packets get through, and the host and its echo *)
(* ack catch up.  Weak fairness of Iterate is spelt out, with a predicate  *)
(* for ENABLED.                                                            *)
(***************************************************************************)
IterateChanges ==
    \/ phase # "select" \/ engine # Cull(engine, latest.fb)
    \/ local_framebuffer # Apply(engine, latest.fb) \/ host_framebuffer # latest.fb

Fairness ==
    /\ []<>~IterateChanges \/ []<><<Iterate>>_vars
    /\ WF_vars(Hear) /\ WF_vars(Host) /\ WF_vars(EchoAck /\ echo_ack' = frame_num)
FairSpec == Spec /\ Fairness

TruthPrevails == <>[](unsent = 0) => <>[](local_framebuffer = screen)
=============================================================================
