------------------------------ MODULE Screens ------------------------------
(***************************************************************************)
(* The screen as the server keeps it, as the client rebuilds it, and the   *)
(* frames in between: statesync/completeterminal.cc over the emulator and  *)
(* the display.                                                            *)
(*                                                                         *)
(* server is the server's Complete terminal, written to by the host.  last *)
(* is the server's copy of the state the client is known to hold, and      *)
(* client the client's: a frame is computed from last, and applied to      *)
(* client.  That frames reach the client, once and on the state they were  *)
(* computed from, is Transport's part.                                     *)
(***************************************************************************)
EXTENDS Display

CONSTANTS
    Sizes,        \* the window's sizes, as <<width, height>>
    HostWrites,   \* the functions a host program may write
    Beginnings,   \* runs of functions already written, and shown, at the start
    MaxWrites,    \* bound: functions written and resizes
    MaxFrames     \* bound: frames

ASSUME SizesAssumption == Sizes \subseteq (Nat \ {0}) \X (Nat \ {0})
ASSUME BoundsAssumption == MaxWrites \in Nat /\ MaxFrames \in Nat

\* What Parser and Dispatcher deliver: the parameters are numbers.
Delivered(f) == f.fn \notin {"print", "OSC"} => f.p \in Seq(Int)
ASSUME WritesAssumption ==
    /\ \A f \in HostWrites : Delivered(f)
    /\ \A written \in Beginnings :
          /\ written \in Seq(Range(written))
          /\ \A i \in DOMAIN written : Delivered(written[i])

VARIABLES
    server, last, client,
    rewritten,    \* a row of server is no longer last's own: rows are compared by pointer
    cornered,     \* history: a backspace met the pending wrap of a full line
    writes, frames
screens_vars == <<server, last, client, rewritten, cornered, writes, frames>>

\* The functions that take a row to write to it, or a new one (a line feed only if it scrolls).
RewritesRows(f) ==
    \/ f.fn \in {"print", "LF", "RI", "NEL", "DECALN", "RIS", "EL", "ED", "ECH", "IL", "DL",
                 "ICH", "DCH", "SD", "SU"}
    \/ f.fn \in {"DECSM", "DECRM"} /\ 3 \in ToSet(f.p)

(* Complete::diff_from and apply_string: the resize first, then the frame. *)
Resized(fb, from, to) == IF SameSize(from, to) THEN fb ELSE resize(fb, to.width, to.height)

ApplyFrame(fb, from, to, s) == Act(Resized(fb, from, to), new_frame(TRUE, from, to, s))

\* The backspaces of a frame that count columns from beyond the right edge.
BackspacesFromTheEdge(fb, functions) ==
    \E i \in DOMAIN functions :
        functions[i].fn = "BS" /\ Act(fb, SubSeq(functions, 1, i - 1)).next_print_will_wrap

ScreensInit ==
    \E size \in Sizes, written \in Beginnings :
        LET blank == NewFramebuffer(size[1], size[2])
            shown == Act(blank, written)
        IN  /\ server = shown
            /\ last = shown
            /\ client = ApplyFrame(blank, blank, shown, NoScroll)
            /\ rewritten = FALSE /\ cornered = FALSE
            /\ writes = 0 /\ frames = 0

HostWritesOne ==
    /\ writes < MaxWrites
    /\ \E f \in HostWrites :
          server' = Apply(server, f) /\ rewritten' = (rewritten \/ RewritesRows(f))
    /\ writes' = writes + 1
    /\ UNCHANGED <<last, client, cornered, frames>>

WindowResized ==
    /\ writes < MaxWrites
    /\ \E size \in Sizes :
          /\ server' = resize(server, size[1], size[2])
          /\ rewritten' = (rewritten \/ ~SameSize(server, server'))
    /\ writes' = writes + 1
    /\ UNCHANGED <<last, client, cornered, frames>>

FrameSent ==
    /\ frames < MaxFrames
    /\ ~SameFramebuffer(server, last) \/ rewritten
    /\ \E s \in Scrolls(last, server) :
        \E functions \in {new_frame(TRUE, last, server, s)} :
            /\ client' = Act(Resized(client, last, server), functions)
            /\ cornered' = (cornered \/ BackspacesFromTheEdge(Resized(client, last, server), functions))
    /\ last' = server /\ rewritten' = FALSE
    /\ frames' = frames + 1
    /\ UNCHANGED <<server, writes>>

ScreensNext == HostWritesOne \/ WindowResized \/ FrameSent
ScreensSpec == ScreensInit /\ [][ScreensNext]_screens_vars

-----------------------------------------------------------------------------
\* What a user sees of a screen: an empty cell looks like a space.
Grapheme(cell) == IF IsEmpty(cell) THEN " " ELSE cell.contents
Looks(fb) ==
    [y \in DOMAIN fb.rows |-> [x \in DOMAIN fb.rows[y] |->
        <<Grapheme(fb.rows[y][x]), fb.rows[y][x].renditions>>]]
SameLooks(a, b) ==
    /\ Looks(a) = Looks(b)
    /\ a.cursor_row = b.cursor_row /\ a.cursor_col = b.cursor_col

FramebufferOK(fb) ==
    /\ <<fb.width, fb.height>> \in Sizes
    /\ Len(fb.rows) = fb.height /\ \A y \in DOMAIN fb.rows : Len(fb.rows[y]) = fb.width
    /\ fb.cursor_col \in 0 .. fb.width - 1 /\ fb.cursor_row \in 0 .. fb.height - 1
    /\ fb.top \in 0 .. fb.bottom /\ fb.bottom < fb.height
    /\ fb.tabs \subseteq 0 .. fb.width - 1

\* Whatever the host writes and however the window changes, every screen keeps its shape:
\* rows and cells are as many as its size says, and the cursor, the margins and the tab stops
\* lie inside.  The code indexes by all of them (assert and vector::at in terminalframebuffer).
ScreensTypeOK ==
    /\ FramebufferOK(server) /\ FramebufferOK(last) /\ FramebufferOK(client)
    /\ rewritten \in BOOLEAN /\ cornered \in BOOLEAN
    /\ writes \in 0 .. MaxWrites /\ frames \in 0 .. MaxFrames

\* A frame reproduces the screen: after new_frame's output has gone through the client's own
\* emulator, the client shows every character in the rendition it has on the server, and the
\* cursor is where the server has it; whatever scrolled, wrapped, was erased or resized, and
\* although the frame says nothing of the host's margins, tab stops, insert, origin and wrap
\* modes.  Except after a backspace from beyond the last column: see RoundTripIdentity.
SameDisplay == ~cornered => SameLooks(client, last)

\* transportsender-impl.h:175 calls it "round-trip identity" and verifies it when verbose:
\* a diff applied to the state it was made from gives the new state.  It does not when
\* put_row has filled the last row: the frame then counts its backspaces from column W, while
\* the client's cursor waits at W - 1.
RoundTripIdentity == SameLooks(client, last)

\* Between frames the client's emulator is as a frame expects it: no margins, no pending wrap,
\* neither insert nor origin mode, automatic wrap on.  A frame that left one of them behind
\* would corrupt the next one.
ClientStaysPlain ==
    /\ client.top = 0 /\ client.bottom = client.height - 1
    /\ ~client.next_print_will_wrap
    /\ ~client.modes.insert_mode /\ ~client.modes.origin_mode /\ client.modes.auto_wrap_mode

\* What a frame sets besides the cells arrives too: the rendition the next character is to
\* have, the modes that are only sent when they changed, the clipboard and the window title, of
\* which the emulator at the other end cuts what its own prefix takes.
SameModes ==
    /\ client.renditions = last.renditions
    /\ client.mouse = last.mouse
    /\ \A m \in {"cursor_visible", "reverse_video", "bracketed_paste", "mouse_focus_event"} :
            client.modes[m] = last.modes[m]
    /\ client.clipboard = last.clipboard
    /\ client.window_title = SubSeq(last.window_title, 1, Min({Len(last.window_title), TitleLimit - 2}))
=============================================================================
