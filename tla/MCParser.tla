----------------------------- MODULE MCParser ------------------------------
(***************************************************************************)
(* Parser on one byte of every class that the states and the decoder tell  *)
(* apart, with limits low enough to be reached.                            *)
(***************************************************************************)
EXTENDS Parser

MCBytes ==
    {7, 24, 27}                       \* BEL, CAN, ESC
    \union {32, 49, 58, 63, 65, 127}  \* space 1 : ? A DEL
    \union {80, 91, 93}               \* P [ ]: after ESC, DCS, CSI and OSC
    \union {194, 224, 237, 240}       \* first bytes of two, three (twice) and four
    \union {155, 160}                 \* C2 9B is CSI; ED A0 begins a surrogate
=============================================================================
