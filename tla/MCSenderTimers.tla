-------------------------- MODULE MCSenderTimers --------------------------
(* A finite instance of SenderTimers for TLC. *)
EXTENDS SenderTimers, TLC

\* A fast and a slow path: send_interval() is clamped to 20..250 ms around
\* ACK_DELAY's 100 and the 200 of ErrorSleep, timeout() to 50..1000.
MCRtt == {[interval |-> 1, timeout |-> 1], [interval |-> 4, timeout |-> 4]}
MCSymmetry == Permutations(State \ {InitState})
=============================================================================
