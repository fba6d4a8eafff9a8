---------------------------- MODULE MCConnection ----------------------------
(* Finite instances of Connection for TLC. *)
EXTENDS Connection

\* The clocks are about to wrap, at different times.
MCEpoch == [e \in Endpoint |-> IF e = Client THEN Modulus - 2 ELSE Modulus + 3]
=============================================================================
