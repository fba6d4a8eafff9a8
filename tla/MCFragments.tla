---------------------------- MODULE MCFragments ----------------------------
(* A finite instance of Fragments for TLC: instructions of one to four     *)
(* bytes, cut into pieces of one or two; four pieces are one too many.     *)
EXTENDS Fragments

MCInstruction == {"short", "even", "odd", "long"}
MCLength == [i \in MCInstruction |->
    CASE i = "short" -> 1 [] i = "even" -> 2 [] i = "odd" -> 3 [] i = "long" -> 4]
=============================================================================
