------------------------- MODULE InstructionChannel -------------------------
(***************************************************************************)
(* What Transport takes the layers below it for: an instruction that was   *)
(* sent may arrive at any time, any number of times, or never, and nothing *)
(* else ever arrives.                                                      *)
(***************************************************************************)
CONSTANT Instruction

VARIABLES
    sent,       \* the instructions sent so far
    delivered   \* the instructions that arrived so far

Init == sent = {} /\ delivered = {}

Send == \E m \in Instruction : sent' = sent \cup {m} /\ UNCHANGED delivered

Deliver == \E m \in sent : delivered' = delivered \cup {m} /\ UNCHANGED sent

Spec == Init /\ [][Send \/ Deliver]_<<sent, delivered>>
=============================================================================
