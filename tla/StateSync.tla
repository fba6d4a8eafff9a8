----------------------------- MODULE StateSync -----------------------------
(***************************************************************************)
(* What one direction of a Transport promises, whatever the network does:  *)
(* a sender publishes snapshots of its state under growing numbers, and    *)
(* the other end always looks at one of them, never going back.            *)
(***************************************************************************)
EXTENDS Naturals

CONSTANTS State, InitState, LastNum

VARIABLES
    snapshots,   \* the set of [num, state] records published so far
    view         \* the record the other end looks at

vars == <<snapshots, view>>

Snapshot == [num : 0 .. LastNum, state : State]

Init ==
    /\ snapshots = {[num |-> 0, state |-> InitState]}
    /\ view = [num |-> 0, state |-> InitState]

\* The sender publishes its state under a number above every earlier one.
Publish ==
    /\ \E s \in Snapshot :
          /\ \A t \in snapshots : t.num < s.num
          /\ snapshots' = snapshots \cup {s}
    /\ UNCHANGED view

\* The other end skips to a later snapshot, perhaps over several.
Advance ==
    /\ \E s \in snapshots : s.num > view.num /\ view' = s
    /\ UNCHANGED snapshots

Next == Publish \/ Advance

Spec == Init /\ [][Next]_vars
=============================================================================
