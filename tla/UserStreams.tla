----------------------------- MODULE UserStreams -----------------------------
(***************************************************************************)
(* The keystrokes: statesync/user.cc as the state of a Transport, from the *)
(* client to the server.  A UserStream is the queue of everything typed,   *)
(* but each end keeps cutting the prefix both are known to have off its    *)
(* copies (rationalize_states at the sender, get_remote_diff at the        *)
(* receiver), at moments of its own; a diff is what to append.             *)
(*                                                                         *)
(* Abstractions.                                                           *)
(*  - An event is its place in what was typed.  A list of states, sorted   *)
(*    by number, is the set of its [num, state] records.                   *)
(*  - As in Transport, a tick may find any timer expired, assumes the      *)
(*    front or the back of sent_states, and the network loses, repeats and *)
(*    reorders; the limits of the lists are left to Transport.             *)
(*  - The server's calls of get_remote_diff are its main loop's, which is  *)
(*    not in this repository.                                              *)
(***************************************************************************)
EXTENDS Naturals, SequencesExt

CONSTANTS MaxTyped, MaxNum   \* bounds: events typed, states numbered

ASSUME UserStreamAssumption == MaxTyped \in Nat /\ MaxNum \in Nat

VARIABLES
    current, sent,                  \* the sender's UserStreams
    received, last_receiver_state,  \* the receiver's
    net, acks,                      \* instructions, and numbers acknowledged, on the way
    aborted,                        \* an assertion of user.cc failed
    typed,                          \* history: how many events were typed
    sender_cut, receiver_cut,       \* history: how many events each end has cut off
    output,                         \* history: what get_remote_diff gave the server's pty
    snapshots                       \* history: the states sent, as [num, state: a length]

vars == <<current, sent, received, last_receiver_state, net, acks, aborted, typed,
          sender_cut, receiver_cut, output, snapshots>>

Blank == [num |-> 0, state |-> <<>>]

Oldest(list) == CHOOSE s \in list : \A t \in list : s.num <= t.num
Newest(list) == CHOOSE s \in list : \A t \in list : t.num <= s.num

Init ==
    /\ current = <<>> /\ sent = {Blank}
    /\ received = {Blank} /\ last_receiver_state = <<>>
    /\ net = {} /\ acks = {} /\ aborted = FALSE
    /\ typed = 0 /\ sender_cut = 0 /\ receiver_cut = 0 /\ output = <<>>
    /\ snapshots = {[num |-> 0, state |-> 0]}

(***************************************************************************)
(* user.cc: both operations assert that one stream is a prefix of another, *)
(* and then drop it.  A step in which that fails sets aborted, and is the  *)
(* last one.                                                               *)
(***************************************************************************)
Subtractable(stream, prefix) == IsPrefix(prefix, stream)
Subtract(stream, prefix) == SubSeq(stream, Len(prefix) + 1, Len(stream))

DiffFrom(stream, existing) == SubSeq(stream, Len(existing) + 1, Len(stream))
ApplyString(stream, diff) == stream \o diff

\* push_back
Type ==
    /\ ~aborted
    /\ typed < MaxTyped /\ typed' = typed + 1
    /\ current' = Append(current, typed')
    /\ UNCHANGED <<sent, received, last_receiver_state, net, acks, aborted, sender_cut,
                   receiver_cut, output, snapshots>>

(***************************************************************************)
(* rationalize_states, part of every tick and wait_time: the front of      *)
(* sent_states, which the other end has, is cut off the current state and  *)
(* off all of sent_states, itself last.                                    *)
(***************************************************************************)
CutOff(list, prefix) == {[s EXCEPT !.state = Subtract(@, prefix)] : s \in list}

Known == Oldest(sent).state

Rationalized == CutOff(sent, Known)

RationalizeHolds ==
    Subtractable(current, Known) /\ \A s \in sent : Subtractable(s.state, Known)

Wait ==
    /\ ~aborted
    /\ aborted' = ~RationalizeHolds
    /\ current' = Subtract(current, Known)
    /\ sent' = Rationalized
    /\ sender_cut' = sender_cut + Len(Known)
    /\ UNCHANGED <<received, last_receiver_state, net, acks, typed, receiver_cut, output,
                   snapshots>>

(***************************************************************************)
(* tick: rationalize, and send a diff or an empty ack from what the other  *)
(* end is known or assumed to have.                                        *)
(***************************************************************************)
\* mutant: while anything is unacknowledged, the last number is used again
NewNumSticky(list, state, diff) ==
    IF diff # <<>> /\ Oldest(list) # Newest(list) THEN Newest(list).num ELSE Newest(list).num + 1
NewNum(list, state, diff) ==
    IF diff # <<>> /\ state = Newest(list).state THEN Newest(list).num ELSE Newest(list).num + 1

\* The diff from the known state is preferred if it is as short: if it is empty.
Bases(list, state) ==
    IF state = Oldest(list).state THEN {Oldest(list)} ELSE {Oldest(list), Newest(list)}

Send ==
    LET state == Subtract(current, Known)
        list == Rationalized
    IN  \E base \in Bases(list, state) :
          LET diff == DiffFrom(state, base.state)
              new_num == NewNum(list, state, diff)
          IN  /\ ~aborted
              /\ aborted' = ~(RationalizeHolds /\ Subtractable(state, base.state))
              /\ new_num <= MaxNum
              /\ current' = state
              /\ sender_cut' = sender_cut + Len(Known)
              /\ sent' = IF new_num = Newest(list).num THEN list
                         ELSE list \cup {[num |-> new_num, state |-> state]}
              /\ net' = net \cup {[old |-> base.num, new |-> new_num, diff |-> diff,
                                   throwaway |-> Oldest(list).num]}
              /\ snapshots' = snapshots \cup
                                {[num |-> new_num, state |-> sender_cut' + Len(state)]}
              /\ UNCHANGED <<received, last_receiver_state, acks, typed, receiver_cut,
                             output>>

\* process_acknowledgment_through
ProcessAcknowledgment ==
    \E ack \in acks :
        /\ ~aborted
        /\ \E s \in sent : s.num = ack
        /\ sent' = {s \in sent : s.num >= ack}
        /\ UNCHANGED <<current, received, last_receiver_state, net, acks, aborted, typed,
                       sender_cut, receiver_cut, output, snapshots>>

(***************************************************************************)
(* recv at the other end.                                                  *)
(***************************************************************************)
HasNum(list, num) == \E s \in list : s.num = num
WithNum(list, num) == CHOOSE s \in list : s.num = num

Recv ==
    \E m \in net :
        /\ ~aborted
        /\ ~HasNum(received, m.new) /\ HasNum(received, m.old)
        /\ LET kept == {r \in received : r.num >= m.throwaway}
               reference == WithNum(received, m.old)
               new == [num |-> m.new, state |-> ApplyString(reference.state, m.diff)]
           IN  /\ received' = kept \cup {new}
               /\ acks' = acks \cup {Newest(received').num}
        /\ UNCHANGED <<current, sent, last_receiver_state, net, aborted, typed, sender_cut,
                       receiver_cut, output, snapshots>>

(***************************************************************************)
(* get_remote_diff: what came since the last call; then the oldest state   *)
(* is cut off all, itself last.                                            *)
(***************************************************************************)
\* mutant: last_receiver_state is the oldest
LastReceiverStateOldest(list, oldest) == Oldest(CutOff(list, oldest)).state
LastReceiverState(list, oldest) == Newest(CutOff(list, oldest)).state

GetRemoteDiffHolds ==
    /\ Subtractable(Newest(received).state, last_receiver_state)
    /\ \A r \in received : Subtractable(r.state, Oldest(received).state)

GetRemoteDiff ==
    LET oldest == Oldest(received).state IN
    /\ ~aborted
    /\ aborted' = ~GetRemoteDiffHolds
    /\ output' = output \o DiffFrom(Newest(received).state, last_receiver_state)
    /\ received' = CutOff(received, oldest)
    /\ last_receiver_state' = LastReceiverState(received, oldest)
    /\ receiver_cut' = receiver_cut + Len(oldest)
    /\ UNCHANGED <<current, sent, net, acks, typed, sender_cut, snapshots>>

Next == Type \/ Wait \/ Send \/ ProcessAcknowledgment \/ Recv \/ GetRemoteDiff

Spec == Init /\ [][Next]_vars

-----------------------------------------------------------------------------
(***************************************************************************)
(* The assertions of subtract and diff_from (a stream starts with the one  *)
(* it is compared with) hold although the two ends cut different prefixes  *)
(* off at different times, and diffs made before a cut arrive after it.    *)
(***************************************************************************)
NoAbort == ~aborted

(***************************************************************************)
(* What the server's pty is given is what was typed: nothing is lost,      *)
(* repeated or reordered, whatever becomes of the packets, and neither end *)
(* fails on the way.                                                       *)
(***************************************************************************)
OutputIsTyped ==
    /\ NoAbort
    /\ output = [i \in 1 .. Len(output) |-> i] /\ Len(output) <= typed

(***************************************************************************)
(* The streams implement StateSync as Transport does, with the length of   *)
(* what was typed for a state.                                             *)
(***************************************************************************)
Sync == INSTANCE StateSync WITH
    State <- 0 .. MaxTyped, InitState <- 0, LastNum <- MaxNum,
    view <- [num |-> Newest(received).num, state |-> receiver_cut + Len(Newest(received).state)]
ImplementsStateSync == Sync!Spec
=============================================================================
