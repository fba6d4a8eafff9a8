------------------------------- MODULE EchoAck -------------------------------
(***************************************************************************)
(* Complete's echo acknowledgment (statesync/completeterminal.cc): the     *)
(* server tells the client the newest frame of keystrokes that the host    *)
(* has had for ECHO_TIMEOUT, and by which predictions may be judged.       *)
(*                                                                         *)
(* Abstractions.                                                           *)
(*  - input_history is a set of [num, time]: frames are registered in the  *)
(*    order of their numbers, so the list is sorted and its last element   *)
(*    with a property is the one of the greatest number.                   *)
(*  - The caller is the server's main loop, which is not in this           *)
(*    repository: it sleeps for wait_time at most, registers a frame if    *)
(*    one came, and calls set_echo_ack, all at the time it froze.          *)
(***************************************************************************)
EXTENDS Naturals

CONSTANTS
    ECHO_TIMEOUT,
    MaxFrame, MaxTime     \* bounds: frame numbers, time

ASSUME EchoAckAssumption == ECHO_TIMEOUT \in Nat /\ MaxFrame \in Nat /\ MaxTime \in Nat

VARIABLES
    input_history, echo_ack,
    now, awake,         \* the server's clock; the loop is awake
    registered          \* history: every [num, time] ever registered

echo_ack_vars == <<input_history, echo_ack, now, awake, registered>>

Entry == [num : 1 .. MaxFrame, time : 0 .. MaxTime]

EchoAckInit ==
    /\ input_history = {} /\ registered = {}
    /\ echo_ack = 0
    /\ now = 0 /\ awake = TRUE

Stamp(n) == [num |-> n, time |-> now]

\* Every frame is newer than those before it; numbers may be skipped.
RegisterInputFrame(n) ==
    /\ awake /\ \A r \in registered : r.num < n
    /\ input_history' = input_history \cup {Stamp(n)}
    /\ registered' = registered \cup {Stamp(n)}
    /\ UNCHANGED <<echo_ack, now, awake>>

\* mutant: due one unit early
DueEarly(i) == i.time <= now + 1 - ECHO_TIMEOUT
Due(i) == i.time + ECHO_TIMEOUT <= now

\* The newest of the frames that are due, 0 if there is none.
IsNewestDue(n) ==
    IF \E i \in input_history : Due(i)
    THEN \E i \in input_history : /\ Due(i) /\ i.num = n
                                  /\ \A j \in input_history : Due(j) => j.num <= n
    ELSE n = 0

\* mutant: the frame acknowledged is erased as well
KeptAfter(n) == {i \in input_history : i.num > n}
Kept(n) == {i \in input_history : i.num >= n}

SetEchoAck ==
    /\ awake
    /\ \E n \in 0 .. MaxFrame :
          /\ IsNewestDue(n)
          /\ echo_ack' = n
          /\ input_history' = Kept(n)
    /\ awake' = FALSE
    /\ UNCHANGED <<now, registered>>

(***************************************************************************)
(* wait_time: until the second entry is due, as the first is the frame     *)
(* last acknowledged.  The very first frame has none before it, and nobody *)
(* waits for it.                                                           *)
(***************************************************************************)
IsSecond(i) ==
    \E first \in input_history :
        /\ first.num < i.num
        /\ \A j \in input_history : j.num \in {first.num, i.num} \/ j.num > i.num

\* mutant: until the last entry is due
MayWaitForLast(until) ==
    \A i \in input_history :
        (\A j \in input_history : j.num <= i.num) /\ (\E j \in input_history : j.num < i.num)
            => until <= i.time + ECHO_TIMEOUT \/ until = now
MayWait(until) ==
    \A i \in input_history : IsSecond(i) => until <= i.time + ECHO_TIMEOUT \/ until = now

\* A packet or the host may end the wait before its time.
Sleep ==
    /\ ~awake
    /\ \E until \in now .. MaxTime : MayWait(until) /\ now' = until
    /\ awake' = TRUE
    /\ UNCHANGED <<input_history, echo_ack, registered>>

EchoAckNext == (\E n \in 1 .. MaxFrame : RegisterInputFrame(n)) \/ SetEchoAck \/ Sleep

EchoAckSpec == EchoAckInit /\ [][EchoAckNext]_echo_ack_vars

-----------------------------------------------------------------------------
\* The types: every time in the history is one that has been.
TypeOK ==
    /\ input_history \subseteq Entry /\ registered \subseteq Entry
    /\ echo_ack \in 0 .. MaxFrame /\ now \in 0 .. MaxTime /\ awake \in BOOLEAN

(***************************************************************************)
(* A frame is acknowledged only when the host has had its keystrokes for   *)
(* ECHO_TIMEOUT: the prediction engine takes what the screen does not show *)
(* by then for what the host will not show.                                *)
(***************************************************************************)
AckedAreOld ==
    echo_ack # 0 => \E r \in registered : r.num = echo_ack /\ r.time + ECHO_TIMEOUT <= now

(***************************************************************************)
(* The echo ack never goes back, though set_echo_ack computes it anew each *)
(* time, 0 if it finds nothing.  diff_from and apply_string assert it, of  *)
(* snapshots taken at different times.                                     *)
(***************************************************************************)
NeverDecreases == [][echo_ack' >= echo_ack]_echo_ack

(***************************************************************************)
(* Every frame but the first of the session is acknowledged as soon as it  *)
(* is due: the loop does not sleep past that time, although it waits for   *)
(* one entry of the history only.                                          *)
(***************************************************************************)
AckedInTime ==
    \A r, s \in registered :
        s.num < r.num /\ r.num > echo_ack => now <= r.time + ECHO_TIMEOUT

=============================================================================
