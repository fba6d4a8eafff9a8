--------------------------- MODULE SenderTimers ---------------------------
(***************************************************************************)
(* When a TransportSender sends: network/transportsender-impl.h under the  *)
(* main loop of stmclient.cpp, which sleeps in select until wait_time says *)
(* or until something happens, handles what happened, and ticks.           *)
(*                                                                         *)
(* Abstractions.                                                           *)
(*  - The clock is frozen while an iteration of the loop runs (timestamp() *)
(*    returns the time freeze_timestamp cached after select).              *)
(*  - sent_states keeps the timestamps and states; a number is a position, *)
(*    except the shutdown number, which marks an entry final.              *)
(*  - The estimates SRTT and RTTVAR are the pair of what send_interval()   *)
(*    and timeout() make of them, and change when a packet is heard.       *)
(*  - The endpoint knows its peer's address (a client always does).        *)
(***************************************************************************)
EXTENDS Naturals, SequencesExt

CONSTANTS
    State, InitState,
    SEND_MINDELAY, ACK_INTERVAL, ACK_DELAY, ACTIVE_RETRY_TIMEOUT, SHUTDOWN_RETRIES,
    ErrorSleep,            \* the main loop's 0.2 sec after a NetworkException
    Rtt,                   \* the pairs [interval, timeout] the estimates go through
    SentLimit, CullBack,   \* 32 and 16 in add_sent_state
    MaxTime,               \* bound: the clock
    MaxChanges, MaxHeard,  \* bounds: changes of current_state, packets heard
    MaxErrors              \* bound: exceptions

ASSUME TimingAssumption ==
    /\ \A c \in {SEND_MINDELAY, ACK_INTERVAL, ACK_DELAY, ACTIVE_RETRY_TIMEOUT,
                 SHUTDOWN_RETRIES, ErrorSleep, SentLimit, CullBack} : c \in Nat \ {0}
    /\ \A r \in Rtt : r.interval \in Nat \ {0} /\ r.timeout \in Nat \ {0}
    /\ \A r \in Rtt : r.interval < ACK_INTERVAL
    /\ 3 <= CullBack /\ CullBack <= SentLimit
    /\ InitState \in State
    /\ MaxTime \in Nat /\ MaxChanges \in Nat /\ MaxHeard \in Nat /\ MaxErrors \in Nat

VARIABLES
    now,
    current,             \* current_state
    sent,                \* sent_states
    next_ack_time, next_send_time, mindelay_clock,
    pending_data_ack,
    last_heard,
    shutdown_start,      \* Never unless shutdown_in_progress
    shutdown_tries,
    peer_final,          \* ack_num is uint64_t( -1 )
    peer_final_acked,    \* so is the last one sent, fragmenter.last_ack_sent()
    rtt,                 \* what send_interval() and timeout() give now
    phase,               \* where the main loop is
    changes, heard, errors,   \* counters of the bounds
    slept,               \* history: the time slept after exceptions since the last tick
    last_send,           \* history: when the last instruction was sent
    data_heard,          \* history: since when data waits for an ack
    unsent               \* history: since when neither front nor back is current_state

sender == <<current, sent, next_ack_time, next_send_time, mindelay_clock,
            pending_data_ack, last_heard, shutdown_start, shutdown_tries, peer_final,
            peer_final_acked>>
history == <<last_send, data_heard, unsent>>
counters == <<changes, heard, errors>>
vars == <<now, sender, rtt, phase, counters, slept, history>>

Never == MaxTime + ACK_INTERVAL + ACTIVE_RETRY_TIMEOUT + 1   \* uint64_t( -1 )
Time == 0 .. Never
Larger(a, b) == IF a > b THEN a ELSE b
Smaller(a, b) == IF a < b THEN a ELSE b

Known == Head(sent)
LastSent == Last(sent)
ShuttingDown == shutdown_start # Never

\* The states neither the other end is known to have nor the last one sent.
UnsentSince(state, queue) ==
    IF state \in {Head(queue).state, Last(queue).state} THEN Never
    ELSE Smaller(unsent, now)

Init ==
    /\ now = 0 /\ current = InitState
    /\ sent = <<[timestamp |-> 0, state |-> InitState, final |-> FALSE]>>
    /\ next_ack_time = 0 /\ next_send_time = 0 /\ mindelay_clock = Never
    /\ pending_data_ack = FALSE /\ last_heard = 0
    /\ shutdown_start = Never /\ shutdown_tries = 0
    /\ peer_final = FALSE /\ peer_final_acked = FALSE
    /\ rtt \in Rtt /\ phase = "loop"
    /\ changes = 0 /\ heard = 0 /\ errors = 0 /\ slept = 0
    /\ last_send = Never /\ data_heard = Never /\ unsent = Never

\* update_assumed_receiver_state: the last of the recent states after the front.

\* mutants: the comparison is not strict; it is turned round
RecentInclusive(i) == now - sent[i].timestamp <= rtt.timeout + ACK_DELAY
RecentReversed(i) == now - sent[i].timestamp > rtt.timeout + ACK_DELAY
Recent(i) == now - sent[i].timestamp < rtt.timeout + ACK_DELAY
Assumed ==
    CHOOSE i \in DOMAIN sent :
        /\ \A j \in 2 .. i : Recent(j)
        /\ i < Len(sent) => ~Recent(i + 1)

(***************************************************************************)
(* calculate_timers                                                        *)
(***************************************************************************)

\* mutant: every calculate_timers starts it again
MindelayClockRestarted ==
    IF current # LastSent.state THEN now ELSE mindelay_clock
MindelayClock ==
    IF current # LastSent.state /\ mindelay_clock = Never THEN now ELSE mindelay_clock

ActivelyRetrying == last_heard + ACTIVE_RETRY_TIMEOUT > now

NextSendTime ==
    LET interval_passed == LastSent.timestamp + rtt.interval
        collected == IF MindelayClock = Never THEN 0 ELSE MindelayClock + SEND_MINDELAY
    IN  IF current # LastSent.state THEN Larger(collected, interval_passed)
        ELSE IF current # sent[Assumed].state /\ ActivelyRetrying
             THEN Larger(collected, interval_passed)
        ELSE IF current # Known.state /\ ActivelyRetrying
             THEN LastSent.timestamp + rtt.timeout + ACK_DELAY
        ELSE Never

\* mutant: the delay starts again at every wakeup
NextAckTimeDelayed ==
    IF ShuttingDown \/ peer_final THEN LastSent.timestamp + rtt.interval
    ELSE IF pending_data_ack THEN now + ACK_DELAY
    ELSE next_ack_time

NextAckTime ==
    IF ShuttingDown \/ peer_final THEN LastSent.timestamp + rtt.interval
    ELSE IF pending_data_ack THEN Smaller(next_ack_time, now + ACK_DELAY)
    ELSE next_ack_time

NextWakeup == Larger(now, Smaller(NextAckTime, NextSendTime))

(***************************************************************************)
(* One iteration of the main loop: select( wait_time() ), which an event   *)
(* or the overlays may cut short,                                          *)
(***************************************************************************)
Select ==
    /\ phase = "loop"
    /\ next_ack_time' = NextAckTime
    /\ next_send_time' = NextSendTime
    /\ mindelay_clock' = MindelayClock
    /\ now' \in now .. Smaller(NextWakeup, MaxTime)
    /\ phase' = "network"
    /\ UNCHANGED <<current, sent, pending_data_ack, last_heard, shutdown_start,
                   shutdown_tries, peer_final, peer_final_acked, rtt, counters, slept,
                   history>>

\* a packet (at most one is read): process_acknowledgment_through a state still
\* listed, a new round-trip estimate, and set_ack_num, remote_heard and
\* set_data_ack if it brings a new state (whose diff an empty ack leaves empty),
Hear ==
    /\ phase = "network" /\ phase' = "input"
    /\ heard < MaxHeard /\ heard' = heard + 1
    /\ \E i \in {j \in DOMAIN sent : j > 1 /\ sent[j].final => ~sent[j - 1].final} :
          sent' = SubSeq(sent, i, Len(sent))
    /\ unsent' = UnsentSince(current, sent')
    /\ rtt' \in Rtt
    /\ \/ UNCHANGED <<last_heard, pending_data_ack, peer_final, data_heard>>
       \/ /\ ~peer_final
          /\ last_heard' = now
          /\ pending_data_ack' \in {pending_data_ack, TRUE}
          /\ peer_final' \in BOOLEAN
          /\ data_heard' = IF pending_data_ack' THEN Smaller(data_heard, now) ELSE Never
    /\ UNCHANGED <<now, current, next_ack_time, next_send_time, mindelay_clock,
                   shutdown_start, shutdown_tries, peer_final_acked, changes, errors, slept,
                   last_send>>

\* or an exception of recv, which ends the iteration without a tick, after a
\* pause if it is a NetworkException, at once if it is a CryptoException,
RecvError ==
    /\ phase = "network" /\ phase' = "loop"
    /\ errors < MaxErrors /\ errors' = errors + 1
    /\ \E pause \in {0, ErrorSleep} :
          /\ now + pause <= MaxTime
          /\ now' = now + pause /\ slept' = slept + pause
    /\ UNCHANGED <<sender, rtt, changes, heard, history>>

\* the keystrokes and resizes pushed into the current state, or the frames set,
Change ==
    /\ phase \in {"network", "input"} /\ phase' = "input"
    /\ ~ShuttingDown
    /\ changes < MaxChanges /\ changes' = changes + 1
    /\ current' \in State \ {current}
    /\ unsent' = UnsentSince(current', sent)
    /\ UNCHANGED <<now, sent, next_ack_time, next_send_time, mindelay_clock, pending_data_ack,
                   last_heard, shutdown_start, shutdown_tries, peer_final, peer_final_acked,
                   rtt, heard, errors, slept, last_send, data_heard>>

\* or a request to quit,
StartShutdown ==
    /\ phase \in {"network", "input"} /\ phase' = "input"
    /\ ~ShuttingDown
    /\ changes < MaxChanges /\ changes' = changes + 1
    /\ shutdown_start' = now
    /\ UNCHANGED <<now, current, sent, next_ack_time, next_send_time, mindelay_clock,
                   pending_data_ack, last_heard, shutdown_tries, peer_final,
                   peer_final_acked, rtt, heard, errors, slept, history>>

\* get_shutdown_acknowledged, shutdown_ack_timed_out and
\* counterparty_shutdown_ack_sent end the loop,
ShutdownAcknowledged == ShuttingDown /\ Known.final

\* mutant: only the packets are counted
ShutdownAckTimedOutByTries ==
    ShuttingDown /\ shutdown_tries >= SHUTDOWN_RETRIES
ShutdownAckTimedOut ==
    /\ ShuttingDown
    /\ \/ shutdown_tries >= SHUTDOWN_RETRIES
       \/ now - shutdown_start >= ACTIVE_RETRY_TIMEOUT

Quit ==
    /\ phase \in {"network", "input"}
    /\ ShutdownAcknowledged \/ ShutdownAckTimedOut \/ peer_final_acked
    /\ phase' = "done"
    /\ UNCHANGED <<now, sender, rtt, counters, slept, history>>

(***************************************************************************)
(* and otherwise tick().                                                   *)
(***************************************************************************)

\* attempt_prospective_resend_optimization: the shorter diff, within limits.
DiffBases == IF current = Known.state THEN {1} ELSE {1, Assumed}

\* add_sent_state
AddSentState(queue, entry) ==
    LET grown == Append(queue, entry) IN
    IF Len(grown) > SentLimit THEN RemoveAt(grown, Len(grown) - CullBack + 1) ELSE grown

\* send_in_fragments and what its two callers do after it
Sent(queue) ==
    /\ sent' = queue
    /\ shutdown_tries' = shutdown_tries + (IF ShuttingDown THEN 1 ELSE 0)
    /\ peer_final_acked' = peer_final
    /\ pending_data_ack' = FALSE
    /\ next_ack_time' = now + ACK_INTERVAL
    /\ next_send_time' = Never
    /\ mindelay_clock' = Never
    /\ last_send' = now /\ data_heard' = Never
    /\ unsent' = UnsentSince(current, queue)

\* mutant: the timers are set before the fragments are sent
ThrownAsSent(queue) ==
    /\ sent' = queue
    /\ shutdown_tries' = shutdown_tries + (IF ShuttingDown THEN 1 ELSE 0)
    /\ peer_final_acked' = peer_final
    /\ pending_data_ack' = FALSE
    /\ next_ack_time' = now + ACK_INTERVAL
    /\ next_send_time' = Never
    /\ mindelay_clock' = Never
    /\ unsent' = UnsentSince(current, queue)
    /\ \/ last_send' = now /\ data_heard' = Never
       \/ UNCHANGED <<last_send, data_heard>>

\* hop_port, called by Connection::send, throws: the queue has changed, the
\* timers have not, and what was to be sent may have been sent whole or not.
Thrown(queue) ==
    /\ sent' = queue
    /\ shutdown_tries' = shutdown_tries + (IF ShuttingDown THEN 1 ELSE 0)
    /\ peer_final_acked' = peer_final
    /\ next_ack_time' = NextAckTime
    /\ next_send_time' = NextSendTime
    /\ mindelay_clock' = MindelayClock
    /\ unsent' = UnsentSince(current, queue)
    /\ \/ last_send' = now /\ data_heard' = Never
       \/ UNCHANGED <<last_send, data_heard>>
    /\ UNCHANGED pending_data_ack

Entry == [timestamp |-> now, state |-> current, final |-> ShuttingDown]

\* send_empty_ack and send_to_receiver: when, and the queue they leave
EmptyAckDue(base) == current = sent[base].state /\ now >= NextAckTime
EmptyAckQueue == AddSentState(sent, Entry)

DiffDue(base) ==
    current # sent[base].state /\ (now >= NextAckTime \/ now >= NextSendTime)
DiffQueue ==
    IF LastSent.final = ShuttingDown /\ LastSent.state = current
    THEN [sent EXCEPT ![Len(sent)].timestamp = now]
    ELSE AddSentState(sent, Entry)

\* There is nothing to send at next_send_time, and an ack is not due.
SendNothing(base) ==
    /\ current = sent[base].state
    /\ now < NextAckTime /\ now >= NextSendTime
    /\ next_ack_time' = NextAckTime
    /\ next_send_time' = Never
    /\ mindelay_clock' = Never
    /\ UNCHANGED <<sent, shutdown_tries, peer_final_acked, pending_data_ack, history>>

NotYet ==
    /\ now < NextAckTime /\ now < NextSendTime
    /\ next_ack_time' = NextAckTime
    /\ next_send_time' = NextSendTime
    /\ mindelay_clock' = MindelayClock
    /\ UNCHANGED <<sent, shutdown_tries, peer_final_acked, pending_data_ack, history>>

TickPhase ==
    /\ phase \in {"network", "input"} /\ phase' = "loop"
    /\ ~ShutdownAcknowledged /\ ~ShutdownAckTimedOut /\ ~peer_final_acked
    /\ UNCHANGED <<current, last_heard, shutdown_start, peer_final, rtt, changes, heard>>

Tick ==
    /\ TickPhase
    /\ \/ NotYet
       \/ \E base \in DiffBases :
             \/ EmptyAckDue(base) /\ Sent(EmptyAckQueue)
             \/ DiffDue(base) /\ Sent(DiffQueue)
             \/ SendNothing(base)
    /\ slept' = 0
    /\ UNCHANGED <<now, errors>>

TickError ==
    /\ TickPhase
    /\ \E base \in DiffBases :
          \/ EmptyAckDue(base) /\ Thrown(EmptyAckQueue)
          \/ DiffDue(base) /\ Thrown(DiffQueue)
    /\ errors < MaxErrors /\ errors' = errors + 1
    /\ now + ErrorSleep <= MaxTime
    /\ now' = now + ErrorSleep /\ slept' = slept + ErrorSleep

Next == Select \/ Hear \/ RecvError \/ Change \/ StartShutdown \/ Quit \/ Tick \/ TickError

Spec == Init /\ [][Next]_vars

SlowestInterval == CHOOSE i \in {r.interval : r \in Rtt} : \A r \in Rtt : r.interval <= i
-----------------------------------------------------------------------------
(***************************************************************************)
(* update_assumed_receiver_state only ever assumes the front or the back:  *)
(* culling, acks and resent states never leave an older entry more recent  *)
(* than a newer one.  Transport takes its diff bases from this.            *)
(***************************************************************************)
AssumedIsFrontOrBack == Assumed \in {1, Len(sent)}

\* During a shutdown an ack waits for a frame interval after the last attempt.
Deadline(t) ==
    IF ShuttingDown \/ peer_final THEN Larger(t, LastSent.timestamp + SlowestInterval) ELSE t

(***************************************************************************)
(* The other end hears from this one at least every ACK_INTERVAL, whatever *)
(* resets next_ack_time and whatever wait_time was computed from, and the  *)
(* first time at once.  Only during a shutdown can it be later: within a   *)
(* frame of an attempt that an exception cut short, whose pause is shorter *)
(* than the slowest frame.                                                 *)
(***************************************************************************)
NeverSilent ==
    phase # "done" =>
        now <= slept + Deadline(IF last_send = Never THEN 0 ELSE last_send + ACK_INTERVAL)

(***************************************************************************)
(* Data is acknowledged within ACK_DELAY, by an ack of its own if by       *)
(* nothing else, and during a shutdown within a frame of the last one sent *)
(* if that is later.                                                       *)
(***************************************************************************)
DataIsAckedSoon ==
    phase # "done" /\ data_heard # Never => now <= slept + Deadline(data_heard + ACK_DELAY)

(***************************************************************************)
(* A state the other end cannot have yet, nor been sent, goes out once the *)
(* input was collected and the frame interval passed, whatever came and    *)
(* was acknowledged in the meantime.                                       *)
(***************************************************************************)
ChangeIsSentSoon ==
    phase # "done" /\ unsent # Never =>
        now <= slept + Larger(unsent + SEND_MINDELAY,
                              LastSent.timestamp + SlowestInterval)

(***************************************************************************)
(* Right after a tick there is time to sleep: the loop never spins on a    *)
(* timer that tick does not move.                                          *)
(***************************************************************************)
NoSpin == phase = "loop" /\ errors = 0 /\ last_send # Never => NextWakeup > now

(***************************************************************************)
(* Quitting ends: a shutdown that is never acknowledged is given up within *)
(* ACTIVE_RETRY_TIMEOUT and at most one more frame.                        *)
(***************************************************************************)
ShutdownEnds ==
    ShuttingDown /\ phase # "done" =>
        now < shutdown_start + ACTIVE_RETRY_TIMEOUT + SlowestInterval + slept
=============================================================================
