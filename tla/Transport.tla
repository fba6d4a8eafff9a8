----------------------------- MODULE Transport -----------------------------
(***************************************************************************)
(* The State Synchronization Protocol: network/networktransport-impl.h and *)
(* network/transportsender-impl.h.  Two endpoints run the same Transport   *)
(* template; each one sends numbered snapshots of its own state (the       *)
(* client its UserStream, the server its Complete terminal) and rebuilds   *)
(* the other's from diffs that arrive over a datagram network.             *)
(*                                                                         *)
(* Abstractions.                                                           *)
(*  - A state is an opaque member of State.  A diff is the pair of states  *)
(*    it was computed from; applied to any other state it gives Corrupt.   *)
(*  - A list of TimestampedState sorted by num is the set of its           *)
(*    [num, state] records: front is the least num, back the greatest.     *)
(*    The shutdown state alone may be listed more than once: extra counts  *)
(*    its copies beyond the first.                                         *)
(*  - Time is left to SenderTimers: here a tick may find any timer expired *)
(*    and any unacknowledged state recent.                                 *)
(*  - Fragments, compression and encryption are left to Fragments and      *)
(*    Connection: net[e] holds every instruction e ever sent, and any of   *)
(*    them may arrive at any time, any number of times, or never.          *)
(***************************************************************************)
EXTENDS Naturals, FiniteSets

CONSTANTS
    Client, Server,   \* the two ends
    State,            \* what a MyState can be
    InitState,        \* the state both ends are constructed with
    Corrupt,          \* a state no sender had: a diff misapplied, freed memory read
    ShutdownNum,      \* uint64_t( -1 )
    SentLimit,        \* 32: sent_states may hold this many
    CullBack,         \* 16: the state erased beyond SentLimit, counted from the end
    RecvLimit,        \* 1024: received_states beyond it are rate limited
    MaxNum,           \* bound: the last ordinary number each end assigns
    MaxAckNum,        \* bound: the last number each end spends on an empty ack
    MaxExtra          \* bound: extra copies of the shutdown state (the code stops at 16 tries)

Endpoint == {Client, Server}
Peer(e) == IF e = Client THEN Server ELSE Client

ASSUME EndsDiffer == Client # Server
ASSUME StateAssumption == InitState \in State /\ Corrupt \notin State
ASSUME LimitAssumption ==
    /\ SentLimit \in Nat /\ CullBack \in Nat /\ RecvLimit \in Nat
    /\ 3 <= CullBack /\ CullBack <= SentLimit
ASSUME BoundAssumption ==
    /\ ShutdownNum \in Nat /\ MaxExtra \in Nat
    /\ MaxNum \in [Endpoint -> Nat] /\ MaxAckNum \in [Endpoint -> Nat]
    /\ \A e \in Endpoint : MaxNum[e] < ShutdownNum /\ MaxAckNum[e] < ShutdownNum

VARIABLES
    current,      \* current_state
    sent,         \* sent_states
    extra,        \* how many of its entries repeat the shutdown state
    ack_num,      \* ack_num: what the next instruction acknowledges
    shutdown,     \* shutdown_in_progress
    last_ack,     \* fragmenter.last_ack_sent()
    received,     \* received_states
    net,          \* the instructions each end has put on the network
    published     \* history: every record each end ever put in sent_states

vars == <<current, sent, extra, ack_num, shutdown, last_ack, received, net, published>>

Num == 0 .. ShutdownNum
TimestampedState == [num : Num, state : State \cup {Corrupt}]
Instruction ==
    [old : Num, new : Num, ack : Num, throwaway : Num,
     from : State \cup {Corrupt}, to : State \cup {Corrupt}]

Nums(S) == {s.num : s \in S}
IsFront(s, S) == s \in S /\ \A t \in S : s.num <= t.num
IsBack(s, S)  == s \in S /\ \A t \in S : t.num <= s.num

Blank == [num |-> 0, state |-> InitState]

Init ==
    /\ current = [e \in Endpoint |-> InitState]
    /\ sent = [e \in Endpoint |-> {Blank}]
    /\ extra = [e \in Endpoint |-> 0]
    /\ ack_num = [e \in Endpoint |-> 0]
    /\ shutdown = [e \in Endpoint |-> FALSE]
    /\ last_ack = [e \in Endpoint |-> 0]
    /\ received = [e \in Endpoint |-> {Blank}]
    /\ net = [e \in Endpoint |-> {}]
    /\ published = [e \in Endpoint |-> {Blank}]

(***************************************************************************)
(* The application: get_current_state().push_back, set_current_state       *)
(* (both assert that no shutdown is in progress) and start_shutdown.       *)
(***************************************************************************)
\* mutant: the assertion is gone
SetCurrentStateLate(e) ==
    /\ \A b \in sent[e] : b.num < MaxNum[e] \/ b.num = ShutdownNum
    /\ \E s \in State \ {current[e]} : current' = [current EXCEPT ![e] = s]
    /\ UNCHANGED <<sent, extra, ack_num, shutdown, last_ack, received, net, published>>

SetCurrentState(e) ==
    /\ ~shutdown[e]
    /\ \A b \in sent[e] : b.num < MaxNum[e]    \* bound: a number is left for it
    /\ \E s \in State \ {current[e]} : current' = [current EXCEPT ![e] = s]
    /\ UNCHANGED <<sent, extra, ack_num, shutdown, last_ack, received, net, published>>

StartShutdown(e) ==
    /\ ~shutdown[e]
    /\ shutdown' = [shutdown EXCEPT ![e] = TRUE]
    /\ UNCHANGED <<current, sent, extra, ack_num, last_ack, received, net, published>>

(***************************************************************************)
(* tick().                                                                 *)
(*                                                                         *)
(* update_assumed_receiver_state walks forward from the front as long as   *)
(* states are recent; timestamps never decrease along the list, so it      *)
(* stops at the front or at the back (SenderTimers checks that).           *)
(* attempt_prospective_resend_optimization then falls back to the front if *)
(* the diff from there is about as short, and must when that diff is empty.*)
(***************************************************************************)
DiffBases(e, front, back) ==
    IF current[e] = front.state THEN {front} ELSE {front, back}

\* add_sent_state: past the limit the CullBack-th state from the end goes.
\* With c extra copies of s, that state may be one of the copies.
TooMany(S, c) == Cardinality(S) + c > SentLimit
Cull(S, c) ==
    IF TooMany(S, c)
    THEN {t \in S : LET later == {u \in S : u.num > t.num}
                    IN  later = {} \/ Cardinality(later) + c # CullBack - 1}
    ELSE S

CullExtra(S, c) == IF TooMany(S, c) /\ CullBack - 1 <= c THEN c - 1 ELSE c

AddSentState(e, s) ==
    LET grown == sent[e] \cup {s}
        c == IF s \in sent[e] THEN extra[e] + 1 ELSE extra[e]
    IN  /\ c <= MaxExtra
        /\ sent' = [sent EXCEPT ![e] = Cull(grown, c)]
        /\ extra' = [extra EXCEPT ![e] = CullExtra(grown, c)]
        /\ published' = [published EXCEPT ![e] = @ \cup {s}]

\* send_in_fragments, after the queue was updated.  The old_num is read through
\* assumed_receiver_state: if base was culled, it is whatever memory holds.
SendInFragments(e, base, new_num) ==
    \E old \in IF base \in sent'[e] THEN {base.num} ELSE Num :
    \E front \in sent'[e] :
        /\ IsFront(front, sent'[e])
        /\ net' = [net EXCEPT ![e] = @ \cup
               {[old |-> old, new |-> new_num, ack |-> ack_num[e],
                 throwaway |-> front.num, from |-> base.state, to |-> current[e]]}]
        /\ last_ack' = [last_ack EXCEPT ![e] = ack_num[e]]
        /\ UNCHANGED <<current, ack_num, shutdown, received>>

\* send_empty_ack: the diff is empty, and the ack takes a number of its own.
\* (It may be the first to carry the current state: front and current agree,
\* and what was sent since does not.)
SendEmptyAck(e, base, back) ==
    LET new_num == IF shutdown[e] THEN ShutdownNum ELSE back.num + 1
    IN  /\ base.state = current[e]
        /\ \/ shutdown[e]
           \/ new_num <= IF current[e] = back.state THEN MaxAckNum[e] ELSE MaxNum[e]
        /\ AddSentState(e, [num |-> new_num, state |-> current[e]])
        /\ SendInFragments(e, base, new_num)

\* A state sent before keeps its number.
SendNum(e, back) ==
    IF shutdown[e] THEN ShutdownNum
    ELSE IF current[e] = back.state THEN back.num
    ELSE back.num + 1

\* send_to_receiver
SendToReceiver(e, base, back) ==
    LET new_num == SendNum(e, back)
    IN  /\ base.state # current[e]
        /\ shutdown[e] \/ new_num <= MaxNum[e]
        /\ IF new_num = back.num
           THEN UNCHANGED <<sent, extra, published>>
           ELSE AddSentState(e, [num |-> new_num, state |-> current[e]])
        /\ SendInFragments(e, base, new_num)

Tick(e) ==
    \E front \in sent[e], back \in sent[e] :
        /\ IsFront(front, sent[e]) /\ IsBack(back, sent[e])
        /\ \E base \in DiffBases(e, front, back) :
              \/ SendEmptyAck(e, base, back)
              \/ SendToReceiver(e, base, back)

(***************************************************************************)
(* recv().                                                                 *)
(***************************************************************************)

\* mutants: a culled state's ack counts; the acknowledged state goes too
AckThroughAnything(S, ack) == {s \in S : s.num >= ack}
AckThroughInclusive(S, ack) == IF ack \in Nums(S) THEN {s \in S : s.num > ack} ELSE S

\* process_acknowledgment_through: an ack of a culled state is ignored.
AckThrough(S, ack) ==
    IF ack \in Nums(S) THEN {s \in S : s.num >= ack} ELSE S

\* mutant: the state named goes too
ThrowawayThrough(S, throwaway) == {s \in S : s.num > throwaway}

\* process_throwaway_until
ThrowawayUntil(S, throwaway) == {s \in S : s.num >= throwaway}

\* apply_string, when the diff is not empty.
Apply(state, m) ==
    IF m.from = m.to THEN state
    ELSE IF state = m.from THEN m.to
    ELSE Corrupt

\* mutant: the diff is applied to the newest state held
RebuiltFromNewest(kept, m) == {Apply(r.state, m) : r \in {k \in kept : IsBack(k, kept)}}

\* The new state is copied from reference_state after the throwaway: if the
\* reference was erased, the copy is whatever memory holds.
Rebuilt(kept, m) ==
    IF m.old \in Nums(kept)
    THEN {Apply(r.state, m) : r \in {k \in kept : k.num = m.old}}
    ELSE State \cup {Corrupt}

AlreadyHave(e, m) == m.new \in Nums(received[e])

\* mutant: found is not tested
LacksReferenceNever(e, m) == FALSE
LacksReference(e, m) == m.old \notin Nums(received[e])

\* The state is new or its reference unknown: only the ack was of use.
Ignore(e, m) ==
    /\ AlreadyHave(e, m) \/ LacksReference(e, m)
    /\ UNCHANGED <<received, ack_num>>

\* mutant: the state denied is acknowledged
QuenchAcking(e, m) ==
    LET kept == ThrowawayUntil(received[e], m.throwaway)
    IN  /\ ~AlreadyHave(e, m) /\ ~LacksReference(e, m)
        /\ Cardinality(kept) > RecvLimit
        /\ received' = [received EXCEPT ![e] = kept]
        /\ ack_num' = [ack_num EXCEPT ![e] = m.new]

\* The queue is full and receiver_quench_timer has not expired.
Quench(e, m) ==
    LET kept == ThrowawayUntil(received[e], m.throwaway)
    IN  /\ ~AlreadyHave(e, m) /\ ~LacksReference(e, m)
        /\ Cardinality(kept) > RecvLimit
        /\ received' = [received EXCEPT ![e] = kept]
        /\ UNCHANGED ack_num

\* A state inserted before a later one is kept but not acknowledged.
AckNum(e, kept, m) == IF \E r \in kept : r.num > m.new THEN ack_num[e] ELSE m.new

Accept(e, m) ==
    LET kept == ThrowawayUntil(received[e], m.throwaway)
    IN  /\ ~AlreadyHave(e, m) /\ ~LacksReference(e, m)
        /\ \E s \in Rebuilt(kept, m) :
              received' = [received EXCEPT ![e] = kept \cup {[num |-> m.new, state |-> s]}]
        /\ ack_num' = [ack_num EXCEPT ![e] = AckNum(e, kept, m)]

Receive(e, m) ==
    /\ sent' = [sent EXCEPT ![e] = AckThrough(@, m.ack)]
    /\ Ignore(e, m) \/ Quench(e, m) \/ Accept(e, m)
    /\ UNCHANGED <<current, extra, shutdown, last_ack, net, published>>

Recv(e) == \E m \in net[Peer(e)] : Receive(e, m)

Next ==
    \E e \in Endpoint :
        SetCurrentState(e) \/ StartShutdown(e) \/ Tick(e) \/ Recv(e)

Spec == Init /\ [][Next]_vars

-----------------------------------------------------------------------------
\* get_shutdown_acknowledged, get_counterparty_shutdown_acknowledged
ShutdownAcknowledged(e) == \E f \in sent[e] : IsFront(f, sent[e]) /\ f.num = ShutdownNum
CounterpartyShutdownAckSent(e) == last_ack[e] = ShutdownNum

\* get_latest_remote_state
LatestRemoteState(e) == CHOOSE r \in received[e] : IsBack(r, received[e])
-----------------------------------------------------------------------------
TypeOK ==
    /\ current \in [Endpoint -> State]
    /\ sent \in [Endpoint -> SUBSET TimestampedState]
    /\ extra \in [Endpoint -> 0 .. MaxExtra]
    /\ ack_num \in [Endpoint -> Num]
    /\ shutdown \in [Endpoint -> BOOLEAN]
    /\ last_ack \in [Endpoint -> Num]
    /\ received \in [Endpoint -> SUBSET TimestampedState]
    /\ net \in [Endpoint -> SUBSET Instruction]
    /\ published \in [Endpoint -> SUBSET TimestampedState]

(***************************************************************************)
(* "first element: known, acknowledged receiver state"                     *)
(* (transportsender.h:79).  The state the sender takes for known is one    *)
(* the other end still holds, however acks and throwaways are lost,        *)
(* repeated and reordered: the sender always has a base it can diff from.  *)
(***************************************************************************)
KnownStateIsHeld ==
    \A e \in Endpoint : \A f \in sent[e] :
        IsFront(f, sent[e]) => f \in received[Peer(e)]

(***************************************************************************)
(* Whatever an instruction is rebuilt from, the result is the state the    *)
(* sender had under that number: no diff is applied to the wrong base, no  *)
(* number ever names two states.                                           *)
(***************************************************************************)
ReceivedIsPublished ==
    \A e \in Endpoint : \A r \in received[e] :
        /\ r \in published[Peer(e)]
        /\ \A s \in published[Peer(e)] : s.num = r.num => s = r

(***************************************************************************)
(* recv() keeps an iterator to reference_state across the call of          *)
(* process_throwaway_until.  No instruction that can arrive throws its own *)
(* reference away, so the iterator stays valid and the list is never empty *)
(* (the fatal_assert there).                                               *)
(***************************************************************************)
ReferenceSurvivesThrowaway ==
    \A e \in Endpoint : \A m \in net[Peer(e)] :
        ~LacksReference(e, m) => m.old \in Nums(ThrowawayUntil(received[e], m.throwaway))

(***************************************************************************)
(* "we don't want to ACK a state and then discard it later"                *)
(* (networktransport-impl.h:115): the number an endpoint acknowledges is   *)
(* that of the newest state it holds, which it shows to its user.          *)
(***************************************************************************)
AckedIsLatest ==
    \A e \in Endpoint : \E r \in received[e] :
        IsBack(r, received[e]) /\ r.num = ack_num[e]

(***************************************************************************)
(* Fragmenter::make_fragments asserts that two instructions between the    *)
(* same numbers carry the same diff (transportfragment.cc:172), although   *)
(* queues, acks and the current state change in between.                   *)
(***************************************************************************)
SameNumsSameDiff ==
    \A e \in Endpoint : \A m, n \in net[e] :
        m.old = n.old /\ m.new = n.new => m.from = n.from /\ m.to = n.to

(***************************************************************************)
(* A session that ends cleanly has lost nothing: once an endpoint sees its *)
(* shutdown acknowledged the other end holds its final state, and once it  *)
(* has acknowledged the other's shutdown it holds the other's final state. *)
(***************************************************************************)
CleanShutdownIsComplete ==
    \A e \in Endpoint :
        LET final == [num |-> ShutdownNum, state |-> current[e]] IN
        /\ ShutdownAcknowledged(e) => shutdown[e] /\ final \in received[Peer(e)]
        /\ CounterpartyShutdownAckSent(Peer(e)) => shutdown[e] /\ final \in received[Peer(e)]

(***************************************************************************)
(* No step takes the user's view, or the number acknowledged, backwards.   *)
(***************************************************************************)
ViewMovesForward ==
    \A e \in Endpoint : \A r \in received'[e] :
        IsBack(r, received'[e]) => \A s \in received[e] : s.num <= r.num

ViewNeverRegresses == [][ViewMovesForward /\ \A e \in Endpoint : ack_num[e] <= ack_num'[e]]_vars

(***************************************************************************)
(* Each direction implements StateSync: the sender's history is the set of *)
(* snapshots, the other end's latest remote state is the view.             *)
(***************************************************************************)
ClientSync == INSTANCE StateSync WITH
    LastNum <- ShutdownNum, snapshots <- published[Client], view <- LatestRemoteState(Server)
ServerSync == INSTANCE StateSync WITH
    LastNum <- ShutdownNum, snapshots <- published[Server], view <- LatestRemoteState(Client)

ClientToServer == ClientSync!Spec
ServerToClient == ServerSync!Spec

(***************************************************************************)
(* Fairness.  The main loop ticks forever, and a state that is still not   *)
(* acknowledged when it is no longer recent is sent from the front, as an  *)
(* empty ack if it equals the front (SenderTimers).  An instruction that   *)
(* keeps being sent gets through, and a receiver whose queue is full still *)
(* takes a state every 15 s.                                               *)
(***************************************************************************)
SendFromFront(e) ==
    \E front \in sent[e], back \in sent[e] :
        /\ IsFront(front, sent[e]) /\ IsBack(back, sent[e])
        /\ \/ SendToReceiver(e, front, back)
           \/ current[e] # back.state /\ SendEmptyAck(e, front, back)

AcceptLatest(e) ==
    \E m \in net[Peer(e)] :
        /\ m.to = current[Peer(e)] /\ \A s \in published[Peer(e)] : s.num <= m.new
        /\ Accept(e, m) /\ Receive(e, m)

FairSpec ==
    Spec /\ \A e \in Endpoint : SF_vars(SendFromFront(e)) /\ SF_vars(AcceptLatest(e))

InSync(e) == \E r \in received[Peer(e)] :
    IsBack(r, received[Peer(e)]) /\ r.state = current[e]

(***************************************************************************)
(* When the user stops typing (or the screen stops changing) the other end *)
(* comes to show exactly the last state, whatever was lost on the way.     *)
(***************************************************************************)
EventuallyInSync ==
    \A e \in Endpoint : []<><<current'[e] # current[e]>>_vars \/ <>[]InSync(e)
=============================================================================
