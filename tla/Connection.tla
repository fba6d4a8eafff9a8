----------------------------- MODULE Connection -----------------------------
(***************************************************************************)
(* network/network.cc: the Connection of a client and the one of a server, *)
(* and the network between.  The client sends from the newest of its       *)
(* sockets, hops to a new one when round trips stop and listens on the old *)
(* ones for a while; the server answers to wherever the newest packet came *)
(* from.  A packet carries its sender's 16-bit clock and, moved on by the  *)
(* time it was held, the newest clock received: a round-trip sample.       *)
(*                                                                         *)
(* Abstractions.                                                           *)
(*  - A socket and the address the server sees for it are one number.      *)
(*  - A packet carries the number of the newest sent state, or of the one  *)
(*    before if it is sent again, and the server's packets the newest such *)
(*    number that arrived: what Transport passes to                        *)
(*    set_last_roundtrip_success is the timestamp of that sent state.      *)
(*  - Each end sends at any time, at once or after any silence: when its   *)
(*    timers make it send is in SenderTimers, and it may be suspended.     *)
(*  - The two clocks differ by a constant and tick together; what SRTT and *)
(*    RTTVAR make of the samples is left out, and congestion marks, which  *)
(*    the port never reads.                                                *)
(*  - Packets are lost, repeated, reordered and delayed without limit;     *)
(*    what arrives on a closed socket is lost.                             *)
(***************************************************************************)
EXTENDS Integers, Sequences, FiniteSets

CONSTANTS
    Client, Server,
    PORT_HOP_INTERVAL, MAX_OLD_SOCKET_AGE, MAX_PORTS_OPEN, SERVER_ASSOCIATION_TIMEOUT,
    Epoch,           \* what the clock of each end shows at the start
    Modulus,         \* 65536
    HoldLimit,       \* 1000: a timestamp held as long is not answered
    SampleLimit,     \* 5000: a sample as large is ignored
    MaxTime,         \* bound: the common time
    MaxPackets,      \* bound: packets the client sends
    MaxBurst,        \* bound: packets the client sends at one time
    MaxAnswers       \* bound: packets the server sends

Endpoint == {Client, Server}

ASSUME ConnectionAssumption ==
    /\ PORT_HOP_INTERVAL \in Nat \ {0} /\ MAX_PORTS_OPEN \in Nat \ {0}
    /\ MAX_OLD_SOCKET_AGE \in Nat /\ SERVER_ASSOCIATION_TIMEOUT \in Nat
    /\ Modulus \in Nat /\ HoldLimit \in Nat /\ SampleLimit \in Nat
    /\ 0 < HoldLimit /\ HoldLimit < SampleLimit /\ SampleLimit < Modulus
    /\ Client # Server
    /\ Epoch \in [Endpoint -> Nat] /\ \A e \in Endpoint : HoldLimit <= Epoch[e]
    /\ MaxTime \in Nat /\ MaxPackets \in Nat /\ MaxBurst \in Nat /\ MaxAnswers \in Nat

VARIABLES
    now,
    socks,                    \* the client's sockets, the newest last
    last_port_choice,
    last_roundtrip_success,   \* Never until something was received
    stamps,                   \* when each state was last sent, by number
    acked,                    \* the number of the front of sent_states
    has_remote_addr, remote_addr, last_heard,   \* the server's
    ack_num,                  \* the newest state the server has
    seq,                      \* the last packet each end sent
    net,                      \* the packets each end sent
    expected_receiver_seq, saved_timestamp, saved_timestamp_received_at,
    sample,     \* the last R each end accepted, with the history of its packets
    saved,      \* history: [seq, delay] of the packet saved_timestamp is from
    newest      \* history: the packet with the largest seq that reached the server

client == <<socks, last_port_choice, last_roundtrip_success, stamps, acked>>
server == <<has_remote_addr, remote_addr, last_heard, ack_num, newest>>
clocks == <<saved_timestamp, saved_timestamp_received_at, saved>>
vars == <<now, client, server, seq, net, expected_receiver_seq, clocks, sample>>

Never == -1000 - MaxTime   \* so long ago that any interval has passed
NoAddr == 0
None == Modulus - 1        \* uint16_t( -1 )
Nothing == [seq |-> 0, delay |-> 0]
NoSample == [R |-> 0, actual |-> 0]

\* State 0 is the one both ends start with: its timestamp is the start.
Init ==
    /\ now = 0
    /\ socks = <<1>> /\ last_port_choice = 0 /\ last_roundtrip_success = Never
    /\ stamps = [n \in {0} |-> 0] /\ acked = 0
    /\ has_remote_addr = FALSE /\ remote_addr = NoAddr /\ last_heard = Never
    /\ ack_num = 0 /\ newest = [seq |-> 0, port |-> NoAddr]
    /\ seq = [e \in Endpoint |-> 0]
    /\ net = [e \in Endpoint |-> {}]
    /\ expected_receiver_seq = [e \in Endpoint |-> 1]
    /\ saved_timestamp = [e \in Endpoint |-> None]
    /\ saved_timestamp_received_at = [e \in Endpoint |-> 0]
    /\ sample = [e \in Endpoint |-> NoSample]
    /\ saved = [e \in Endpoint |-> Nothing]

Newest(q) == q[Len(q)]
Largest(S) == CHOOSE n \in S : \A m \in S : m <= n
Clock(e) == Epoch[e] + now

\* timestamp16: the value that means none is passed over.
Timestamp16(e) ==
    IF Clock(e) % Modulus = None THEN 0 ELSE Clock(e) % Modulus

\* timestamp_diff: the difference, as if the clock wrapped at most once.
TimestampDiff(new, old) == IF new < old THEN new - old + Modulus ELSE new - old

(***************************************************************************)
(* new_packet: "corrected" timestamp advanced by how long we held it, once.*)
(***************************************************************************)
Recent(e) == Clock(e) - saved_timestamp_received_at[e] < HoldLimit

\* mutant: the timestamp goes back as it came
TimestampReplyUncorrected(e) == IF Recent(e) THEN saved_timestamp[e] ELSE None
TimestampReply(e) ==
    IF Recent(e)
    THEN (saved_timestamp[e] + Clock(e) - saved_timestamp_received_at[e]) % Modulus
    ELSE None

NewPacket(e, payload) ==
    /\ seq' = [seq EXCEPT ![e] = @ + 1]
    /\ net' = [net EXCEPT ![e] = @ \cup
           {[seq |-> seq'[e], payload |-> payload,
             timestamp |-> Timestamp16(e), timestamp_reply |-> TimestampReply(e),
             sent |-> now, answers |-> IF Recent(e) THEN saved[e] ELSE Nothing]}]
    /\ IF Recent(e)
       THEN /\ saved_timestamp' = [saved_timestamp EXCEPT ![e] = None]
            /\ saved_timestamp_received_at' = [saved_timestamp_received_at EXCEPT ![e] = 0]
            /\ saved' = [saved EXCEPT ![e] = Nothing]
       ELSE UNCHANGED clocks

(***************************************************************************)
(* prune_sockets, with the last_port_choice it reads.                      *)
(***************************************************************************)
Keep(q, n) == IF Len(q) > n THEN SubSeq(q, Len(q) - n + 1, Len(q)) ELSE q

\* mutant: a socket is old when the next hop is due
PrunedAtNextHop(q, chosen) ==
    IF now - chosen > PORT_HOP_INTERVAL THEN Keep(q, 1) ELSE Keep(q, MAX_PORTS_OPEN)
Pruned(q, chosen) ==
    IF now - chosen > MAX_OLD_SOCKET_AGE THEN Keep(q, 1) ELSE Keep(q, MAX_PORTS_OPEN)

(***************************************************************************)
(* send, at the client: the packet goes out from the newest socket, and    *)
(* hop_port opens another if both intervals have passed.                   *)
(***************************************************************************)
TimeToHop ==
    /\ now - last_port_choice > PORT_HOP_INTERVAL
    /\ now - last_roundtrip_success > PORT_HOP_INTERVAL

HopPort ==
    IF TimeToHop
    THEN /\ socks' = Pruned(Append(socks, Newest(socks) + 1), now)
         /\ last_port_choice' = now
    ELSE UNCHANGED <<socks, last_port_choice>>

\* A state that is not acknowledged is sent again under its number, and
\* send_to_receiver renews its timestamp; any other takes the next number.
SentNum == {Largest(DOMAIN stamps) + 1} \cup ({Largest(DOMAIN stamps)} \ {acked})

ClientSend ==
    /\ seq[Client] < MaxPackets /\ Cardinality({p \in net[Client] : p.sent = now}) < MaxBurst
    /\ \E num \in SentNum :
          /\ stamps' = [n \in DOMAIN stamps \cup {num} |-> IF n = num THEN now ELSE stamps[n]]
          /\ NewPacket(Client, [num |-> num, port |-> Newest(socks)])
    /\ HopPort
    /\ UNCHANGED <<now, last_roundtrip_success, acked, server, expected_receiver_seq, sample>>

\* send, at the server
ServerSend ==
    /\ has_remote_addr /\ seq[Server] < MaxAnswers
    /\ NewPacket(Server, [num |-> ack_num, port |-> remote_addr])
    /\ has_remote_addr' = (now - last_heard <= SERVER_ASSOCIATION_TIMEOUT)
    /\ UNCHANGED <<now, client, remote_addr, last_heard, ack_num, newest,
                   expected_receiver_seq, sample>>

Elapse ==
    /\ now < MaxTime
    /\ now' = now + 1
    /\ UNCHANGED <<client, server, seq, net, expected_receiver_seq, clocks, sample>>

(***************************************************************************)
(* recv_one: a packet older than another that arrived has its payload used *)
(* but counts neither for the clocks nor for targeting.                    *)
(***************************************************************************)
Accepted(R) == R < SampleLimit

Sampled(e, p) ==
    LET R == TimestampDiff(Timestamp16(e), p.timestamp_reply)
    IN  IF p.timestamp_reply # None /\ Accepted(R)
        THEN [R |-> R, actual |-> p.answers.delay + (now - p.sent)]
        ELSE sample[e]

\* mutant: seq is not compared
IsNewSeqAlways(e, p) == TRUE
IsNewSeq(e, p) == p.seq >= expected_receiver_seq[e]

RecvOne(e, p) ==
    IF IsNewSeq(e, p)
    THEN /\ expected_receiver_seq' = [expected_receiver_seq EXCEPT ![e] = p.seq + 1]
         /\ saved_timestamp' = [saved_timestamp EXCEPT ![e] = p.timestamp]
         /\ saved_timestamp_received_at' =
                [saved_timestamp_received_at EXCEPT ![e] = Clock(e)]
         /\ saved' = [saved EXCEPT ![e] = [seq |-> p.seq, delay |-> now - p.sent]]
         /\ sample' = [sample EXCEPT ![e] = Sampled(e, p)]
    ELSE UNCHANGED <<expected_receiver_seq, clocks, sample>>

ServerRecv ==
    \E p \in net[Client] :
        /\ RecvOne(Server, p)
        /\ IF IsNewSeq(Server, p)
           THEN /\ has_remote_addr' = TRUE /\ last_heard' = now
                /\ remote_addr' = p.payload.port
           ELSE UNCHANGED <<has_remote_addr, last_heard, remote_addr>>
        /\ ack_num' = IF p.payload.num > ack_num THEN p.payload.num ELSE ack_num
        /\ newest' = IF p.seq > newest.seq THEN [seq |-> p.seq, port |-> p.payload.port]
                     ELSE newest
        /\ UNCHANGED <<now, client, seq, net>>

\* recv, at the client: Connection prunes, then Transport processes the
\* acknowledgment (of a state still listed) and reports the round trip.
ClientRecv ==
    \E p \in net[Server] :
        /\ \E i \in DOMAIN socks : socks[i] = p.payload.port
        /\ RecvOne(Client, p)
        /\ socks' = Pruned(socks, last_port_choice)
        /\ acked' = IF p.payload.num > acked THEN p.payload.num ELSE acked
        /\ stamps' = [n \in {m \in DOMAIN stamps : m >= acked'} |-> stamps[n]]
        /\ last_roundtrip_success' = stamps[acked']
        /\ UNCHANGED <<now, last_port_choice, server, seq, net>>

Next == ClientSend \/ ServerSend \/ Elapse \/ ServerRecv \/ ClientRecv

Spec == Init /\ [][Next]_vars

-----------------------------------------------------------------------------
(***************************************************************************)
(* The server answers to where the client sent from last, as far as it can *)
(* know: an old packet that arrives late, or again, never draws it back.   *)
(***************************************************************************)
ServerFollowsClient == remote_addr = newest.port

(***************************************************************************)
(* When the old sockets are closed because the newest is old enough, the   *)
(* server already answers to the newest, provided the client sent          *)
(* something in the time by which MAX_OLD_SOCKET_AGE exceeds two hop       *)
(* intervals: 40 s, and it sends every 3 s unless it is held up.  Less     *)
(* would not do: the round trip that kept the client from hopping may be   *)
(* that of a state sent from an old socket and again from the newest.      *)
(* And a client that was silent for longer than the age may, on waking,    *)
(* read an answer that waited in an old socket and close the socket the    *)
(* server still answers to: prune_sockets looks at how long ago the newest *)
(* was opened, not at whether it has "been working" (network.cc:139).      *)
(***************************************************************************)
SentLately ==
    \E p \in net[Client] : now - p.sent <= MAX_OLD_SOCKET_AGE - 2 * PORT_HOP_INTERVAL

SocketsClosedAreUnused ==
    [][Len(socks) > 1 /\ Len(socks') = 1 /\ SentLately =>
           remote_addr = Newest(socks)]_vars

(***************************************************************************)
(* A sample is the time the two packets spent on the network: neither what *)
(* the other end waited, nor the difference of the clocks, nor a wrap of   *)
(* 16 bits on the way, nor a packet that came again counts, and passing    *)
(* over uint16_t( -1 ) costs at most a millisecond.  (Unless that time is  *)
(* itself a wrap of 16 bits: the code sees it modulo 2^16 ms, and samples  *)
(* a server stopped for 65.5 to 70.5 s, which network.cc:627 would         *)
(* ignore.)                                                                *)
(***************************************************************************)
SampleIsRoundtrip ==
    \A e \in Endpoint :
        sample[e].actual < Modulus - 1 =>
            sample[e].R - sample[e].actual \in -1 .. 1
=============================================================================
