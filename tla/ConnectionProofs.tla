-------------------------- MODULE ConnectionProofs --------------------------
(***************************************************************************)
(* The server follows the client, and round trips are measured, whatever   *)
(* the intervals, the modulus, the clocks and the bounds are.              *)
(*                                                                         *)
(* expected_receiver_seq is one more than the largest sequence number that *)
(* arrived (SeqIsNewest), so the packets that count for targeting are      *)
(* those that are newer than any before, and no others.                    *)
(*                                                                         *)
(* Every timestamp, sent, saved or corrected, is congruent to what its     *)
(* clock showed at some time, or to one more where None was passed over    *)
(* (IsStamp).  The time a corrected timestamp stands for is the sending of *)
(* the answer less the delay of the packet answered, so a sample is        *)
(* congruent to the two delays, give or take one; and being less than      *)
(* SampleLimit it equals them.                                             *)
(*                                                                         *)
(* Old sockets (SInv): states leave in the order of their numbers, and one *)
(* last sent later than a hop interval after the last hop was first sent   *)
(* after that hop (Hopped), from the newest socket (Packet).  A client     *)
(* that sends two hop intervals after the hop and does not hop again had a *)
(* round trip of such a state: a packet from the newest socket has         *)
(* arrived, and no older one draws the server back.                        *)
(***************************************************************************)
EXTENDS Connection, TLAPS

\* Time and sequence numbers are numbers.
Numbered ==
    /\ now \in Int
    /\ seq \in [Endpoint -> Int]
    /\ DOMAIN net = Endpoint
    /\ \A e \in Endpoint : \A p \in net[e] : p.seq \in Int
    /\ expected_receiver_seq \in [Endpoint -> Int]
    /\ newest.seq \in Int

SeqIsNewest == expected_receiver_seq[Server] = newest.seq + 1

IInv == Numbered /\ SeqIsNewest /\ ServerFollowsClient

-----------------------------------------------------------------------------
LEMMA InitHolds == Init => IInv
  BY ConnectionAssumption
     DEF Init, IInv, Numbered, SeqIsNewest, ServerFollowsClient, Endpoint

\* A packet leaves under a number; it changes nothing that was received.
LEMMA NewPacketIsNumbered ==
    ASSUME Numbered, NEW e \in Endpoint, NEW payload, NewPacket(e, payload),
           UNCHANGED <<now, expected_receiver_seq, newest>>
    PROVE  Numbered'
  <1>. USE ConnectionAssumption DEF Endpoint
  <1>1. seq' \in [Endpoint -> Int]
    BY DEF Numbered, NewPacket
  <1>2. DOMAIN net' = Endpoint
    BY DEF Numbered, NewPacket
  <1>3. \A f \in Endpoint : \A p \in net'[f] : p.seq \in Int
    <2>. SUFFICES ASSUME NEW f \in Endpoint, NEW p \in net'[f] PROVE p.seq \in Int
      OBVIOUS
    <2>1. CASE p \in net[f]
      BY <2>1 DEF Numbered
    <2>2. CASE p \notin net[f]
      BY <1>1, <2>2 DEF Numbered, NewPacket
    <2>. QED
      BY <2>1, <2>2
  <1>. QED
    BY <1>1, <1>2, <1>3 DEF Numbered

LEMMA ServerRecvFollows == ASSUME IInv, ServerRecv PROVE IInv'
  <1>. USE ConnectionAssumption DEF Endpoint
  <1>1. PICK p \in net[Client] :
            /\ RecvOne(Server, p)
            /\ IF IsNewSeq(Server, p)
               THEN remote_addr' = p.payload.port ELSE remote_addr' = remote_addr
            /\ newest' = IF p.seq > newest.seq THEN [seq |-> p.seq, port |-> p.payload.port]
                         ELSE newest
    BY DEF ServerRecv
  <1>2. UNCHANGED <<now, seq, net>>
    BY DEF ServerRecv
  <1>3. p.seq \in Int
    BY DEF IInv, Numbered
  <1>4. CASE IsNewSeq(Server, p)
    <2>1. /\ expected_receiver_seq' = [expected_receiver_seq EXCEPT ![Server] = p.seq + 1]
          /\ newest' = [seq |-> p.seq, port |-> p.payload.port]
          /\ remote_addr' = p.payload.port
      BY <1>1, <1>3, <1>4 DEF RecvOne, IsNewSeq, IInv, Numbered, SeqIsNewest
    <2>. QED
      BY <1>2, <1>3, <2>1 DEF IInv, Numbered, SeqIsNewest, ServerFollowsClient
  <1>5. CASE ~IsNewSeq(Server, p)
    <2>1. UNCHANGED <<expected_receiver_seq, newest, remote_addr>>
      BY <1>1, <1>3, <1>5 DEF RecvOne, IsNewSeq, IInv, Numbered, SeqIsNewest
    <2>. QED
      BY <1>2, <2>1 DEF IInv, Numbered, SeqIsNewest, ServerFollowsClient
  <1>. QED
    BY <1>4, <1>5

LEMMA ClientRecvKeeps == ASSUME IInv, ClientRecv PROVE IInv'
  <1>. USE ConnectionAssumption DEF Endpoint
  <1>1. UNCHANGED <<now, seq, net, newest, remote_addr>>
    BY DEF ClientRecv, server
  <1>2. PICK p \in net[Server] : RecvOne(Client, p)
    BY DEF ClientRecv
  <1>3. p.seq \in Int
    BY DEF IInv, Numbered
  <1>4. /\ expected_receiver_seq' \in [Endpoint -> Int]
        /\ expected_receiver_seq'[Server] = expected_receiver_seq[Server]
    BY <1>2, <1>3 DEF RecvOne, IInv, Numbered
  <1>. QED
    BY <1>1, <1>4 DEF IInv, Numbered, SeqIsNewest, ServerFollowsClient

LEMMA NextKeeps == ASSUME IInv, [Next]_vars PROVE IInv'
  <1>. USE ConnectionAssumption DEF Endpoint
  <1>1. CASE ClientSend
    <2>1. UNCHANGED <<now, expected_receiver_seq, newest, remote_addr>>
      BY <1>1 DEF ClientSend, server
    <2>2. Numbered'
      BY <1>1, <2>1, NewPacketIsNumbered DEF ClientSend, IInv
    <2>. QED
      BY <2>1, <2>2 DEF IInv, SeqIsNewest, ServerFollowsClient
  <1>2. CASE ServerSend
    <2>1. UNCHANGED <<now, expected_receiver_seq, newest, remote_addr>>
      BY <1>2 DEF ServerSend
    <2>2. Numbered'
      BY <1>2, <2>1, NewPacketIsNumbered DEF ServerSend, IInv
    <2>. QED
      BY <2>1, <2>2 DEF IInv, SeqIsNewest, ServerFollowsClient
  <1>3. CASE Elapse
    BY <1>3 DEF Elapse, server, IInv, Numbered, SeqIsNewest, ServerFollowsClient
  <1>4. CASE ServerRecv
    BY <1>4, ServerRecvFollows
  <1>5. CASE ClientRecv
    BY <1>5, ClientRecvKeeps
  <1>6. CASE UNCHANGED vars
    BY <1>6 DEF vars, server, IInv, Numbered, SeqIsNewest, ServerFollowsClient
  <1>. QED
    BY <1>1, <1>2, <1>3, <1>4, <1>5, <1>6 DEF Next

\* The server answers to where the client sent from last, as far as it can know: network.cc:662
\* never lets an old packet that arrives late, or again, draw it back.
THEOREM ServerFollows == Spec => []ServerFollowsClient
  <1>1. IInv => ServerFollowsClient
    BY DEF IInv
  <1>. QED
    BY InitHolds, NextKeeps, <1>1, PTL DEF Spec

-----------------------------------------------------------------------------
(* Numbers modulo the width of a timestamp *)

LEMMA ConstantsAreTyped ==
    /\ Endpoint = {Client, Server} /\ Client # Server
    /\ \A e \in Endpoint : Epoch[e] \in Nat /\ Epoch[e] >= HoldLimit
    /\ Modulus \in Nat /\ Modulus > 1 /\ SampleLimit \in Nat /\ SampleLimit < Modulus
    /\ HoldLimit \in Nat /\ HoldLimit > 0
  BY ConnectionAssumption DEF Endpoint

Congruent(x, y) == \E k \in Int : x = y + k * Modulus

LEMMA Multiples ==
    ASSUME NEW M \in Nat, M > 0, NEW k \in Int
    PROVE  (k >= 1 => k * M >= M) /\ (k <= -1 => k * M <= -M) /\ (k = 0 => k * M = 0)
           /\ k * M \in Int
  BY SMT

LEMMA RemainderCongruent ==
    ASSUME NEW a \in Int PROVE a % Modulus \in 0 .. Modulus - 1 /\ Congruent(a % Modulus, a)
  <1>. DEFINE M == Modulus
  <1>. M \in Nat /\ M > 1
    BY ConstantsAreTyped
  <1>. HIDE DEF M
  <1>1. a % M \in 0 .. M - 1
    BY SMT
  <1>2. a = M * (a \div M) + (a % M) /\ a \div M \in Int
    BY SMT
  <1>3. a % M = a + (-(a \div M)) * M
    BY <1>1, <1>2, SMT
  <1>4. \E k \in Int : a % M = a + k * M
    BY <1>2, <1>3
  <1>. QED
    BY <1>1, <1>4 DEF Congruent, M

LEMMA CongruentDifference ==
    ASSUME NEW x \in Int, NEW y \in Int, NEW u \in Int, NEW v \in Int,
           Congruent(x, y), Congruent(u, v)
    PROVE  Congruent(x - u, y - v)
  <1>1. PICK k \in Int : x = y + k * Modulus
    BY DEF Congruent
  <1>2. PICK m \in Int : u = v + m * Modulus
    BY DEF Congruent
  <1>3. (k - m) * Modulus = k * Modulus - m * Modulus /\ k * Modulus \in Int /\ m * Modulus \in Int
    BY ConstantsAreTyped, SMT
  <1>4. x - u = (y - v) + (k - m) * Modulus
    BY <1>1, <1>2, <1>3
  <1>. QED
    BY <1>4 DEF Congruent

LEMMA CongruentLater ==
    ASSUME NEW x \in Int, NEW y \in Int, NEW h \in Int, Congruent(x, y)
    PROVE  Congruent(x + h, y + h)
  <1>1. PICK k \in Int : x = y + k * Modulus
    BY DEF Congruent
  <1>2. k * Modulus \in Int
    BY ConstantsAreTyped, SMT
  <1>3. x + h = (y + h) + k * Modulus
    BY <1>1, <1>2
  <1>. QED
    BY <1>3 DEF Congruent

LEMMA CongruentItself ==
    ASSUME NEW x \in Int PROVE Congruent(x, x) /\ Congruent(x + Modulus, x)
  <1>1. x = x + 0 * Modulus /\ x + Modulus = x + 1 * Modulus
    BY ConstantsAreTyped, SMT
  <1>. QED
    BY <1>1 DEF Congruent

LEMMA CongruentTransitive ==
    ASSUME NEW x \in Int, NEW y \in Int, NEW z \in Int, Congruent(x, y), Congruent(y, z)
    PROVE  Congruent(x, z)
  <1>1. PICK k \in Int : x = y + k * Modulus
    BY DEF Congruent
  <1>2. PICK m \in Int : y = z + m * Modulus
    BY DEF Congruent
  <1>3. (k + m) * Modulus = k * Modulus + m * Modulus /\ k * Modulus \in Int /\ m * Modulus \in Int
    BY ConstantsAreTyped, SMT
  <1>4. x = z + (k + m) * Modulus
    BY <1>1, <1>2, <1>3
  <1>. QED
    BY <1>4 DEF Congruent

LEMMA CongruentIsEqual ==
    ASSUME NEW x \in Int, NEW y \in Int, Congruent(x, y), x - y < Modulus, y - x < Modulus
    PROVE  x = y
  <1>1. PICK k \in Int : x = y + k * Modulus
    BY DEF Congruent
  <1>2. /\ k * Modulus \in Int /\ (k = 0 => k * Modulus = 0)
        /\ (k >= 1 => k * Modulus >= Modulus) /\ (k <= -1 => k * Modulus <= -Modulus)
    BY Multiples, ConstantsAreTyped
  <1>3. Modulus \in Nat
    BY ConstantsAreTyped
  <1>. QED
    BY <1>1, <1>2, <1>3

-----------------------------------------------------------------------------
(* Round trips *)

Peer(e) == IF e = Client THEN Server ELSE Client

LEMMA PeerIsOther ==
    /\ Peer(Client) = Server /\ Peer(Server) = Client
    /\ \A e \in Endpoint : Peer(e) \in Endpoint
  BY ConstantsAreTyped DEF Peer

\* What the clock of e showed at time t, give or take the value passed over.
IsStamp(e, t, stamp) ==
    /\ stamp \in 0 .. Modulus - 1
    /\ Congruent(stamp, Epoch[e] + t) \/ Congruent(stamp, Epoch[e] + t + 1)

IsPacket(e, p) ==
    /\ p.sent \in Int /\ p.sent <= now
    /\ IsStamp(e, p.sent, p.timestamp)
    /\ p.timestamp_reply # None =>
        /\ p.answers.delay \in Nat
        /\ IsStamp(Peer(e), p.sent - p.answers.delay, p.timestamp_reply)

\* A clock never shows 0 again, so 0 stands for nothing saved.
IsSaved(e) ==
    saved_timestamp_received_at[e] # 0 =>
        /\ saved[e].delay \in Nat
        /\ IsStamp(Peer(e), saved_timestamp_received_at[e] - Epoch[e] - saved[e].delay,
                   saved_timestamp[e])

IsSample(R, actual) == actual < Modulus - 1 => R - actual \in -1 .. 1

Stamped ==
    /\ now \in Nat
    /\ DOMAIN net = Endpoint /\ \A e \in Endpoint : \A p \in net[e] : IsPacket(e, p)
    /\ saved_timestamp \in [Endpoint -> Int]
    /\ saved_timestamp_received_at \in [Endpoint -> Int]
    /\ DOMAIN saved = Endpoint /\ \A e \in Endpoint : IsSaved(e)
    /\ DOMAIN sample = Endpoint

LEMMA ClockIsStamp ==
    ASSUME NEW e \in Endpoint, now \in Nat PROVE IsStamp(e, now, Timestamp16(e))
  <1>. USE ConstantsAreTyped
  <1>1. Clock(e) \in Int /\ Clock(e) = Epoch[e] + now
    BY DEF Clock
  <1>2. Clock(e) % Modulus \in 0 .. Modulus - 1 /\ Congruent(Clock(e) % Modulus, Clock(e))
    BY <1>1, RemainderCongruent
  <1>3. CASE Clock(e) % Modulus = None
    <2>1. Congruent(Modulus - 1, Clock(e))
      BY <1>2, <1>3 DEF None
    <2>2. Congruent(0 + Modulus, 0)
      BY CongruentItself
    <2>3. Congruent(Modulus, Clock(e) + 1)
      <3>. DEFINE last == Modulus - 1
      <3>1. last \in Int /\ last + 1 = Modulus
        OBVIOUS
      <3>2. Congruent(last, Clock(e))
        BY <2>1
      <3>. HIDE DEF last
      <3>3. Congruent(last + 1, Clock(e) + 1)
        BY <1>1, <3>1, <3>2, CongruentLater
      <3>. QED
        BY <3>1, <3>3
    <2>4. Congruent(0, Modulus)
      <3>1. Congruent(Modulus, 0) /\ Congruent(Modulus, Modulus)
        BY <2>2, CongruentItself
      <3>2. Congruent(Modulus - Modulus, Modulus - 0)
        BY <3>1, CongruentDifference
      <3>. QED
        BY <3>2
    <2>5. Congruent(0, Clock(e) + 1)
      BY <1>1, <2>3, <2>4, CongruentTransitive
    <2>. QED
      BY <1>1, <1>3, <2>5 DEF IsStamp, Timestamp16
  <1>4. CASE Clock(e) % Modulus # None
    BY <1>1, <1>2, <1>4 DEF IsStamp, Timestamp16
  <1>. QED
    BY <1>3, <1>4

\* A stamp moved on by some time stands for a time as much later.
LEMMA StampAdvances ==
    ASSUME NEW e \in Endpoint, NEW t \in Int, NEW stamp, IsStamp(e, t, stamp), NEW held \in Int
    PROVE  IsStamp(e, t + held, (stamp + held) % Modulus)
  <1>. USE ConstantsAreTyped
  <1>1. stamp \in Int /\ Epoch[e] \in Int
    BY DEF IsStamp
  <1>2. /\ (stamp + held) % Modulus \in 0 .. Modulus - 1
        /\ Congruent((stamp + held) % Modulus, stamp + held)
    <2>. DEFINE sum == stamp + held
    <2>1. sum \in Int
      BY <1>1
    <2>. HIDE DEF sum
    <2>2. sum % Modulus \in 0 .. Modulus - 1 /\ Congruent(sum % Modulus, sum)
      BY <2>1, RemainderCongruent
    <2>. QED
      BY <2>2 DEF sum
  <1>3. ASSUME NEW y \in Int, Congruent(stamp, y)
        PROVE  Congruent((stamp + held) % Modulus, y + held)
    <2>1. Congruent(stamp + held, y + held)
      BY <1>1, <1>3, CongruentLater
    <2>. QED
      BY <1>1, <1>2, <2>1, CongruentTransitive
  <1>4. CASE Congruent(stamp, Epoch[e] + t)
    <2>1. Congruent((stamp + held) % Modulus, (Epoch[e] + t) + held)
      BY <1>1, <1>3, <1>4
    <2>2. Congruent((stamp + held) % Modulus, Epoch[e] + (t + held))
      BY <1>1, <2>1
    <2>. QED
      BY <1>2, <2>2 DEF IsStamp
  <1>5. CASE Congruent(stamp, Epoch[e] + t + 1)
    <2>1. Congruent((stamp + held) % Modulus, (Epoch[e] + t + 1) + held)
      BY <1>1, <1>3, <1>5
    <2>2. Congruent((stamp + held) % Modulus, Epoch[e] + (t + held) + 1)
      BY <1>1, <2>1
    <2>. QED
      BY <1>2, <2>2 DEF IsStamp
  <1>. QED
    BY <1>4, <1>5 DEF IsStamp

\* The corrected timestamp stands for the time of the packet answered and its delay.
LEMMA ReplyIsStamp ==
    ASSUME NEW e \in Endpoint, Stamped, Recent(e)
    PROVE  /\ saved[e].delay \in Nat
           /\ IsStamp(Peer(e), now - saved[e].delay, TimestampReply(e))
  <1>. USE ConstantsAreTyped
  <1>. DEFINE at == saved_timestamp_received_at[e]
              held == Clock(e) - at
              then == at - Epoch[e] - saved[e].delay
  <1>1. at \in Int /\ saved_timestamp[e] \in Int /\ now \in Nat /\ held \in Int
    BY DEF Stamped, Clock
  <1>2. at # 0
    BY <1>1 DEF Recent, Clock
  <1>3. saved[e].delay \in Nat /\ IsStamp(Peer(e), then, saved_timestamp[e])
    BY <1>2 DEF Stamped, IsSaved
  <1>4. then \in Int /\ then + held = now - saved[e].delay
    BY <1>1, <1>3 DEF Clock
  <1>5. IsStamp(Peer(e), then + held, (saved_timestamp[e] + held) % Modulus)
    BY <1>1, <1>3, <1>4, PeerIsOther, StampAdvances
  <1>6. saved_timestamp[e] + held = saved_timestamp[e] + Clock(e) - at
    BY <1>1 DEF Clock
  <1>7. TimestampReply(e) = (saved_timestamp[e] + held) % Modulus
    BY <1>6 DEF TimestampReply
  <1>. QED
    BY <1>3, <1>4, <1>5, <1>7

\* The difference of two stamps of one clock is the time between, give or take one.
LEMMA DifferenceIsTime ==
    ASSUME NEW e \in Endpoint, NEW actual \in Nat, NEW new, NEW old, now \in Nat,
           IsStamp(e, now, new), IsStamp(e, now - actual, old),
           Accepted(TimestampDiff(new, old))
    PROVE  IsSample(TimestampDiff(new, old), actual)
  <1>. USE ConstantsAreTyped
  <1>. DEFINE R == TimestampDiff(new, old)
  <1>1. new \in 0 .. Modulus - 1 /\ old \in 0 .. Modulus - 1
    BY DEF IsStamp
  <1>2. R \in 0 .. Modulus - 1 /\ R < SampleLimit
    BY <1>1 DEF TimestampDiff, Accepted
  <1>3. Congruent(R, new - old)
    <2>1. Congruent(new - old, new - old) /\ Congruent((new - old) + Modulus, new - old)
      BY <1>1, CongruentItself
    <2>. QED
      BY <1>1, <2>1 DEF TimestampDiff
  <1>4. PICK y \in Int : y - (Epoch[e] + now) \in 0 .. 1 /\ Congruent(new, y)
    <2>1. Epoch[e] + now \in Int /\ Epoch[e] + now + 1 \in Int
      OBVIOUS
    <2>. QED
      BY <2>1 DEF IsStamp
  <1>5. PICK v \in Int : v - (Epoch[e] + (now - actual)) \in 0 .. 1 /\ Congruent(old, v)
    <2>1. Epoch[e] + (now - actual) \in Int /\ Epoch[e] + (now - actual) + 1 \in Int
      OBVIOUS
    <2>. QED
      BY <2>1 DEF IsStamp
  <1>. HIDE DEF R
  <1>6. Congruent(R, y - v)
    <2>1. Congruent(new - old, y - v)
      BY <1>1, <1>4, <1>5, CongruentDifference
    <2>. QED
      BY <1>1, <1>2, <1>3, <1>4, <1>5, <2>1, CongruentTransitive
  <1>7. (y - v) - actual \in -1 .. 1
    BY <1>4, <1>5
  <1>8. ASSUME actual < Modulus - 1 PROVE R - actual \in -1 .. 1
    <2>1. R - (y - v) < Modulus /\ (y - v) - R < Modulus
      BY <1>2, <1>7, <1>8
    <2>2. R = y - v
      BY <1>2, <1>6, <2>1, CongruentIsEqual
    <2>. QED
      BY <1>2, <1>7, <2>2
  <1>. QED
    BY <1>8 DEF IsSample, R

SamplesHold == \A e \in Endpoint : IsSample(sample[e].R, sample[e].actual)

RInv == Stamped /\ SamplesHold

LEMMA InitStamps == Init => RInv
  <1>. SUFFICES ASSUME Init PROVE RInv
    OBVIOUS
  <1>. USE ConstantsAreTyped
  <1>1. now \in Nat /\ DOMAIN net = Endpoint /\ \A e \in Endpoint : \A p \in net[e] : IsPacket(e, p)
    BY DEF Init
  <1>2. /\ saved_timestamp \in [Endpoint -> Int]
        /\ saved_timestamp_received_at \in [Endpoint -> Int]
        /\ DOMAIN saved = Endpoint /\ DOMAIN sample = Endpoint
        /\ \A e \in Endpoint : IsSaved(e)
    BY DEF Init, None, IsSaved
  <1>3. SamplesHold
    BY DEF Init, SamplesHold, NoSample, IsSample
  <1>. QED
    BY <1>1, <1>2, <1>3 DEF RInv, Stamped

\* What was a packet stays one as time passes.
LEMMA PacketsStay ==
    ASSUME NEW e \in Endpoint, NEW p, IsPacket(e, p), now \in Nat, now' \in Nat, now' >= now
    PROVE  IsPacket(e, p)'
  BY DEF IsPacket, IsStamp, Congruent

LEMMA NewPacketIsStamped ==
    ASSUME Stamped, NEW e \in Endpoint, NEW payload, NewPacket(e, payload), now' = now,
           sample' = sample
    PROVE  Stamped'
  <1>. USE ConstantsAreTyped
  <1>. DEFINE sent == [seq |-> seq'[e], payload |-> payload,
                       timestamp |-> Timestamp16(e), timestamp_reply |-> TimestampReply(e),
                       sent |-> now, answers |-> IF Recent(e) THEN saved[e] ELSE Nothing]
  <1>1. net' = [net EXCEPT ![e] = @ \cup {sent}] /\ now \in Nat
    BY DEF NewPacket, Stamped
  <1>2. IsPacket(e, sent)
    <2>1. IsStamp(e, sent.sent, sent.timestamp)
      BY <1>1, ClockIsStamp
    <2>2. sent.timestamp_reply # None => Recent(e)
      BY DEF TimestampReply
    <2>3. ASSUME Recent(e)
          PROVE  /\ sent.answers.delay \in Nat
                 /\ IsStamp(Peer(e), sent.sent - sent.answers.delay, sent.timestamp_reply)
      BY <2>3, ReplyIsStamp
    <2>. QED
      BY <1>1, <2>1, <2>2, <2>3 DEF IsPacket
  <1>. HIDE DEF sent
  <1>3. \A f \in Endpoint : \A p \in net'[f] : IsPacket(f, p)'
    <2>. SUFFICES ASSUME NEW f \in Endpoint, NEW p \in net'[f] PROVE IsPacket(f, p)'
      OBVIOUS
    <2>1. IsPacket(f, p)
      BY <1>1, <1>2 DEF Stamped
    <2>. QED
      BY <1>1, <2>1, PacketsStay
  <1>4. DOMAIN net' = Endpoint
    BY <1>1 DEF Stamped
  <1>5. /\ saved_timestamp' \in [Endpoint -> Int]
        /\ saved_timestamp_received_at' \in [Endpoint -> Int]
        /\ DOMAIN saved' = Endpoint
    BY DEF NewPacket, clocks, Stamped, None
  <1>6. ASSUME NEW f \in Endpoint PROVE IsSaved(f)'
    <2>1. CASE saved_timestamp_received_at'[f] = 0
      BY <2>1 DEF IsSaved
    <2>2. CASE saved_timestamp_received_at'[f] # 0
      <3>1. /\ saved_timestamp'[f] = saved_timestamp[f]
            /\ saved_timestamp_received_at'[f] = saved_timestamp_received_at[f]
            /\ saved'[f] = saved[f]
        BY <2>2 DEF NewPacket, clocks, Stamped
      <3>2. IsSaved(f)
        BY DEF Stamped
      <3>. QED
        BY <3>1, <3>2 DEF IsSaved, IsStamp, Congruent
    <2>. QED
      BY <2>1, <2>2
  <1>. QED
    BY <1>1, <1>3, <1>4, <1>5, <1>6 DEF Stamped

LEMMA RecvOneSamples ==
    ASSUME RInv, NEW e \in Endpoint, NEW p \in net[Peer(e)], RecvOne(e, p), UNCHANGED <<now, net>>
    PROVE  RInv'
  <1>. USE ConstantsAreTyped, PeerIsOther
  <1>1. now \in Nat /\ IsPacket(Peer(e), p) /\ Peer(Peer(e)) = e
    BY DEF RInv, Stamped, Peer
  <1>2. \A f \in Endpoint : \A q \in net[f] : IsPacket(f, q)'
    BY PacketsStay DEF RInv, Stamped
  <1>3. CASE ~IsNewSeq(e, p)
    <2>1. UNCHANGED <<saved_timestamp, saved_timestamp_received_at, saved, sample>>
      BY <1>3 DEF RecvOne, clocks
    <2>2. \A f \in Endpoint : IsSaved(f)'
      BY <2>1 DEF RInv, Stamped, IsSaved, IsStamp, Congruent
    <2>. QED
      BY <1>2, <2>1, <2>2 DEF RInv, Stamped, SamplesHold
  <1>4. CASE IsNewSeq(e, p)
    <2>1. /\ saved_timestamp' = [saved_timestamp EXCEPT ![e] = p.timestamp]
          /\ saved_timestamp_received_at' =
                [saved_timestamp_received_at EXCEPT ![e] = Clock(e)]
          /\ saved' = [saved EXCEPT ![e] = [seq |-> p.seq, delay |-> now - p.sent]]
          /\ sample' = [sample EXCEPT ![e] = Sampled(e, p)]
      BY <1>4 DEF RecvOne
    <2>2. p.timestamp \in Int /\ Clock(e) \in Int /\ now - p.sent \in Nat
          /\ Clock(e) - Epoch[e] - (now - p.sent) = p.sent
      BY <1>1 DEF IsPacket, IsStamp, Clock
    <2>3. /\ saved_timestamp' \in [Endpoint -> Int]
          /\ saved_timestamp_received_at' \in [Endpoint -> Int]
          /\ DOMAIN saved' = Endpoint /\ DOMAIN sample' = Endpoint
      BY <2>1, <2>2 DEF RInv, Stamped
    <2>4. ASSUME NEW f \in Endpoint PROVE IsSaved(f)'
      <3>1. CASE f # e
        BY <2>1, <3>1 DEF RInv, Stamped, IsSaved, IsStamp, Congruent
      <3>2. CASE f = e
        <4>1. /\ saved'[f].delay = now - p.sent /\ saved_timestamp'[f] = p.timestamp
              /\ saved_timestamp_received_at'[f] = Clock(e)
          BY <2>1, <3>2 DEF RInv, Stamped
        <4>2. IsStamp(Peer(e), p.sent, p.timestamp)
          BY <1>1 DEF IsPacket
        <4>. QED
          BY <2>2, <3>2, <4>1, <4>2 DEF IsSaved, IsStamp, Congruent
      <3>. QED
        BY <3>1, <3>2
    <2>5. ASSUME NEW f \in Endpoint PROVE IsSample(sample'[f].R, sample'[f].actual)
      <3>1. CASE sample'[f] = sample[f]
        BY <3>1 DEF RInv, SamplesHold
      <3>2. CASE sample'[f] # sample[f]
        <4>. DEFINE R == TimestampDiff(Timestamp16(e), p.timestamp_reply)
                    actual == p.answers.delay + (now - p.sent)
        <4>1. /\ sample'[f] = [R |-> R, actual |-> actual]
              /\ p.timestamp_reply # None /\ Accepted(R)
          BY <2>1, <3>2 DEF RInv, Stamped, Sampled
        <4>2. /\ p.answers.delay \in Nat
              /\ IsStamp(e, p.sent - p.answers.delay, p.timestamp_reply)
          BY <1>1, <4>1 DEF IsPacket
        <4>3. actual \in Nat /\ now - actual = p.sent - p.answers.delay
          BY <1>1, <2>2, <4>2 DEF IsPacket
        <4>4. IsStamp(e, now, Timestamp16(e)) /\ IsStamp(e, now - actual, p.timestamp_reply)
          BY <1>1, <4>2, <4>3, ClockIsStamp
        <4>5. IsSample(R, actual)
          BY <1>1, <4>1, <4>3, <4>4, DifferenceIsTime
        <4>. QED
          BY <4>1, <4>5
      <3>. QED
        BY <3>1, <3>2
    <2>. QED
      BY <1>1, <1>2, <2>3, <2>4, <2>5 DEF RInv, Stamped, SamplesHold, IsSample
  <1>. QED
    BY <1>3, <1>4

LEMMA NextSamples == ASSUME RInv, [Next]_vars PROVE RInv'
  <1>. USE ConstantsAreTyped
  <1>1. CASE ClientSend
    <2>1. now' = now /\ sample' = sample
      BY <1>1 DEF ClientSend
    <2>2. PICK payload : NewPacket(Client, payload)
      BY <1>1 DEF ClientSend
    <2>. QED
      BY <2>1, <2>2, NewPacketIsStamped DEF RInv, SamplesHold, IsSample
  <1>2. CASE ServerSend
    <2>1. now' = now /\ sample' = sample
      BY <1>2 DEF ServerSend
    <2>2. PICK payload : NewPacket(Server, payload)
      BY <1>2 DEF ServerSend
    <2>. QED
      BY <2>1, <2>2, NewPacketIsStamped DEF RInv, SamplesHold, IsSample
  <1>3. CASE Elapse
    <2>1. now' = now + 1 /\ now \in Nat
      BY <1>3 DEF Elapse, RInv, Stamped
    <2>2. UNCHANGED <<net, saved_timestamp, saved_timestamp_received_at, saved, sample>>
      BY <1>3 DEF Elapse, clocks
    <2>3. \A f \in Endpoint : \A p \in net[f] : IsPacket(f, p)'
      BY <2>1, PacketsStay DEF RInv, Stamped
    <2>4. \A f \in Endpoint : IsSaved(f)'
      BY <2>2 DEF RInv, Stamped, IsSaved, IsStamp, Congruent
    <2>. QED
      BY <2>1, <2>2, <2>3, <2>4 DEF RInv, Stamped, SamplesHold, IsSample
  <1>4. CASE ServerRecv
    <2>1. UNCHANGED <<now, net>>
      BY <1>4 DEF ServerRecv
    <2>2. PICK p \in net[Client] : RecvOne(Server, p)
      BY <1>4 DEF ServerRecv
    <2>. QED
      BY <2>1, <2>2, PeerIsOther, RecvOneSamples
  <1>5. CASE ClientRecv
    <2>1. UNCHANGED <<now, net>>
      BY <1>5 DEF ClientRecv
    <2>2. PICK p \in net[Server] : RecvOne(Client, p)
      BY <1>5 DEF ClientRecv
    <2>. QED
      BY <2>1, <2>2, PeerIsOther, RecvOneSamples
  <1>6. CASE UNCHANGED vars
    <2>1. UNCHANGED <<now, net, saved_timestamp, saved_timestamp_received_at, saved, sample>>
      BY <1>6 DEF vars, clocks
    <2>. QED
      BY <2>1 DEF RInv, Stamped, SamplesHold, IsPacket, IsSaved, IsSample, IsStamp, Congruent
  <1>. QED
    BY <1>1, <1>2, <1>3, <1>4, <1>5, <1>6 DEF Next

\* What network.cc:608 samples is the time on the network, for clocks of any width and offset:
\* holding a timestamp, a wrap on the way, and packets that come again or late do not disturb it.
THEOREM SamplesAreRoundtrips == Spec => []SampleIsRoundtrip
  <1>1. RInv => SampleIsRoundtrip
    BY DEF RInv, SamplesHold, IsSample, SampleIsRoundtrip
  <1>. QED
    BY InitStamps, NextSamples, <1>1, PTL DEF Spec

-----------------------------------------------------------------------------
(* Old sockets *)

Top == Largest(DOMAIN stamps)

Clocked == now \in Nat /\ seq[Client] \in Nat /\ last_port_choice \in 0 .. now

Ports == socks \in Seq(Nat) /\ Len(socks) \in 1 .. MAX_PORTS_OPEN

\* States were last sent in the order of their numbers.
Queued ==
    /\ acked \in Nat /\ Top \in Nat /\ acked <= Top /\ DOMAIN stamps = acked .. Top
    /\ \A n \in acked .. Top : stamps[n] \in 0 .. now
    /\ \A n, m \in acked .. Top : n <= m => stamps[n] <= stamps[m]
    /\ acked = 0 => stamps[0] = 0

\* What was sent since the last hop left from the newest socket, what a state was first
\* sent in did not leave before any state before it was sent last, and packets leave in the
\* order of their numbers.
Packet(p) ==
    /\ p.seq \in 1 .. seq[Client] /\ p.sent \in 0 .. now /\ p.payload.num \in 0 .. Top
    /\ p.sent > last_port_choice => p.payload.port = Newest(socks)
    /\ \A n \in acked .. Top : n < p.payload.num => stamps[n] <= p.sent
Packets ==
    /\ \A p \in net[Client] : Packet(p)
    /\ \A p, q \in net[Client] : p.seq <= q.seq => p.sent <= q.sent

\* The server answers what reached it.
Reached(n) ==
    /\ n \in Nat
    /\ n = 0 \/ \E p \in net[Client] : p.payload.num = n /\ p.seq <= newest.seq
Arrived ==
    /\ Reached(acked) /\ Reached(ack_num)
    /\ \A q \in net[Server] : Reached(q.payload.num)
    /\ newest.seq \in Nat
    /\ newest.seq # 0 =>
           \E p \in net[Client] : p.seq = newest.seq /\ p.payload.port = newest.port

\* When no hop was made the round trip was a recent one; and what was sent one hop
\* interval after the last hop is a state never sent before that hop.
HopDue(t) == t > last_port_choice + PORT_HOP_INTERVAL
Fresh(n) == \A p \in net[Client] : p.payload.num >= n => p.sent > last_port_choice
Hopped ==
    /\ last_roundtrip_success \in {Never, stamps[acked]}
    /\ \A p \in net[Client] : HopDue(p.sent) => p.sent <= last_roundtrip_success + PORT_HOP_INTERVAL
    /\ \A n \in acked .. Top : HopDue(stamps[n]) => Fresh(n)

SInv == Clocked /\ Ports /\ Queued /\ Packets /\ Arrived /\ Hopped

LEMMA Intervals ==
    /\ PORT_HOP_INTERVAL \in Nat \ {0} /\ MAX_PORTS_OPEN \in Nat \ {0} /\ MaxTime \in Nat
    /\ MAX_OLD_SOCKET_AGE \in Nat /\ 2 * PORT_HOP_INTERVAL = PORT_HOP_INTERVAL + PORT_HOP_INTERVAL
    /\ Never \in Int /\ Never < 0
  BY ConnectionAssumption DEF Never

LEMMA LargestOfInterval ==
    ASSUME NEW a \in Nat, NEW b \in Nat, a <= b
    PROVE  Largest(a .. b) = b
  <1>1. b \in a .. b /\ \A m \in a .. b : m <= b
    OBVIOUS
  <1>2. Largest(a .. b) \in a .. b /\ \A m \in a .. b : m <= Largest(a .. b)
    BY <1>1, Zenon DEF Largest
  <1>. QED
    BY <1>1, <1>2

\* Pruning keeps the newest socket, and leaves it alone only when it is old enough.
LEMMA KeepFacts ==
    ASSUME NEW q \in Seq(Nat), Len(q) # 0, NEW n \in Nat \ {0}
    PROVE  /\ Keep(q, n) \in Seq(Nat) /\ Len(Keep(q, n)) \in 1 .. n
           /\ Newest(Keep(q, n)) = Newest(q)
           /\ Len(q) > 1 /\ Len(Keep(q, n)) = 1 => n = 1
  <1>1. Len(q) \in Nat
    OBVIOUS
  <1>2. CASE Len(q) > n
    <2>1. Len(q) - n + 1 \in 1 .. Len(q) + 1 /\ Len(q) \in 0 .. Len(q)
      BY <1>1, <1>2
    <2>2. Keep(q, n) = SubSeq(q, Len(q) - n + 1, Len(q))
      BY <1>2 DEF Keep
    <2>3. /\ Keep(q, n) \in Seq(Nat) /\ Len(Keep(q, n)) = n
          /\ Keep(q, n)[n] = q[Len(q)]
      BY <1>1, <1>2, <2>2
    <2>. QED
      BY <2>3 DEF Newest
  <1>3. CASE ~(Len(q) > n)
    <2>1. Keep(q, n) = q
      BY <1>3 DEF Keep
    <2>2. Len(q) \in 1 .. n
      BY <1>1, <1>3
    <2>3. Len(q) > 1 /\ Len(q) = 1 => n = 1
      BY <1>1
    <2>. QED
      BY <2>1, <2>2, <2>3, Zenon
  <1>. QED
    BY <1>2, <1>3

LEMMA PrunedFacts ==
    ASSUME NEW q \in Seq(Nat), Len(q) # 0, NEW chosen
    PROVE  /\ Pruned(q, chosen) \in Seq(Nat) /\ Len(Pruned(q, chosen)) \in 1 .. MAX_PORTS_OPEN
           /\ Newest(Pruned(q, chosen)) = Newest(q)
           /\ Len(q) > 1 /\ Len(q) <= MAX_PORTS_OPEN /\ Len(Pruned(q, chosen)) = 1 =>
                  now - chosen > MAX_OLD_SOCKET_AGE
  <1>1. 1 \in Nat \ {0} /\ MAX_PORTS_OPEN \in Nat \ {0} /\ Len(q) \in Nat
    BY Intervals
  <1>2. CASE now - chosen > MAX_OLD_SOCKET_AGE
    <2>1. Pruned(q, chosen) = Keep(q, 1)
      BY <1>2 DEF Pruned
    <2>2. Len(Keep(q, 1)) \in 1 .. MAX_PORTS_OPEN
      BY <1>1, KeepFacts
    <2>. QED
      BY <1>1, <1>2, <2>1, <2>2, KeepFacts
  <1>3. CASE ~(now - chosen > MAX_OLD_SOCKET_AGE)
    <2>1. Pruned(q, chosen) = Keep(q, MAX_PORTS_OPEN)
      BY <1>3 DEF Pruned
    <2>2. Len(q) > 1 /\ Len(q) <= MAX_PORTS_OPEN => MAX_PORTS_OPEN # 1
      BY <1>1
    <2>. QED
      BY <1>1, <2>1, <2>2, KeepFacts
  <1>. QED
    BY <1>2, <1>3

LEMMA InitUnhopped == Init => SInv
  <1>. SUFFICES ASSUME Init PROVE SInv
    OBVIOUS
  <1>. USE DEF Init
  <1>1. Client \in Endpoint /\ Server \in Endpoint
    BY DEF Endpoint
  <1>2. DOMAIN stamps = 0 .. 0 /\ stamps[0] = 0
    OBVIOUS
  <1>3. Top = 0
    <2>1. Largest(0 .. 0) = 0
      BY LargestOfInterval, 0 \in Nat, 0 <= 0
    <2>. QED
      BY <1>2, <2>1, Zenon DEF Top
  <1>4. Clocked /\ Ports /\ Queued
    BY <1>1, <1>2, <1>3, Intervals DEF Clocked, Ports, Queued
  <1>5. Packets /\ Arrived
    BY <1>1 DEF Packets, Arrived, Reached
  <1>6. Hopped
    BY <1>1, <1>2, <1>3, Intervals DEF Hopped, HopDue
  <1>. QED
    BY <1>4, <1>5, <1>6 DEF SInv

\* The client sends, and hops if it is time.
LEMMA ClientSendKeepsSockets == ASSUME Numbered, SInv, ClientSend PROVE SInv'
  <1>0. Client \in Endpoint /\ Server \in Endpoint /\ Client # Server
    BY ConstantsAreTyped
  <1>. PICK num \in SentNum :
          /\ stamps' = [n \in DOMAIN stamps \cup {num} |-> IF n = num THEN now ELSE stamps[n]]
          /\ NewPacket(Client, [num |-> num, port |-> Newest(socks)])
    BY DEF ClientSend
  <1>. DEFINE L == last_port_choice
              H == PORT_HOP_INTERVAL
  <1>1. /\ now \in Nat /\ seq[Client] \in Nat /\ L \in Nat /\ L <= now
        /\ acked \in Nat /\ Top \in Nat /\ acked <= Top
        /\ num \in Nat /\ acked < num /\ Top <= num /\ num \in {Top, Top + 1}
    <2>1. now \in Nat /\ seq[Client] \in Nat /\ L \in 0 .. now
      BY DEF SInv, Clocked
    <2>2. acked \in Nat /\ Top \in Nat /\ acked <= Top
      BY DEF SInv, Queued
    <2>3. num = Top + 1 \/ (num = Top /\ num # acked)
      <3>1. num \in {Top + 1} \cup ({Top} \ {acked})
        BY DEF SentNum, Top
      <3>. HIDE DEF Top
      <3>. QED
        BY <3>1, Zenon
    <2>4. num \in Nat /\ acked < num /\ Top <= num /\ num \in {Top, Top + 1}
      BY <2>2, <2>3
    <2>5. L \in Nat /\ L <= now
      BY <2>1
    <2>. QED
      BY <2>1, <2>2, <2>4, <2>5
  <1>2. UNCHANGED <<now, last_roundtrip_success, acked, newest, ack_num>>
    BY DEF ClientSend, server
  <1>3. /\ seq' = [seq EXCEPT ![Client] = @ + 1]
        /\ \E new : /\ net' = [net EXCEPT ![Client] = net[Client] \cup {new}]
                    /\ new.seq = seq[Client] + 1 /\ new.sent = now /\ new.payload.num = num
                    /\ new.payload.port = Newest(socks)
    <2>1. seq' = [seq EXCEPT ![Client] = @ + 1]
      BY DEF NewPacket
    <2>2. seq'[Client] = seq[Client] + 1
      BY <1>0, <2>1 DEF Numbered
    <2>. DEFINE new == [seq |-> seq'[Client], payload |-> [num |-> num, port |-> Newest(socks)],
                        timestamp |-> Timestamp16(Client), timestamp_reply |-> TimestampReply(Client),
                        sent |-> now, answers |-> IF Recent(Client) THEN saved[Client] ELSE Nothing]
    <2>3. net' = [net EXCEPT ![Client] = net[Client] \cup {new}]
      BY DEF NewPacket
    <2>4. /\ new.seq = seq[Client] + 1 /\ new.sent = now /\ new.payload.num = num
          /\ new.payload.port = Newest(socks)
      BY <2>2
    <2>. QED
      BY <2>1, <2>3, <2>4
  <1>4. PICK new : /\ net' = [net EXCEPT ![Client] = net[Client] \cup {new}]
                   /\ new.seq = seq[Client] + 1 /\ new.sent = now /\ new.payload.num = num
                   /\ new.payload.port = Newest(socks)
    BY <1>3
  <1>5. /\ seq'[Client] = seq[Client] + 1
        /\ net'[Client] = net[Client] \cup {new} /\ net'[Server] = net[Server]
    BY <1>0, <1>3, <1>4 DEF Numbered
  <1>6. DOMAIN stamps' = acked .. num
    <2>1. DOMAIN stamps = acked .. Top
      BY DEF SInv, Queued
    <2>2. (acked .. Top) \cup {num} = acked .. num
      BY <1>1
    <2>. QED
      BY <2>1, <2>2
  <1>7. Top' = num
    <2>1. Largest(acked .. num) = num
      BY <1>1, LargestOfInterval
    <2>. QED
      BY <1>6, <2>1, Zenon DEF Top
  <1>8. /\ stamps'[num] = now
        /\ \A n \in acked .. num : n # num => n \in acked .. Top /\ stamps'[n] = stamps[n]
    <2>1. \A n \in acked .. num : n # num => n \in acked .. Top
      BY <1>1
    <2>2. num \in acked .. num
      BY <1>1
    <2>. QED
      BY <1>6, <2>1, <2>2
  <1>9. \/ /\ last_port_choice' = now
           /\ socks' = Pruned(Append(socks, Newest(socks) + 1), now)
        \/ /\ UNCHANGED <<socks, last_port_choice>>
           /\ now > L + H => now <= last_roundtrip_success + H
    <2>1. last_roundtrip_success \in Int
      <3>1. acked \in acked .. Top
        BY <1>1
      <3>2. stamps[acked] \in Int
        BY <1>1, <3>1 DEF SInv, Queued
      <3>. QED
        BY <3>2, Intervals DEF SInv, Hopped
    <2>2. ~TimeToHop => (now > L + H => now <= last_roundtrip_success + H)
      BY <1>1, <2>1, Intervals DEF TimeToHop
    <2>. QED
      BY <2>2 DEF ClientSend, HopPort
  <1>10. Ports'
    <2>1. /\ socks \in Seq(Nat) /\ Len(socks) \in 1 .. MAX_PORTS_OPEN /\ Len(socks) \in Nat
          /\ Newest(socks) \in Nat
      BY Intervals DEF SInv, Ports, Newest
    <2>2. /\ Append(socks, Newest(socks) + 1) \in Seq(Nat)
          /\ Len(Append(socks, Newest(socks) + 1)) # 0
      BY <2>1
    <2>. QED
      BY <1>9, <2>1, <2>2, PrunedFacts DEF Ports
  <1>. HIDE DEF L, H
  <1>11. /\ last_port_choice' \in 0 .. now
         /\ last_port_choice' = now \/ UNCHANGED <<socks, last_port_choice>>
    BY <1>1, <1>9 DEF L
  <1>12. Clocked'
    BY <1>1, <1>2, <1>5, <1>11 DEF Clocked
  <1>13. Queued'
    <2>1. \A n \in acked .. Top : stamps[n] \in Nat /\ stamps[n] <= now
      BY <1>1 DEF SInv, Queued
    <2>2. ASSUME NEW n \in acked .. num PROVE stamps'[n] \in 0 .. now
      BY <1>1, <1>8, <2>1
    <2>3. ASSUME NEW n \in acked .. num, NEW m \in acked .. num, n <= m
          PROVE  stamps'[n] <= stamps'[m]
      <3>1. CASE m = num
        BY <1>1, <1>8, <2>2, <3>1
      <3>2. CASE m # num
        <4>1. n # num /\ n \in acked .. Top /\ m \in acked .. Top
          BY <1>1, <1>8, <2>3, <3>2
        <4>. QED
          BY <1>8, <2>3, <3>2, <4>1 DEF SInv, Queued
      <3>. QED
        BY <3>1, <3>2
    <2>4. acked <= num
      BY <1>1
    <2>. QED
      <3>1. acked \in acked .. num /\ acked # num
        BY <1>1
      <3>2. acked = 0 => stamps'[0] = 0
        BY <1>8, <3>1 DEF SInv, Queued
      <3>. QED
        BY <1>1, <1>2, <1>5, <1>6, <1>7, <2>2, <2>3, <2>4, <3>2 DEF Queued
  <1>14. Packets'
    <2>1. ASSUME NEW p \in net[Client]
          PROVE  Packet(p)' /\ p.seq \in Nat /\ p.seq <= seq[Client] /\ p.sent \in Nat /\ p.sent <= now
      <3>1. /\ p.seq \in 1 .. seq[Client] /\ p.sent \in 0 .. now /\ p.payload.num \in 0 .. Top
            /\ p.sent > last_port_choice => p.payload.port = Newest(socks)
            /\ \A n \in acked .. Top : n < p.payload.num => stamps[n] <= p.sent
        BY DEF SInv, Packets, Packet
      <3>2. /\ p.seq \in 1 .. seq[Client] + 1 /\ p.payload.num \in 0 .. num /\ ~(p.sent > now)
            /\ p.seq \in Nat /\ p.seq <= seq[Client] /\ p.sent \in Nat /\ p.sent <= now
        BY <1>1, <3>1
      <3>3. ASSUME NEW n \in acked .. num, n < p.payload.num PROVE stamps'[n] <= p.sent
        <4>1. n # num
          BY <1>1, <3>1, <3>3
        <4>. QED
          BY <1>8, <3>1, <3>3, <4>1
      <3>4. p.sent > last_port_choice' => p.payload.port = Newest(socks')
        BY <1>11, <3>1, <3>2
      <3>. QED
        BY <1>2, <1>5, <1>7, <3>1, <3>2, <3>3, <3>4 DEF Packet, Newest
    <2>2. Packet(new)'
      <3>1. /\ new.seq \in 1 .. seq[Client] + 1 /\ new.sent \in 0 .. now
            /\ new.payload.num \in 0 .. num /\ ~(new.sent > now)
        BY <1>1, <1>4
      <3>2. ASSUME NEW n \in acked .. num, n < new.payload.num PROVE stamps'[n] <= new.sent
        <4>1. stamps'[n] \in 0 .. now
          BY <1>2, <1>7, <1>13, <3>2 DEF Queued
        <4>. QED
          BY <1>1, <1>4, <4>1
      <3>3. new.sent > last_port_choice' => new.payload.port = Newest(socks')
        BY <1>4, <1>11, <3>1
      <3>. QED
        BY <1>2, <1>5, <1>7, <3>1, <3>2, <3>3 DEF Packet, Newest
    <2>3. ASSUME NEW p \in net'[Client], NEW q \in net'[Client], p.seq <= q.seq
          PROVE  p.sent <= q.sent
      <3>1. CASE q = new
        <4>1. CASE p \in net[Client]
          BY <1>4, <2>1, <3>1, <4>1
        <4>2. CASE p = new
          BY <1>1, <1>4, <3>1, <4>2
        <4>. QED
          BY <1>5, <4>1, <4>2
      <3>2. CASE q # new
        <4>1. q \in net[Client] /\ q.seq \in Nat /\ q.seq <= seq[Client]
          BY <1>5, <2>1, <3>2
        <4>2. p # new
          BY <1>1, <1>4, <2>3, <4>1
        <4>. QED
          BY <1>5, <2>3, <4>1, <4>2 DEF SInv, Packets
      <3>. QED
        BY <3>1, <3>2
    <2>. QED
      BY <1>5, <2>1, <2>2, <2>3 DEF Packets
  <1>15. Arrived'
    BY <1>2, <1>5 DEF SInv, Arrived, Reached
  <1>16. Hopped'
    <2>1. last_roundtrip_success' \in {Never, stamps'[acked']}
      <3>1. acked \in acked .. num /\ acked # num
        BY <1>1
      <3>. QED
        BY <1>2, <1>8, <3>1 DEF SInv, Hopped
    <2>2. CASE last_port_choice' = now
      <3>1. \A t \in 0 .. now : ~(t > now + PORT_HOP_INTERVAL)
        BY <1>1, Intervals
      <3>2. /\ \A p \in net'[Client] : p.sent \in 0 .. now
            /\ \A n \in acked .. num : stamps'[n] \in 0 .. now
        BY <1>1, <1>2, <1>5, <1>7, <1>13, <1>14 DEF Queued, Packets, Packet
      <3>3. /\ \A p \in net'[Client] : ~(HopDue(p.sent))'
            /\ \A n \in acked .. num : ~(HopDue(stamps[n]))'
        BY <2>2, <3>1, <3>2 DEF HopDue
      <3>. QED
        BY <1>2, <1>7, <2>1, <3>3 DEF Hopped
    <2>3. CASE /\ UNCHANGED <<socks, last_port_choice>>
               /\ now > L + H => now <= last_roundtrip_success + H
      <3>1. ASSUME NEW p \in net'[Client], (HopDue(p.sent))'
            PROVE  p.sent <= last_roundtrip_success + PORT_HOP_INTERVAL
        <4>1. CASE p = new
          BY <1>4, <2>3, <3>1, <4>1 DEF HopDue, L, H
        <4>2. CASE p \in net[Client]
          BY <2>3, <3>1, <4>2 DEF SInv, Hopped, HopDue
        <4>. QED
          BY <1>5, <4>1, <4>2
      <3>2. ASSUME now > L + H
            PROVE  last_roundtrip_success = stamps[acked] /\ stamps[acked] > L
        <4>1. now <= last_roundtrip_success + H
          BY <2>3, <3>2
        <4>2. H \in Nat /\ ~(now <= Never + H)
          BY <1>1, <3>2, Intervals DEF H
        <4>3. last_roundtrip_success = stamps[acked]
          BY <4>1, <4>2 DEF SInv, Hopped
        <4>4. acked \in acked .. Top
          BY <1>1
        <4>5. stamps[acked] \in Int
          BY <4>4 DEF SInv, Queued
        <4>. QED
          BY <1>1, <3>2, <4>1, <4>2, <4>3, <4>5
      <3>3. ASSUME NEW n \in acked .. num, (HopDue(stamps[n]))', NEW p \in net'[Client],
                   p.payload.num >= n
            PROVE  p.sent > last_port_choice
        <4>1. stamps'[n] > L + H
          BY <2>3, <3>3 DEF HopDue, L, H
        <4>2. CASE p = new
          <5>1. stamps'[n] \in 0 .. now /\ H \in Nat
            BY <1>2, <1>7, <1>13, <3>3, Intervals DEF Queued, H
          <5>2. now > L
            BY <1>1, <4>1, <5>1
          <5>. QED
            BY <1>4, <4>2, <5>2 DEF L
        <4>3. CASE p \in net[Client] /\ n # num
          BY <1>8, <3>3, <4>1, <4>3 DEF SInv, Hopped, HopDue, Fresh, L, H
        <4>4. CASE p \in net[Client] /\ n = num
          <5>1. stamps[acked] > L
            BY <1>8, <3>2, <4>1, <4>4
          <5>2. p.payload.num \in Int /\ p.sent \in Int /\ acked < p.payload.num /\ acked \in acked .. Top
            BY <1>1, <3>3, <4>4 DEF SInv, Packets, Packet
          <5>3. stamps[acked] <= p.sent /\ stamps[acked] \in Int
            BY <4>4, <5>2 DEF SInv, Packets, Packet, Queued
          <5>. QED
            BY <1>1, <5>1, <5>2, <5>3 DEF L
        <4>. QED
          BY <1>5, <4>2, <4>3, <4>4
      <3>4. \A n \in acked .. num : (HopDue(stamps[n]))' => (Fresh(n))'
        BY <2>3, <3>3 DEF Fresh
      <3>. QED
        BY <1>2, <1>7, <2>1, <3>1, <3>4 DEF Hopped
    <2>. QED
      BY <1>9, <2>2, <2>3
  <1>. QED
    BY <1>10, <1>12, <1>13, <1>14, <1>15, <1>16 DEF SInv

LEMMA ServerSendKeepsSockets == ASSUME Numbered, SInv, ServerSend PROVE SInv'
  <1>0. Client \in Endpoint /\ Server \in Endpoint /\ Client # Server
    BY ConstantsAreTyped
  <1>1. UNCHANGED <<now, socks, last_port_choice, last_roundtrip_success, stamps, acked, ack_num,
                    newest>>
    BY DEF ServerSend, client
  <1>2. /\ seq'[Client] = seq[Client] /\ net'[Client] = net[Client]
        /\ \A q \in net'[Server] : q \in net[Server] \/ q.payload.num = ack_num
    BY <1>0 DEF ServerSend, NewPacket, Numbered
  <1>3. Clocked' /\ Ports' /\ Queued' /\ Packets'
    BY <1>1, <1>2 DEF SInv, Clocked, Ports, Queued, Packets, Packet, Top
  <1>4. Arrived'
    BY <1>1, <1>2 DEF SInv, Arrived, Reached
  <1>5. Hopped'
    BY <1>1, <1>2 DEF SInv, Hopped, HopDue, Fresh, Top
  <1>. QED
    BY <1>3, <1>4, <1>5 DEF SInv

LEMMA ElapseKeepsSockets == ASSUME SInv, Elapse PROVE SInv'
  <1>1. /\ now' = now + 1
        /\ UNCHANGED <<socks, last_port_choice, last_roundtrip_success, stamps, acked, ack_num,
                       newest, seq, net>>
    BY DEF Elapse, client, server
  <1>2. now \in Nat /\ now' \in Nat /\ \A t \in 0 .. now : t \in 0 .. now'
    BY <1>1 DEF SInv, Clocked
  <1>3. Clocked' /\ Queued'
    BY <1>1, <1>2 DEF SInv, Clocked, Queued, Top
  <1>4. Packets'
    BY <1>1, <1>2 DEF SInv, Packets, Packet, Top, Newest
  <1>5. Ports' /\ Arrived' /\ Hopped'
    BY <1>1 DEF SInv, Ports, Arrived, Reached, Hopped, HopDue, Fresh, Top
  <1>. QED
    BY <1>3, <1>4, <1>5 DEF SInv

LEMMA ServerRecvKeepsSockets == ASSUME SInv, ServerRecv PROVE SInv'
  <1>1. PICK p \in net[Client] :
           /\ ack_num' = IF p.payload.num > ack_num THEN p.payload.num ELSE ack_num
           /\ newest' = IF p.seq > newest.seq THEN [seq |-> p.seq, port |-> p.payload.port]
                        ELSE newest
           /\ UNCHANGED <<now, socks, last_port_choice, last_roundtrip_success, stamps, acked,
                          seq, net>>
    BY DEF ServerRecv, client
  <1>2. p.seq \in Nat /\ p.seq # 0 /\ p.payload.num \in Nat /\ newest.seq \in Nat
    <2>1. p.seq \in 1 .. seq[Client] /\ p.payload.num \in 0 .. Top
      BY DEF SInv, Packets, Packet
    <2>2. seq[Client] \in Nat /\ Top \in Nat /\ newest.seq \in Nat
      BY DEF SInv, Clocked, Queued, Arrived
    <2>. QED
      BY <2>1, <2>2
  <1>3. /\ newest'.seq \in Nat /\ newest.seq <= newest'.seq /\ p.seq <= newest'.seq
        /\ newest' = newest \/ (newest'.seq = p.seq /\ newest'.port = p.payload.port)
    <2>1. CASE p.seq > newest.seq
      <3>1. newest'.seq = p.seq /\ newest'.port = p.payload.port
        BY <1>1, <2>1
      <3>2. newest.seq <= p.seq /\ p.seq <= p.seq
        BY <1>2, <2>1
      <3>. QED
        BY <1>2, <3>1, <3>2
    <2>2. CASE ~(p.seq > newest.seq)
      <3>1. newest' = newest
        BY <1>1, <2>2
      <3>2. newest.seq <= newest.seq /\ p.seq <= newest.seq
        BY <1>2, <2>2
      <3>. QED
        BY <1>2, <3>1, <3>2, Zenon
    <2>. QED
      BY <2>1, <2>2
  <1>4. ASSUME NEW n, Reached(n) PROVE Reached(n)'
    <2>1. CASE n = 0
      BY <2>1 DEF Reached
    <2>2. CASE n # 0
      <3>1. PICK f \in net[Client] : f.payload.num = n /\ f.seq <= newest.seq
        BY <1>4, <2>2 DEF Reached
      <3>2. f.seq \in Int
        BY DEF SInv, Packets, Packet
      <3>3. f.seq <= newest'.seq
        BY <1>2, <1>3, <3>1, <3>2
      <3>. QED
        BY <1>1, <1>4, <3>1, <3>3 DEF Reached
    <2>. QED
      BY <2>1, <2>2
  <1>5. (Reached(p.payload.num))'
    BY <1>1, <1>2, <1>3 DEF Reached
  <1>6. Arrived'
    <2>1. (Reached(acked))' /\ \A q \in net'[Server] : (Reached(q.payload.num))'
      BY <1>1, <1>4 DEF SInv, Arrived
    <2>2. (Reached(ack_num))'
      BY <1>1, <1>4, <1>5 DEF SInv, Arrived
    <2>3. newest'.seq # 0 =>
             \E f \in net[Client] : f.seq = newest'.seq /\ f.payload.port = newest'.port
      BY <1>3 DEF SInv, Arrived
    <2>. QED
      BY <1>1, <1>3, <2>1, <2>2, <2>3 DEF Arrived
  <1>7. Clocked' /\ Ports' /\ Queued' /\ Packets' /\ Hopped'
    BY <1>1 DEF SInv, Clocked, Ports, Queued, Packets, Packet, Hopped, HopDue, Fresh, Top
  <1>. QED
    BY <1>6, <1>7 DEF SInv

LEMMA ClientRecvKeepsSockets == ASSUME SInv, ClientRecv PROVE SInv'
  <1>1. PICK q \in net[Server] :
           /\ socks' = Pruned(socks, last_port_choice)
           /\ acked' = IF q.payload.num > acked THEN q.payload.num ELSE acked
           /\ stamps' = [n \in {m \in DOMAIN stamps : m >= acked'} |-> stamps[n]]
           /\ last_roundtrip_success' = stamps[acked']
           /\ UNCHANGED <<now, last_port_choice, ack_num, newest, seq, net>>
    BY DEF ClientRecv, server
  <1>2. /\ acked \in Nat /\ Top \in Nat /\ acked <= Top /\ DOMAIN stamps = acked .. Top
        /\ \A n \in acked .. Top : stamps[n] \in 0 .. now
        /\ \A n, m \in acked .. Top : n <= m => stamps[n] <= stamps[m]
    BY DEF SInv, Queued
  <1>3. Reached(q.payload.num) /\ q.payload.num \in 0 .. Top
    <2>1. Reached(q.payload.num)
      BY DEF SInv, Arrived
    <2>2. \A p \in net[Client] : p.payload.num \in 0 .. Top
      BY DEF SInv, Packets, Packet
    <2>. QED
      BY <1>2, <2>1, <2>2 DEF Reached
  <1>. PICK a : a = acked'
    OBVIOUS
  <1>4. a \in acked .. Top /\ a \in Nat /\ (a = acked \/ a = q.payload.num)
    BY <1>1, <1>2, <1>3
  <1>5. /\ DOMAIN stamps' = a .. Top
        /\ \A n \in a .. Top : n \in acked .. Top /\ stamps'[n] = stamps[n]
    <2>1. {m \in acked .. Top : m >= a} = a .. Top
      BY <1>2, <1>4
    <2>2. stamps' = [n \in a .. Top |-> stamps[n]]
      BY <1>1, <1>2, <2>1
    <2>. QED
      BY <1>2, <1>4, <2>2
  <1>6. Top' = Top
    <2>1. Largest(a .. Top) = Top
      BY <1>2, <1>4, LargestOfInterval
    <2>. QED
      BY <1>5, <2>1, Zenon DEF Top
  <1>7. Clocked' /\ Ports' /\ Newest(socks') = Newest(socks)
    <2>1. socks \in Seq(Nat) /\ Len(socks) # 0
      BY DEF SInv, Ports
    <2>2. Ports' /\ Newest(socks') = Newest(socks)
      BY <1>1, <2>1, PrunedFacts DEF Ports
    <2>. QED
      BY <1>1, <2>2 DEF SInv, Clocked
  <1>8. Queued'
    <2>1. a <= Top
      BY <1>2, <1>4
    <2>. QED
      <3>1. a \in a .. Top /\ (a = 0 => acked = 0)
        BY <1>2, <1>4, <2>1
      <3>2. a = 0 => stamps'[0] = 0
        BY <1>5, <3>1 DEF SInv, Queued
      <3>. QED
        BY <1>1, <1>2, <1>4, <1>5, <1>6, <2>1, <3>2 DEF Queued
  <1>9. Packets'
    <2>1. ASSUME NEW p \in net[Client] PROVE Packet(p)'
      <3>1. Packet(p)
        BY DEF SInv, Packets
      <3>2. \A n \in a .. Top : n < p.payload.num => stamps'[n] <= p.sent
        BY <1>5, <3>1 DEF Packet
      <3>. QED
        BY <1>1, <1>6, <1>7, <3>1, <3>2 DEF Packet
    <2>. QED
      BY <1>1, <2>1 DEF SInv, Packets
  <1>10. Arrived'
    <2>1. Reached(a)
      BY <1>3, <1>4 DEF SInv, Arrived
    <2>. QED
      BY <1>1, <2>1 DEF SInv, Arrived, Reached
  <1>11. Hopped'
    <2>1. a \in a .. Top /\ acked \in acked .. Top /\ acked <= a
      BY <1>2, <1>4
    <2>2. last_roundtrip_success' = stamps'[acked'] /\ last_roundtrip_success' = stamps[a]
      BY <1>1, <1>5, <2>1
    <2>3. ASSUME NEW p \in net[Client], HopDue(p.sent)
          PROVE  p.sent <= stamps[a] + PORT_HOP_INTERVAL
      <3>1. p.sent <= last_roundtrip_success + PORT_HOP_INTERVAL
        BY <2>3 DEF SInv, Hopped
      <3>2. p.sent \in Nat /\ last_port_choice \in Nat /\ p.sent > last_port_choice + PORT_HOP_INTERVAL
        BY <2>3 DEF SInv, Clocked, Packets, Packet, HopDue
      <3>3. last_roundtrip_success = stamps[acked]
        <4>1. last_roundtrip_success # Never
          BY <3>1, <3>2, Intervals
        <4>. QED
          BY <4>1 DEF SInv, Hopped
      <3>4. stamps[acked] <= stamps[a] /\ stamps[acked] \in Int /\ stamps[a] \in Int
        BY <1>2, <1>4, <2>1
      <3>. QED
        BY <3>1, <3>2, <3>3, <3>4, Intervals
    <2>4. \A p \in net'[Client] :
             (HopDue(p.sent))' => p.sent <= last_roundtrip_success' + PORT_HOP_INTERVAL
      BY <1>1, <2>2, <2>3 DEF HopDue
    <2>5. \A n \in a .. Top : (HopDue(stamps[n]))' => (Fresh(n))'
      BY <1>1, <1>5 DEF SInv, Hopped, HopDue, Fresh
    <2>. QED
      BY <1>6, <2>2, <2>4, <2>5 DEF Hopped
  <1>. QED
    BY <1>7, <1>8, <1>9, <1>10, <1>11 DEF SInv

LEMMA NextKeepsSockets == ASSUME Numbered, SInv, [Next]_vars PROVE SInv'
  <1>1. CASE UNCHANGED vars
    BY <1>1 DEF vars, client, server, SInv, Clocked, Ports, Queued, Packets, Packet, Arrived, Reached,
         Hopped, HopDue, Fresh, Top
  <1>2. CASE Next
    BY <1>2, ClientSendKeepsSockets, ServerSendKeepsSockets, ElapseKeepsSockets,
       ServerRecvKeepsSockets, ClientRecvKeepsSockets DEF Next
  <1>. QED
    BY <1>1, <1>2

\* The client sent two hop intervals after the last hop and did not hop again: what was
\* acknowledged by then was sent since the hop, from the newest socket, and reached the server.
LEMMA ClosedAreUnused ==
    ASSUME IInv, SInv, Next, Len(socks) > 1, Len(socks') = 1, SentLately
    PROVE  remote_addr = Newest(socks)
  <1>0. /\ socks \in Seq(Nat) /\ Len(socks) \in Nat /\ Len(socks) # 0
        /\ Len(socks) <= MAX_PORTS_OPEN /\ Newest(socks) \in Nat
    BY Intervals DEF SInv, Ports, Newest
  <1>. Len(socks) # 1
    <2>1. \A n \in Nat : n > 1 => n # 1
      OBVIOUS
    <2>. QED
      BY <1>0, <2>1, Zenon
  <1>1. CASE ClientSend
    <2>1. socks' # socks
      OBVIOUS
    <2>2. socks' = Pruned(Append(socks, Newest(socks) + 1), now)
      BY <1>1, <2>1 DEF ClientSend, HopPort
    <2>. DEFINE q == Append(socks, Newest(socks) + 1)
    <2>3. q \in Seq(Nat) /\ Len(q) > 1
      BY <1>0
    <2>4. Pruned(q, now) = Keep(q, MAX_PORTS_OPEN)
      <3>1. ~(now - now > MAX_OLD_SOCKET_AGE)
        BY Intervals DEF SInv, Clocked
      <3>. QED
        BY <3>1 DEF Pruned
    <2>. HIDE DEF q
    <2>5. Len(q) # 0 /\ MAX_PORTS_OPEN \in Nat \ {0}
      BY <2>3, Intervals
    <2>6. MAX_PORTS_OPEN = 1
      BY <2>2, <2>3, <2>4, <2>5, KeepFacts DEF q
    <2>. QED
      BY <1>0, <2>6
  <1>2. CASE ClientRecv
    <2>1. now - last_port_choice > MAX_OLD_SOCKET_AGE
      <3>1. socks' = Pruned(socks, last_port_choice)
        BY <1>2 DEF ClientRecv
      <3>. QED
        BY <1>0, <3>1, PrunedFacts
    <2>2. now \in Nat /\ last_port_choice \in Nat
      BY DEF SInv, Clocked
    <2>. PICK late \in net[Client] : now - late.sent <= MAX_OLD_SOCKET_AGE - 2 * PORT_HOP_INTERVAL
      BY DEF SentLately
    <2>. PICK t : t = late.sent
      OBVIOUS
    <2>3. t \in Nat /\ t > last_port_choice + PORT_HOP_INTERVAL + PORT_HOP_INTERVAL
      <3>1. t \in Nat
        BY <2>2 DEF SInv, Packets, Packet
      <3>. QED
        BY <2>1, <2>2, <3>1, Intervals
    <2>4. t <= last_roundtrip_success + PORT_HOP_INTERVAL
      <3>1. HopDue(t)
        BY <2>2, <2>3, Intervals DEF HopDue
      <3>. QED
        BY <3>1 DEF SInv, Hopped
    <2>5. last_roundtrip_success = stamps[acked]
      <3>1. last_roundtrip_success # Never
        BY <2>2, <2>3, <2>4, Intervals
      <3>. QED
        BY <3>1 DEF SInv, Hopped
    <2>6. acked \in acked .. Top /\ acked \in Nat /\ stamps[acked] \in Nat
      <3>1. acked \in acked .. Top /\ acked \in Nat
        BY DEF SInv, Queued
      <3>2. stamps[acked] \in 0 .. now
        BY <3>1 DEF SInv, Queued
      <3>. QED
        BY <2>2, <3>1, <3>2
    <2>7. HopDue(stamps[acked])
      BY <2>2, <2>3, <2>4, <2>5, <2>6, Intervals DEF HopDue
    <2>8. Fresh(acked)
      BY <2>6, <2>7 DEF SInv, Hopped
    <2>9. acked # 0
      <3>1. stamps[acked] # 0
        BY <2>2, <2>6, <2>7, Intervals DEF HopDue
      <3>. QED
        BY <3>1 DEF SInv, Queued
    <2>10. PICK p \in net[Client] : p.payload.num = acked /\ p.seq <= newest.seq
      BY <2>9 DEF SInv, Arrived, Reached
    <2>11. p.sent > last_port_choice
      BY <2>6, <2>8, <2>10 DEF Fresh
    <2>12. newest.seq # 0
      <3>1. p.seq \in 1 .. seq[Client] /\ seq[Client] \in Nat /\ newest.seq \in Nat
        BY DEF SInv, Clocked, Packets, Packet, Arrived
      <3>. QED
        BY <2>10, <3>1
    <2>13. PICK f \in net[Client] : f.seq = newest.seq /\ f.payload.port = newest.port
      BY <2>12 DEF SInv, Arrived
    <2>14. f.sent > last_port_choice
      <3>1. p.sent <= f.sent
        BY <2>10, <2>13 DEF SInv, Packets
      <3>2. p.sent \in Nat /\ f.sent \in Nat
        BY <2>2 DEF SInv, Packets, Packet
      <3>. QED
        BY <2>2, <2>11, <3>1, <3>2
    <2>15. newest.port = Newest(socks)
      BY <2>13, <2>14 DEF SInv, Packets, Packet
    <2>. QED
      BY <2>15 DEF IInv, ServerFollowsClient
  <1>3. CASE ServerSend \/ Elapse \/ ServerRecv
    <2>1. socks' = socks
      BY <1>3 DEF ServerSend, Elapse, ServerRecv, client
    <2>. QED
      BY <2>1, Zenon
  <1>. QED
    BY <1>1, <1>2, <1>3 DEF Next

\* When prune_sockets (network.cc) closes the old sockets for their age, and the client was not
\* held up, the server answers to the newest: for any intervals, clocks, losses and orders of packets.
THEOREM OldSocketsAreUnused == Spec => SocketsClosedAreUnused
  <1>1. IInv /\ SInv /\ [Next]_vars => SInv'
    BY NextKeepsSockets DEF IInv
  <1>2. IInv /\ SInv /\ [Next]_vars =>
            [Len(socks) > 1 /\ Len(socks') = 1 /\ SentLately => remote_addr = Newest(socks)]_vars
    BY ClosedAreUnused
  <1>. QED
    BY InitHolds, NextKeeps, InitUnhopped, <1>1, <1>2, PTL DEF Spec, SocketsClosedAreUnused
=============================================================================
