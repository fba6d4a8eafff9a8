-------------------------- MODULE SenderTimersProofs --------------------------
(***************************************************************************)
(* The timers keep their promises for any intervals, any path, any limits  *)
(* of the queue with 3 <= CullBack <= SentLimit, and any bounds.           *)
(*                                                                         *)
(* sent_states stays sorted by timestamp, whatever is culled, acknowledged *)
(* or sent again (Queue), so the states still recent are the last ones.    *)
(* The other facts say which deadline each timer was computed from: no     *)
(* recomputation puts next_ack_time off (AckTimer), not even for data      *)
(* heard since (DataTimer), and mindelay_clock runs from when the change   *)
(* was made (ChangeTimer).                                                 *)
(***************************************************************************)
EXTENDS SenderTimers, SequenceTheorems, FiniteSetTheorems, TLAPS

SentEntry == [timestamp : Nat, state : State, final : BOOLEAN]

TypeOK ==
    /\ now \in 0 .. MaxTime /\ current \in State /\ sent \in Seq(SentEntry)
    /\ {next_ack_time, next_send_time, mindelay_clock, last_heard, shutdown_start,
        shutdown_tries, errors, slept, last_send, data_heard, unsent} \subseteq Nat
    /\ {pending_data_ack, peer_final, peer_final_acked} \subseteq BOOLEAN
    /\ rtt \in Rtt
    /\ phase \in {"loop", "network", "input", "done"}

\* A queue of sent states whose last was sent at t or before.
Queue(q, t) ==
    /\ q \in Seq(SentEntry) /\ Len(q) >= 1
    /\ \A i, j \in 1 .. Len(q) : i <= j => q[i].timestamp <= q[j].timestamp
    /\ q[Len(q)].timestamp <= t

PastOrNever ==
    \A t \in {last_send, data_heard, unsent, shutdown_start, mindelay_clock} :
        t = Never \/ t <= now

FirstOrNextAck == IF last_send = Never THEN 0 ELSE last_send + ACK_INTERVAL

AckTimer == next_ack_time <= Deadline(FirstOrNextAck)

DataTimer ==
    data_heard # Never =>
        /\ pending_data_ack
        /\ \/ next_ack_time <= Deadline(data_heard + ACK_DELAY)
           \/ phase \in {"input", "done"} /\ data_heard = now

ChangeTimer ==
    unsent # Never =>
        /\ current # LastSent.state /\ current # Known.state
        /\ \/ mindelay_clock <= unsent
           \/ phase \in {"input", "done"} /\ unsent = now

ShutdownTimer ==
    ShuttingDown /\ phase # "done" =>
        LastSent.timestamp < shutdown_start + ACTIVE_RETRY_TIMEOUT

Timers == PastOrNever /\ AckTimer /\ DataTimer /\ ChangeTimer /\ ShutdownTimer

Promises == NeverSilent /\ DataIsAckedSoon /\ ChangeIsSentSoon /\ NoSpin /\ ShutdownEnds

IInv == TypeOK /\ Queue(sent, now) /\ Timers /\ Promises

-----------------------------------------------------------------------------
(* The intervals, and the clock *)

\* A set of numbers below a bound has a largest one: the upper parts of a finite
\* set are well-founded by inclusion.
LEMMA LargestNum ==
    ASSUME NEW n \in Nat, NEW T, T \subseteq 0 .. n, T # {}
    PROVE  \E a \in T : \A b \in T : b <= a
  <1>. DEFINE Above(t) == {b \in T : t <= b}
              Family == {Above(t) : t \in T}
  <1>1. IsFiniteSet(T)
    <2>1. IsFiniteSet(0 .. n)
      BY FS_Interval, 0 \in Int, n \in Int
    <2>. QED
      BY <2>1, FS_Subset
  <1>2. Family # {} /\ Family \subseteq FiniteSubsetsOf(T)
    <2>1. ASSUME NEW t \in T PROVE Above(t) \in FiniteSubsetsOf(T)
      BY <1>1, FS_Subset, Above(t) \subseteq T DEF FiniteSubsetsOf
    <2>. QED
      BY <2>1
  <1>3. PICK least \in Family : \A f \in Family : <<f, least>> \notin StrictSubsetOrdering(T)
    BY <1>1, <1>2, FS_StrictSubsetOrderingWellFounded, WFMin
  <1>4. PICK a \in T : least = Above(a)
    OBVIOUS
  <1>5. ASSUME NEW b \in T, a < b PROVE FALSE
    <2>1. Above(b) \subseteq Above(a) /\ Above(b) # Above(a)
      <3>1. \A c \in T : c \in Nat
        OBVIOUS
      <3>2. a \in Above(a) /\ a \notin Above(b)
        BY <1>5, <3>1
      <3>3. \A c \in T : b <= c => a <= c
        BY <1>5, <3>1
      <3>. QED
        BY <3>2, <3>3
    <2>2. <<Above(b), Above(a)>> \in StrictSubsetOrdering(T)
      BY <2>1 DEF StrictSubsetOrdering
    <2>. QED
      BY <1>3, <1>4, <2>2
  <1>. QED
    BY <1>5

LEMMA ConstantFacts ==
    /\ SEND_MINDELAY \in Nat /\ ACK_INTERVAL \in Nat /\ ACK_DELAY \in Nat
    /\ ACTIVE_RETRY_TIMEOUT \in Nat /\ SHUTDOWN_RETRIES \in Nat /\ ErrorSleep \in Nat
    /\ 0 < SEND_MINDELAY /\ 0 < ACK_INTERVAL /\ 0 < ACK_DELAY /\ 0 < ACTIVE_RETRY_TIMEOUT
    /\ SentLimit \in Nat /\ CullBack \in Nat /\ 3 <= CullBack /\ CullBack <= SentLimit
    /\ MaxTime \in Nat /\ Never \in Nat /\ MaxTime + ACK_INTERVAL < Never
    /\ \A r \in Rtt : /\ r.interval \in Nat /\ 0 < r.interval /\ r.interval < ACK_INTERVAL
                      /\ r.timeout \in Nat
  <1>1. {SEND_MINDELAY, ACK_INTERVAL, ACK_DELAY, ACTIVE_RETRY_TIMEOUT, SHUTDOWN_RETRIES,
         ErrorSleep, SentLimit, CullBack} \subseteq Nat \ {0}
    BY TimingAssumption
  <1>2. /\ 3 <= CullBack /\ CullBack <= SentLimit /\ MaxTime \in Nat
        /\ \A r \in Rtt : /\ r.interval \in Nat \ {0} /\ r.timeout \in Nat \ {0}
                          /\ r.interval < ACK_INTERVAL
    BY TimingAssumption
  <1>. QED
    BY <1>1, <1>2 DEF Never

LEMMA SlowestFacts ==
    Rtt # {} => SlowestInterval \in Nat /\ \A r \in Rtt : r.interval <= SlowestInterval
  <1>. DEFINE T == {r.interval : r \in Rtt}
  <1>. SUFFICES ASSUME Rtt # {}
                PROVE  SlowestInterval \in Nat /\ \A r \in Rtt : r.interval <= SlowestInterval
    OBVIOUS
  <1>1. \E a \in T : \A b \in T : b <= a
    BY LargestNum, ConstantFacts, T \subseteq 0 .. ACK_INTERVAL, T # {}
  <1>2. SlowestInterval \in T /\ \A r \in Rtt : r.interval <= SlowestInterval
    BY <1>1 DEF SlowestInterval
  <1>. QED
    BY <1>2, ConstantFacts

-----------------------------------------------------------------------------
(* The queue *)

\* process_acknowledgment_through leaves a suffix.
LEMMA SuffixIsQueue ==
    ASSUME NEW t \in Nat, NEW q, Queue(q, t), NEW i \in 1 .. Len(q)
    PROVE  /\ Queue(SubSeq(q, i, Len(q)), t)
           /\ Last(SubSeq(q, i, Len(q))) = Last(q)
  <1>. DEFINE r == SubSeq(q, i, Len(q))
  <1>1. Len(q) \in Nat /\ \A j \in 1 .. Len(q) : q[j] \in SentEntry
    BY DEF Queue
  <1>2. /\ r \in Seq(SentEntry) /\ Len(r) = Len(q) - i + 1
        /\ \A j \in 1 .. Len(r) : r[j] = q[i + j - 1]
    BY <1>1, SubSeqProperties
  <1>3. Last(r) = Last(q)
    BY <1>1, <1>2 DEF Last
  <1>4. \A j, k \in 1 .. Len(r) : j <= k => r[j].timestamp <= r[k].timestamp
    <2>. SUFFICES ASSUME NEW j \in 1 .. Len(r), NEW k \in 1 .. Len(r), j <= k
                  PROVE  r[j].timestamp <= r[k].timestamp
      OBVIOUS
    <2>1. /\ r[j] = q[i + j - 1] /\ r[k] = q[i + k - 1]
          /\ i + j - 1 \in 1 .. Len(q) /\ i + k - 1 \in 1 .. Len(q)
          /\ i + j - 1 <= i + k - 1
      BY <1>1, <1>2
    <2>. QED
      BY <2>1 DEF Queue
  <1>5. r[Len(r)] = q[Len(q)] /\ Len(r) >= 1
    BY <1>1, <1>2
  <1>. HIDE DEF r
  <1>6. Queue(r, t)
    BY <1>2, <1>4, <1>5 DEF Queue
  <1>. QED
    BY <1>3, <1>6 DEF r

LEMMA RemovedAt ==
    ASSUME NEW S, NEW q \in Seq(S), NEW i \in 1 .. Len(q)
    PROVE  /\ RemoveAt(q, i) \in Seq(S) /\ Len(RemoveAt(q, i)) = Len(q) - 1
           /\ \A j \in 1 .. Len(q) - 1 :
                 RemoveAt(q, i)[j] = IF j < i THEN q[j] ELSE q[j + 1]
  <1>. DEFINE a == SubSeq(q, 1, i - 1)
              b == SubSeq(q, i + 1, Len(q))
  <1>1. Len(q) \in Nat /\ \A j \in 1 .. Len(q) : q[j] \in S
    OBVIOUS
  <1>2. a \in Seq(S) /\ Len(a) = i - 1 /\ \A j \in 1 .. i - 1 : a[j] = q[j]
    BY <1>1, SubSeqProperties
  <1>3. b \in Seq(S) /\ Len(b) = Len(q) - i /\ \A j \in 1 .. Len(q) - i : b[j] = q[i + j]
    BY <1>1, SubSeqProperties
  <1>4. RemoveAt(q, i) = a \o b
    BY DEF RemoveAt
  <1>. HIDE DEF a, b
  <1>5. /\ a \o b \in Seq(S) /\ Len(a \o b) = Len(a) + Len(b)
        /\ \A j \in 1 .. Len(a) + Len(b) :
              (a \o b)[j] = IF j <= Len(a) THEN a[j] ELSE b[j - Len(a)]
    BY <1>2, <1>3, ConcatProperties
  <1>. QED
    BY <1>1, <1>2, <1>3, <1>4, <1>5

\* add_sent_state: a cull removes neither the front nor the state just added.
LEMMA AddedIsQueue ==
    ASSUME NEW t \in Nat, NEW q, Queue(q, t), NEW e \in SentEntry, e.timestamp = t
    PROVE  /\ Queue(AddSentState(q, e), t)
           /\ Last(AddSentState(q, e)) = e /\ Head(AddSentState(q, e)) = Head(q)
           /\ Len(AddSentState(q, e)) > 1
  <1>. DEFINE g == Append(q, e)
              i == Len(g) - CullBack + 1
              r == RemoveAt(g, i)
  <1>. USE ConstantFacts
  <1>1. Len(q) \in Nat /\ Len(q) >= 1 /\ \A j \in 1 .. Len(q) : q[j] \in SentEntry
    BY DEF Queue
  <1>2. /\ g \in Seq(SentEntry) /\ Len(g) = Len(q) + 1 /\ g[Len(g)] = e
        /\ \A j \in 1 .. Len(q) : g[j] = q[j]
    BY <1>1, AppendProperties DEF Queue
  <1>3. \A j, k \in 1 .. Len(g) : j <= k => g[j].timestamp <= g[k].timestamp
    <2>. SUFFICES ASSUME NEW j \in 1 .. Len(g), NEW k \in 1 .. Len(g), j <= k
                  PROVE  g[j].timestamp <= g[k].timestamp
      OBVIOUS
    <2>1. CASE k <= Len(q)
      BY <1>1, <1>2, <2>1 DEF Queue
    <2>2. CASE k = Len(g) /\ j <= Len(q)
      <3>1. q[j].timestamp <= q[Len(q)].timestamp /\ q[Len(q)].timestamp <= t
        BY <1>1, <2>2 DEF Queue
      <3>2. q[j].timestamp \in Nat /\ q[Len(q)].timestamp \in Nat
        BY <1>1, <2>2 DEF SentEntry
      <3>. QED
        BY <1>2, <2>2, <3>1, <3>2
    <2>3. CASE j = Len(g)
      BY <1>1, <1>2, <2>3 DEF SentEntry
    <2>. QED
      BY <1>1, <1>2, <2>1, <2>2, <2>3
  <1>4. CASE Len(g) <= SentLimit
    <2>1. AddSentState(q, e) = g
      BY <1>2, <1>4, <1>1 DEF AddSentState
    <2>. QED
      BY <1>1, <1>2, <1>3, <2>1 DEF Queue, Last
  <1>5. CASE Len(g) > SentLimit
    <2>1. AddSentState(q, e) = r
      BY <1>5 DEF AddSentState
    <2>2. i \in Int /\ 2 <= i /\ i <= Len(g) - 2
      BY <1>1, <1>2, <1>5
    <2>3. i \in 1 .. Len(g)
      BY <1>1, <1>2, <2>2
    <2>. HIDE DEF g, i
    <2>5. /\ r \in Seq(SentEntry) /\ Len(r) = Len(g) - 1
          /\ \A j \in 1 .. Len(g) - 1 : r[j] = IF j < i THEN g[j] ELSE g[j + 1]
      <3>1. g \in Seq(SentEntry)
        BY <1>2
      <3>. QED
        BY <2>3, <3>1, RemovedAt
    <2>. HIDE DEF r
    <2>6. \A j, k \in 1 .. Len(r) : j <= k => r[j].timestamp <= r[k].timestamp
      <3>. SUFFICES ASSUME NEW j \in 1 .. Len(r), NEW k \in 1 .. Len(r), j <= k
                    PROVE  r[j].timestamp <= r[k].timestamp
        OBVIOUS
      <3>. DEFINE Old(m) == IF m < i THEN m ELSE m + 1
      <3>1. /\ r[j] = g[Old(j)] /\ r[k] = g[Old(k)]
            /\ Old(j) \in 1 .. Len(g) /\ Old(k) \in 1 .. Len(g) /\ Old(j) <= Old(k)
        BY <1>1, <1>2, <2>2, <2>5
      <3>. QED
        BY <1>3, <3>1
    <2>7. r[Len(r)] = e /\ r[1] = q[1] /\ Len(r) > 1
      BY <1>1, <1>2, <2>2, <2>5
    <2>8. r # <<>> /\ q # <<>> /\ Head(r) = r[1] /\ Head(q) = q[1]
      BY <1>1, <2>5, <2>7 DEF Queue
    <2>. QED
      BY <2>1, <2>5, <2>6, <2>7, <2>8 DEF Queue, Last
  <1>. QED
    BY <1>1, <1>2, <1>4, <1>5

\* send_to_receiver, when the last state is sent again
LEMMA ResentIsQueue ==
    ASSUME NEW t \in Nat, NEW q, Queue(q, t)
    PROVE  LET r == [q EXCEPT ![Len(q)].timestamp = t]
           IN  /\ Queue(r, t) /\ Len(r) = Len(q)
               /\ Last(r) = [Last(q) EXCEPT !.timestamp = t]
               /\ Head(r).state = Head(q).state
  <1>. DEFINE r == [q EXCEPT ![Len(q)].timestamp = t]
              e == [q[Len(q)] EXCEPT !.timestamp = t]
  <1>1. /\ Len(q) \in Nat /\ Len(q) >= 1 /\ \A j \in 1 .. Len(q) : q[j] \in SentEntry
        /\ q \in Seq(SentEntry)
    BY DEF Queue
  <1>2. e \in SentEntry /\ e.timestamp = t /\ e.state = q[Len(q)].state
    BY <1>1 DEF SentEntry
  <1>3. r = [q EXCEPT ![Len(q)] = e]
    BY <1>1
  <1>4. /\ r \in Seq(SentEntry) /\ Len(r) = Len(q)
        /\ \A j \in 1 .. Len(q) : r[j] = IF j = Len(q) THEN e ELSE q[j]
    BY <1>1, <1>2, <1>3, ExceptSeq
  <1>5. \A j, k \in 1 .. Len(r) : j <= k => r[j].timestamp <= r[k].timestamp
    <2>. SUFFICES ASSUME NEW j \in 1 .. Len(r), NEW k \in 1 .. Len(r), j <= k
                  PROVE  r[j].timestamp <= r[k].timestamp
      OBVIOUS
    <2>1. q[j].timestamp <= q[k].timestamp /\ q[j].timestamp <= q[Len(q)].timestamp
      BY <1>1, <1>4 DEF Queue
    <2>2. q[j].timestamp \in Nat /\ q[k].timestamp \in Nat
          /\ q[Len(q)].timestamp \in Nat /\ q[Len(q)].timestamp <= t
      BY <1>1, <1>4 DEF SentEntry, Queue
    <2>. QED
      BY <1>1, <1>2, <1>4, <2>1, <2>2
  <1>6. r # <<>> /\ q # <<>> /\ Head(r) = r[1] /\ Head(q) = q[1]
    BY <1>1, <1>4
  <1>. HIDE DEF r, e
  <1>7. Last(r) = e
    BY <1>1, <1>4 DEF Last
  <1>8. Head(r).state = Head(q).state
    BY <1>1, <1>2, <1>4, <1>6
  <1>9. Queue(r, t)
    BY <1>1, <1>2, <1>4, <1>5 DEF Queue
  <1>. QED
    BY <1>4, <1>7, <1>8, <1>9 DEF r, e, Last

-----------------------------------------------------------------------------
(* What the timers say in a state of the invariant *)

LEMMA QueueLater ==
    ASSUME NEW q, NEW t \in Nat, NEW u \in Nat, t <= u, Queue(q, t) PROVE Queue(q, u)
  <1>1. q \in Seq(SentEntry) /\ Len(q) >= 1 /\ q[Len(q)].timestamp <= t
    BY DEF Queue
  <1>2. q[Len(q)].timestamp \in Nat
    <2>1. Len(q) \in 1 .. Len(q)
      BY <1>1
    <2>2. q[Len(q)] \in SentEntry
      BY <1>1, <2>1
    <2>. QED
      BY <2>2 DEF SentEntry
  <1>3. q[Len(q)].timestamp <= u
    BY <1>1, <1>2
  <1>. QED
    BY <1>3 DEF Queue

LEMMA QueueFacts ==
    ASSUME IInv
    PROVE  /\ Len(sent) \in Nat /\ Len(sent) >= 1 /\ DOMAIN sent = 1 .. Len(sent)
           /\ \A i \in 1 .. Len(sent) : sent[i] \in SentEntry
           /\ Known = sent[1] /\ LastSent = sent[Len(sent)]
           /\ Known \in SentEntry /\ LastSent \in SentEntry
  <1>1. TypeOK /\ Queue(sent, now)
    BY DEF IInv
  <1>2. /\ Len(sent) \in Nat /\ Len(sent) >= 1 /\ DOMAIN sent = 1 .. Len(sent)
        /\ \A i \in 1 .. Len(sent) : sent[i] \in SentEntry
    BY <1>1 DEF Queue
  <1>3. sent # <<>> /\ Known = sent[1] /\ LastSent = sent[Len(sent)]
    BY <1>2 DEF Known, LastSent, Last
  <1>. QED
    BY <1>2, <1>3

LEMMA Numbers ==
    ASSUME IInv
    PROVE  /\ now \in Nat /\ now <= MaxTime /\ now < Never
           /\ next_ack_time \in Nat /\ next_send_time \in Nat /\ mindelay_clock \in Nat
           /\ last_heard \in Nat /\ shutdown_start \in Nat /\ shutdown_tries \in Nat
           /\ errors \in Nat /\ slept \in Nat
           /\ last_send \in Nat /\ data_heard \in Nat /\ unsent \in Nat
           /\ rtt.interval \in Nat /\ rtt.timeout \in Nat /\ 0 < rtt.interval
           /\ SlowestInterval \in Nat /\ rtt.interval <= SlowestInterval
           /\ LastSent.timestamp \in Nat /\ LastSent.timestamp <= now
  <1>1. TypeOK /\ Queue(sent, now)
    BY DEF IInv
  <1>2. /\ now \in Nat /\ now <= MaxTime /\ now < Never
    BY <1>1, ConstantFacts DEF TypeOK
  <1>3. /\ rtt.interval \in Nat /\ rtt.timeout \in Nat /\ 0 < rtt.interval
        /\ SlowestInterval \in Nat /\ rtt.interval <= SlowestInterval
    BY <1>1, ConstantFacts, SlowestFacts DEF TypeOK
  <1>4. LastSent.timestamp \in Nat /\ LastSent.timestamp <= now
    BY <1>1, QueueFacts DEF Queue, SentEntry
  <1>. QED
    BY <1>1, <1>2, <1>3, <1>4 DEF TypeOK

\* The numbers among the constants
LEMMA Widths ==
    /\ SEND_MINDELAY \in Nat /\ ACK_INTERVAL \in Nat /\ ACK_DELAY \in Nat
    /\ ACTIVE_RETRY_TIMEOUT \in Nat /\ SHUTDOWN_RETRIES \in Nat /\ ErrorSleep \in Nat
    /\ 0 < SEND_MINDELAY /\ 0 < ACK_INTERVAL /\ 0 < ACK_DELAY /\ 0 < ACTIVE_RETRY_TIMEOUT
    /\ MaxTime \in Nat /\ Never \in Nat /\ MaxTime + ACK_INTERVAL < Never
  BY ConstantFacts

LEMMA Extremes ==
    \A a, b \in Nat :
        /\ Larger(a, b) \in Nat /\ a <= Larger(a, b) /\ b <= Larger(a, b)
        /\ \A c \in Nat : a <= c /\ b <= c => Larger(a, b) <= c
        /\ Smaller(a, b) \in Nat /\ Smaller(a, b) <= a /\ Smaller(a, b) <= b
        /\ \A c \in Nat : c < a /\ c < b => c < Smaller(a, b)
  BY DEF Larger, Smaller

\* The states still recent are the last ones.
LEMMA AssumedFacts ==
    ASSUME IInv
    PROVE  /\ Assumed \in {1, Len(sent)}
           /\ Assumed # 1 => Recent(Len(sent))
  <1>. DEFINE P(i) == (\A j \in 2 .. i : Recent(j)) /\ (i < Len(sent) => ~Recent(i + 1))
  <1>1. ASSUME NEW i \in 2 .. Len(sent), NEW j \in i .. Len(sent), Recent(i) PROVE Recent(j)
    <2>1. /\ i \in 1 .. Len(sent) /\ j \in 1 .. Len(sent) /\ i <= j
      BY QueueFacts
    <2>2. /\ sent[i].timestamp \in Nat /\ sent[j].timestamp \in Nat
          /\ sent[i].timestamp <= sent[j].timestamp
      BY <2>1, QueueFacts DEF IInv, Queue, SentEntry
    <2>3. now - sent[i].timestamp < rtt.timeout + ACK_DELAY
      BY <1>1 DEF Recent
    <2>4. now \in Nat /\ rtt.timeout \in Nat /\ ACK_DELAY \in Nat
      BY Numbers, Widths
    <2>5. now - sent[j].timestamp < rtt.timeout + ACK_DELAY
      BY <2>2, <2>3, <2>4
    <2>. QED
      BY <2>5 DEF Recent
  <1>2. \E i \in DOMAIN sent : P(i)
    <2>1. CASE Len(sent) >= 2 /\ Recent(2)
      <3>1. P(Len(sent)) /\ Len(sent) \in DOMAIN sent
        BY <1>1, <2>1, QueueFacts
      <3>. QED
        BY <3>1
    <2>2. CASE ~(Len(sent) >= 2 /\ Recent(2))
      <3>1. P(1) /\ 1 \in DOMAIN sent
        BY <2>2, QueueFacts
      <3>. QED
        BY <3>1
    <2>. QED
      BY <2>1, <2>2
  <1>3. Assumed \in DOMAIN sent /\ P(Assumed)
    BY <1>2 DEF Assumed
  <1>. HIDE DEF P
  <1>4. Assumed \in 1 .. Len(sent)
    BY <1>3, QueueFacts
  <1>5. ASSUME Assumed # 1, Assumed # Len(sent) PROVE FALSE
    <2>. Len(sent) \in Nat
      BY QueueFacts
    <2>1. Assumed \in 2 .. Len(sent) - 1 /\ Assumed + 1 \in Assumed .. Len(sent)
          /\ Assumed \in 2 .. Assumed /\ Assumed \in 2 .. Len(sent)
      BY <1>4, <1>5
    <2>. QED
      BY <1>1, <1>3, <2>1 DEF P
  <1>6. ASSUME Assumed # 1 PROVE Recent(Len(sent))
    BY <1>3, <1>4, <1>5, <1>6, QueueFacts DEF P
  <1>. QED
    BY <1>5, <1>6

LEMMA NextAckFacts ==
    ASSUME IInv
    PROVE  /\ NextAckTime \in Nat
           /\ NextAckTime <= Deadline(FirstOrNextAck)
           /\ data_heard # Never => NextAckTime <= Deadline(data_heard + ACK_DELAY)
  <1>. USE Numbers, Widths
  <1>1. CASE ShuttingDown \/ peer_final
    <2>1. NextAckTime = LastSent.timestamp + rtt.interval
      BY <1>1 DEF NextAckTime
    <2>. QED
      BY <1>1, <2>1 DEF Deadline, Larger, FirstOrNextAck
  <1>2. CASE ~(ShuttingDown \/ peer_final)
    <2>1. /\ next_ack_time <= FirstOrNextAck
          /\ data_heard # Never =>
                 /\ pending_data_ack
                 /\ next_ack_time <= data_heard + ACK_DELAY \/ data_heard = now
      BY <1>2 DEF IInv, Timers, AckTimer, DataTimer, Deadline
    <2>2. NextAckTime = IF pending_data_ack THEN Smaller(next_ack_time, now + ACK_DELAY)
                        ELSE next_ack_time
      BY <1>2 DEF NextAckTime
    <2>3. FirstOrNextAck \in Nat
      BY DEF FirstOrNextAck
    <2>. QED
      BY <1>2, <2>1, <2>2, <2>3 DEF Deadline, Smaller
  <1>. QED
    BY <1>1, <1>2

LEMMA NextSendFacts ==
    ASSUME IInv
    PROVE  /\ NextSendTime \in Nat /\ MindelayClock \in Nat
           /\ MindelayClock = Never \/ MindelayClock <= now
           /\ unsent # Never =>
                  /\ MindelayClock <= unsent
                  /\ NextSendTime <= Larger(unsent + SEND_MINDELAY,
                                            LastSent.timestamp + SlowestInterval)
  <1>. DEFINE collected == IF MindelayClock = Never THEN 0 ELSE MindelayClock + SEND_MINDELAY
              interval_passed == LastSent.timestamp + rtt.interval
              bound == Larger(unsent + SEND_MINDELAY, LastSent.timestamp + SlowestInterval)
  <1>1. /\ now \in Nat /\ Never \in Nat /\ mindelay_clock \in Nat /\ now < Never
        /\ mindelay_clock = Never \/ mindelay_clock <= now
        /\ unsent = Never \/ unsent <= now
    BY Numbers, Widths DEF IInv, Timers, PastOrNever
  <1>2. MindelayClock \in Nat /\ (MindelayClock = Never \/ MindelayClock <= now)
    BY <1>1 DEF MindelayClock
  <1>3. /\ LastSent.timestamp \in Nat /\ rtt.interval \in Nat /\ rtt.timeout \in Nat
        /\ SEND_MINDELAY \in Nat /\ ACK_DELAY \in Nat /\ unsent \in Nat
        /\ SlowestInterval \in Nat /\ rtt.interval <= SlowestInterval
    BY Numbers, Widths
  <1>4. /\ NextSendTime \in {Larger(collected, interval_passed),
                             LastSent.timestamp + rtt.timeout + ACK_DELAY, Never}
        /\ current # LastSent.state => NextSendTime = Larger(collected, interval_passed)
    BY DEF NextSendTime
  <1>5. collected \in Nat /\ interval_passed \in Nat
    BY <1>2, <1>3
  <1>6. /\ unsent + SEND_MINDELAY \in Nat /\ LastSent.timestamp + SlowestInterval \in Nat
        /\ interval_passed <= LastSent.timestamp + SlowestInterval
    BY <1>3
  <1>7. ASSUME unsent # Never PROVE MindelayClock <= unsent /\ NextSendTime <= bound
    <2>1. current # LastSent.state /\ (mindelay_clock <= unsent \/ unsent = now)
      BY <1>7 DEF IInv, Timers, ChangeTimer
    <2>2. MindelayClock <= unsent /\ MindelayClock # Never
      BY <1>1, <1>3, <1>7, <2>1 DEF MindelayClock
    <2>3. collected <= unsent + SEND_MINDELAY
      BY <1>2, <1>3, <2>2
    <2>. HIDE DEF collected, interval_passed
    <2>4. Larger(collected, interval_passed) <= bound
      BY <1>5, <1>6, <2>3 DEF Larger
    <2>. QED
      BY <1>4, <2>1, <2>2, <2>4
  <1>8. NextSendTime \in Nat
    <2>. HIDE DEF collected, interval_passed
    <2>1. Larger(collected, interval_passed) \in Nat
      BY <1>5 DEF Larger
    <2>2. LastSent.timestamp + rtt.timeout + ACK_DELAY \in Nat
      BY <1>3
    <2>. QED
      BY <1>1, <1>4, <2>1, <2>2
  <1>. QED
    BY <1>2, <1>7, <1>8

LEMMA DeadlineFacts ==
    ASSUME IInv
    PROVE  /\ FirstOrNextAck \in Nat
           /\ \A t \in Nat : Deadline(t) \in Nat /\ t <= Deadline(t)
  <1>1. FirstOrNextAck \in Nat
    BY Numbers, Widths DEF FirstOrNextAck
  <1>2. LastSent.timestamp + SlowestInterval \in Nat
    BY Numbers
  <1>. QED
    BY <1>1, <1>2 DEF Deadline, Larger

-----------------------------------------------------------------------------
(* The actions *)

LEMMA SameBounds ==
    ASSUME UNCHANGED <<sent, shutdown_start, peer_final, last_send>>
    PROVE  /\ LastSent' = LastSent /\ Known' = Known /\ ShuttingDown' = ShuttingDown
           /\ FirstOrNextAck' = FirstOrNextAck
           /\ \A t : Deadline(t)' = Deadline(t)
  <1>1. /\ LastSent' = LastSent /\ Known' = Known /\ ShuttingDown' = ShuttingDown
        /\ FirstOrNextAck' = FirstOrNextAck
    BY DEF LastSent, Known, ShuttingDown, FirstOrNextAck
  <1>. QED
    BY <1>1 DEF Deadline

LEMMA SelectKeeps == ASSUME IInv, Select PROVE IInv'
  <1>1. UNCHANGED <<current, sent, pending_data_ack, last_heard, shutdown_start, shutdown_tries,
                    peer_final, peer_final_acked, rtt, errors, slept, last_send, data_heard,
                    unsent>>
    BY DEF Select, counters, history
  <1>2. /\ LastSent' = LastSent /\ Known' = Known /\ ShuttingDown' = ShuttingDown
        /\ FirstOrNextAck' = FirstOrNextAck /\ \A t : Deadline(t)' = Deadline(t)
    BY <1>1, SameBounds
  <1>3. /\ phase = "loop" /\ phase' = "network" /\ next_ack_time' = NextAckTime
        /\ next_send_time' = NextSendTime /\ mindelay_clock' = MindelayClock
    BY DEF Select
  <1>4. /\ now' \in Nat /\ now <= now' /\ now' <= MaxTime
        /\ now' = now \/ (now' <= NextAckTime /\ now' <= NextSendTime)
    <2>1. now' \in now .. Smaller(NextWakeup, MaxTime)
      BY DEF Select
    <2>2. now \in Nat /\ MaxTime \in Nat /\ NextAckTime \in Nat /\ NextSendTime \in Nat
      BY Numbers, Widths, NextAckFacts, NextSendFacts
    <2>. QED
      BY <2>1, <2>2 DEF NextWakeup, Smaller, Larger
  <1>5. TypeOK'
    BY <1>1, <1>3, <1>4, NextAckFacts, NextSendFacts DEF IInv, TypeOK
  <1>6. Queue(sent, now)'
    <2>1. Queue(sent, now) /\ now \in Nat
      BY Numbers DEF IInv
    <2>. QED
      BY <1>1, <1>4, <2>1, QueueLater
  <1>7. PastOrNever'
    BY <1>1, <1>3, <1>4, Numbers, NextSendFacts DEF IInv, Timers, PastOrNever
  <1>8. AckTimer' /\ DataTimer'
    BY <1>1, <1>2, <1>3, NextAckFacts DEF IInv, Timers, AckTimer, DataTimer
  <1>9. ChangeTimer' /\ ShutdownTimer'
    BY <1>1, <1>2, <1>3, NextSendFacts DEF IInv, Timers, ChangeTimer, ShutdownTimer
  <1>10. NeverSilent'
    <2>1. now <= slept + Deadline(FirstOrNextAck)
      BY <1>3 DEF IInv, Promises, NeverSilent, FirstOrNextAck
    <2>2. /\ slept \in Nat /\ Deadline(FirstOrNextAck) \in Nat
          /\ NextAckTime <= Deadline(FirstOrNextAck) /\ NextAckTime \in Nat
      BY Numbers, NextAckFacts, DeadlineFacts
    <2>3. now' <= slept + Deadline(FirstOrNextAck)
      BY <1>4, <2>1, <2>2
    <2>. QED
      BY <1>1, <1>2, <2>3 DEF NeverSilent, FirstOrNextAck
  <1>11. DataIsAckedSoon'
    <2>. SUFFICES ASSUME data_heard # Never
                  PROVE  now' <= slept + Deadline(data_heard + ACK_DELAY)
      BY <1>1, <1>2 DEF DataIsAckedSoon
    <2>1. now <= slept + Deadline(data_heard + ACK_DELAY)
      BY <1>3 DEF IInv, Promises, DataIsAckedSoon
    <2>2. data_heard + ACK_DELAY \in Nat /\ slept \in Nat
      BY Numbers, Widths
    <2>3. /\ Deadline(data_heard + ACK_DELAY) \in Nat /\ NextAckTime \in Nat
          /\ NextAckTime <= Deadline(data_heard + ACK_DELAY)
      BY <2>2, NextAckFacts, DeadlineFacts
    <2>. QED
      BY <1>4, <2>1, <2>2, <2>3
  <1>12. ChangeIsSentSoon'
    <2>. DEFINE bound == Larger(unsent + SEND_MINDELAY, LastSent.timestamp + SlowestInterval)
    <2>. SUFFICES ASSUME unsent # Never PROVE now' <= slept + bound
      BY <1>1, <1>2 DEF ChangeIsSentSoon
    <2>1. now <= slept + bound
      BY <1>3 DEF IInv, Promises, ChangeIsSentSoon
    <2>2. /\ unsent + SEND_MINDELAY \in Nat /\ LastSent.timestamp + SlowestInterval \in Nat
          /\ slept \in Nat
      BY Numbers, Widths
    <2>3. bound \in Nat /\ NextSendTime \in Nat /\ NextSendTime <= bound
      BY <2>2, Extremes, NextSendFacts
    <2>. QED
      BY <1>4, <2>1, <2>2, <2>3
  <1>13. NoSpin'
    BY <1>3 DEF NoSpin
  <1>14. ShutdownEnds'
    <2>. DEFINE bound == shutdown_start + ACTIVE_RETRY_TIMEOUT
    <2>. SUFFICES ASSUME ShuttingDown PROVE now' < bound + SlowestInterval + slept
      BY <1>1, <1>2 DEF ShutdownEnds
    <2>1. now < bound + SlowestInterval + slept /\ LastSent.timestamp < bound
      BY <1>3 DEF IInv, Promises, Timers, ShutdownEnds, ShutdownTimer
    <2>2. NextAckTime = LastSent.timestamp + rtt.interval
      BY DEF NextAckTime
    <2>3. /\ bound \in Nat /\ SlowestInterval \in Nat /\ rtt.interval \in Nat /\ slept \in Nat
          /\ rtt.interval <= SlowestInterval /\ LastSent.timestamp \in Nat
      BY Numbers, Widths
    <2>. QED
      BY <1>4, <2>1, <2>2, <2>3
  <1>. QED
    BY <1>5, <1>6, <1>7, <1>8, <1>9, <1>10, <1>11, <1>12, <1>13, <1>14 DEF IInv, Timers, Promises

\* Deadline, as it is after the step
Later(t) ==
    IF ShuttingDown' \/ peer_final' THEN Larger(t, LastSent'.timestamp + SlowestInterval) ELSE t

\* A shutdown that begins and a newer entry only put deadlines off.
LEMMA DeadlineGrows ==
    ASSUME IInv, LastSent'.timestamp \in Nat, LastSent.timestamp <= LastSent'.timestamp,
           ShuttingDown => ShuttingDown', peer_final => peer_final'
    PROVE  \A t \in Nat : /\ Later(t) \in Nat /\ t <= Later(t) /\ Deadline(t) <= Later(t)
                         /\ Deadline(t) \in Nat
  <1>1. /\ SlowestInterval \in Nat /\ LastSent.timestamp \in Nat
    BY Numbers
  <1>. QED
    BY <1>1 DEF Deadline, Larger, Later

\* What is unsent after an event: since before, or since now.
LEMMA UnsentKeeps ==
    ASSUME IInv, phase \in {"network", "input"}, phase' = "input",
           UNCHANGED <<now, mindelay_clock, slept>>,
           unsent' = UnsentSince(current', sent'),
           Queue(sent', now), Last(sent') = Last(sent)
    PROVE  /\ ChangeTimer' /\ ChangeIsSentSoon'
           /\ unsent' \in Nat /\ (unsent' = Never \/ unsent' <= now)
  <1>1. /\ now \in Nat /\ unsent \in Nat /\ mindelay_clock \in Nat /\ slept \in Nat
        /\ SEND_MINDELAY \in Nat /\ now < Never /\ SlowestInterval \in Nat /\ Never \in Nat
        /\ LastSent.timestamp \in Nat /\ (unsent = Never \/ unsent <= now)
    BY Numbers, Widths DEF IInv, Timers, PastOrNever
  <1>2. LastSent' = LastSent
    BY DEF LastSent
  <1>3. /\ unsent' \in {Never, unsent, now} /\ (unsent' = unsent => unsent = Never \/ unsent <= now)
        /\ unsent' # Never => current' # Known'.state /\ current' # LastSent'.state
        /\ unsent' # Never => unsent' = unsent \/ unsent' = now
    BY <1>1 DEF UnsentSince, Known, LastSent, Smaller
  <1>4. unsent' \in Nat /\ (unsent' = Never \/ unsent' <= now)
    BY <1>1, <1>3
  <1>5. ChangeTimer'
    <2>1. ASSUME unsent' # Never PROVE mindelay_clock <= unsent' \/ unsent' = now
      BY <1>3, <2>1 DEF IInv, Timers, ChangeTimer
    <2>2. mindelay_clock' = mindelay_clock /\ now' = now
      OBVIOUS
    <2>3. unsent' # Never => current' # LastSent'.state /\ current' # Known'.state
      BY <1>3
    <2>. QED
      BY <2>1, <2>2, <2>3 DEF ChangeTimer
  <1>6. ChangeIsSentSoon'
    <2>. DEFINE bound(t) == Larger(t + SEND_MINDELAY, LastSent.timestamp + SlowestInterval)
    <2>. SUFFICES ASSUME unsent' # Never PROVE now <= slept + bound(unsent')
      BY <1>2 DEF ChangeIsSentSoon
    <2>1. CASE unsent' = unsent
      BY <2>1 DEF IInv, Promises, ChangeIsSentSoon
    <2>2. CASE unsent' = now
      BY <1>1, <2>2 DEF Larger
    <2>. QED
      BY <1>3, <2>1, <2>2
  <1>. QED
    BY <1>4, <1>5, <1>6

LEMMA HearKeeps == ASSUME IInv, Hear PROVE IInv'
  <1>1. /\ UNCHANGED <<now, current, next_ack_time, next_send_time, mindelay_clock,
                      shutdown_start, shutdown_tries, peer_final_acked, errors, slept,
                      last_send>>
        /\ phase = "network" /\ phase' = "input" /\ rtt' \in Rtt
        /\ unsent' = UnsentSince(current, sent')
    BY DEF Hear
  <1>2. Queue(sent', now) /\ LastSent' = LastSent
    <2>1. PICK i \in DOMAIN sent : sent' = SubSeq(sent, i, Len(sent))
      BY DEF Hear
    <2>2. i \in 1 .. Len(sent) /\ now \in Nat
      BY <2>1, QueueFacts, Numbers
    <2>. QED
      BY <2>1, <2>2, SuffixIsQueue DEF LastSent, IInv
  <1>3. /\ last_heard' \in Nat /\ pending_data_ack' \in BOOLEAN /\ peer_final' \in BOOLEAN
        /\ peer_final => peer_final'
        /\ \/ UNCHANGED <<data_heard, pending_data_ack>>
           \/ /\ pending_data_ack => pending_data_ack'
              /\ data_heard' = IF pending_data_ack' THEN Smaller(data_heard, now) ELSE Never
    <2>1. CASE UNCHANGED <<last_heard, pending_data_ack, peer_final, data_heard>>
      BY <2>1 DEF IInv, TypeOK
    <2>2. CASE ~UNCHANGED <<last_heard, pending_data_ack, peer_final, data_heard>>
      <3>1. /\ ~peer_final /\ last_heard' = now /\ pending_data_ack' \in {pending_data_ack, TRUE}
            /\ peer_final' \in BOOLEAN
            /\ data_heard' = IF pending_data_ack' THEN Smaller(data_heard, now) ELSE Never
        BY <2>2 DEF Hear
      <3>2. pending_data_ack \in BOOLEAN /\ now \in Nat
        BY DEF IInv, TypeOK
      <3>. QED
        BY <3>1, <3>2
    <2>. QED
      BY <2>1, <2>2
  <1>4. data_heard' \in {data_heard, now, Never} /\ (data_heard' # Never => pending_data_ack')
    BY <1>3 DEF Smaller, IInv, Timers, DataTimer
  <1>5. /\ ChangeTimer' /\ ChangeIsSentSoon'
        /\ unsent' \in Nat /\ (unsent' = Never \/ unsent' <= now)
    BY <1>1, <1>2, UnsentKeeps DEF LastSent
  <1>6. /\ ShuttingDown' = ShuttingDown /\ FirstOrNextAck' = FirstOrNextAck
        /\ now \in Nat /\ data_heard \in Nat /\ Never \in Nat /\ ACK_DELAY \in Nat
        /\ next_ack_time \in Nat /\ slept \in Nat /\ FirstOrNextAck \in Nat
    BY <1>1, Numbers, Widths, DeadlineFacts DEF ShuttingDown, FirstOrNextAck
  <1>7. \A t \in Nat : /\ Later(t) \in Nat /\ t <= Later(t) /\ Deadline(t) <= Later(t)
                      /\ Deadline(t) \in Nat
    BY <1>2, <1>3, <1>6, Numbers, DeadlineGrows
  <1>8. TypeOK'
    BY <1>1, <1>2, <1>3, <1>4, <1>5, <1>6 DEF IInv, TypeOK, Queue
  <1>9. Queue(sent, now)'
    BY <1>1, <1>2 DEF Queue
  <1>10. PastOrNever'
    BY <1>1, <1>4, <1>5, <1>6 DEF IInv, Timers, PastOrNever
  <1>11. AckTimer'
    <2>1. next_ack_time <= Later(FirstOrNextAck)
      BY <1>6, <1>7 DEF IInv, Timers, AckTimer
    <2>. QED
      BY <1>1, <1>6, <2>1 DEF AckTimer, Deadline, Later
  <1>12. DataTimer'
    <2>1. ASSUME data_heard' # Never
          PROVE  next_ack_time <= Later(data_heard' + ACK_DELAY) \/ data_heard' = now
      <3>1. CASE data_heard' = data_heard
        <4>1. next_ack_time <= Deadline(data_heard + ACK_DELAY)
          BY <1>1, <2>1, <3>1 DEF IInv, Timers, DataTimer
        <4>2. data_heard + ACK_DELAY \in Nat
          BY <1>6
        <4>. QED
          BY <1>6, <1>7, <3>1, <4>1, <4>2
      <3>. QED
        BY <1>4, <2>1, <3>1
    <2>. QED
      BY <1>1, <1>4, <2>1 DEF DataTimer, Deadline, Later
  <1>13. ShutdownTimer'
    BY <1>1, <1>2, <1>6 DEF IInv, Timers, ShutdownTimer
  <1>14. NeverSilent'
    <2>1. now <= slept + Deadline(FirstOrNextAck)
      BY <1>1 DEF IInv, Promises, NeverSilent, FirstOrNextAck
    <2>2. now <= slept + Later(FirstOrNextAck)
      BY <1>6, <1>7, <2>1
    <2>. QED
      BY <1>1, <1>6, <2>2 DEF NeverSilent, FirstOrNextAck, Deadline, Later
  <1>15. DataIsAckedSoon'
    <2>1. ASSUME data_heard' # Never PROVE now <= slept + Later(data_heard' + ACK_DELAY)
      <3>1. CASE data_heard' = data_heard
        <4>1. now <= slept + Deadline(data_heard + ACK_DELAY)
          BY <1>1, <2>1, <3>1 DEF IInv, Promises, DataIsAckedSoon
        <4>2. data_heard + ACK_DELAY \in Nat
          BY <1>6
        <4>. QED
          BY <1>6, <1>7, <3>1, <4>1, <4>2
      <3>2. CASE data_heard' = now
        <4>1. now + ACK_DELAY \in Nat
          BY <1>6
        <4>. QED
          BY <1>6, <1>7, <3>2, <4>1
      <3>. QED
        BY <1>4, <2>1, <3>1, <3>2
    <2>. QED
      BY <1>1, <2>1 DEF DataIsAckedSoon, Deadline, Later
  <1>16. NoSpin' /\ ShutdownEnds'
    BY <1>1, <1>6 DEF NoSpin, IInv, Promises, ShutdownEnds
  <1>. QED
    BY <1>5, <1>8, <1>9, <1>10, <1>11, <1>12, <1>13, <1>14, <1>15, <1>16
       DEF IInv, Timers, Promises

LEMMA RecvErrorKeeps == ASSUME IInv, RecvError PROVE IInv'
  <1>1. /\ UNCHANGED <<current, sent, next_ack_time, next_send_time, mindelay_clock,
                      pending_data_ack, last_heard, shutdown_start, shutdown_tries, peer_final,
                      peer_final_acked, rtt, last_send, data_heard, unsent>>
        /\ phase = "network" /\ phase' = "loop" /\ errors' = errors + 1
    BY DEF RecvError, sender, history
  <1>2. PICK pause \in {0, ErrorSleep} :
            /\ now + pause <= MaxTime /\ now' = now + pause /\ slept' = slept + pause
    BY DEF RecvError
  <1>3. /\ LastSent' = LastSent /\ Known' = Known /\ ShuttingDown' = ShuttingDown
        /\ FirstOrNextAck' = FirstOrNextAck /\ \A t : Deadline(t)' = Deadline(t)
    BY <1>1, SameBounds
  <1>4. /\ pause \in Nat /\ now \in Nat /\ slept \in Nat /\ now' \in Nat /\ now <= now'
        /\ now' <= MaxTime /\ slept' \in Nat /\ errors \in Nat /\ MaxTime \in Nat
    BY <1>2, Numbers, Widths
  <1>5. TypeOK'
    BY <1>1, <1>4 DEF IInv, TypeOK
  <1>6. Queue(sent, now)'
    <2>1. Queue(sent, now)
      BY DEF IInv
    <2>. QED
      BY <1>1, <1>4, <2>1, QueueLater
  <1>7. PastOrNever'
    BY <1>1, <1>4, Numbers DEF IInv, Timers, PastOrNever
  <1>8. AckTimer' /\ DataTimer' /\ ChangeTimer' /\ ShutdownTimer'
    BY <1>1, <1>3 DEF IInv, Timers, AckTimer, DataTimer, ChangeTimer, ShutdownTimer
  <1>9. NeverSilent'
    <2>1. now <= slept + Deadline(FirstOrNextAck) /\ Deadline(FirstOrNextAck) \in Nat
      BY <1>1, DeadlineFacts DEF IInv, Promises, NeverSilent, FirstOrNextAck
    <2>2. now' <= slept' + Deadline(FirstOrNextAck)
      BY <1>2, <1>4, <2>1
    <2>. QED
      BY <1>1, <1>3, <2>2 DEF NeverSilent, FirstOrNextAck
  <1>10. DataIsAckedSoon'
    <2>1. ASSUME data_heard # Never PROVE now' <= slept' + Deadline(data_heard + ACK_DELAY)
      <3>1. data_heard + ACK_DELAY \in Nat
        BY Numbers, Widths
      <3>2. /\ now <= slept + Deadline(data_heard + ACK_DELAY)
            /\ Deadline(data_heard + ACK_DELAY) \in Nat
        BY <1>1, <2>1, <3>1, DeadlineFacts DEF IInv, Promises, DataIsAckedSoon
      <3>. QED
        BY <1>2, <1>4, <3>2
    <2>. QED
      BY <1>1, <1>3, <2>1 DEF DataIsAckedSoon
  <1>11. ChangeIsSentSoon'
    <2>. DEFINE bound == Larger(unsent + SEND_MINDELAY, LastSent.timestamp + SlowestInterval)
    <2>1. ASSUME unsent # Never PROVE now' <= slept' + bound
      <3>1. /\ unsent + SEND_MINDELAY \in Nat /\ LastSent.timestamp + SlowestInterval \in Nat
        BY Numbers, Widths
      <3>2. bound \in Nat /\ now <= slept + bound
        BY <1>1, <2>1, <3>1, Extremes DEF IInv, Promises, ChangeIsSentSoon
      <3>. HIDE DEF bound
      <3>. QED
        BY <1>2, <1>4, <3>2
    <2>. QED
      BY <1>1, <1>3, <2>1 DEF ChangeIsSentSoon
  <1>12. NoSpin'
    BY <1>1, <1>4 DEF NoSpin
  <1>13. ShutdownEnds'
    <2>. DEFINE bound == shutdown_start + ACTIVE_RETRY_TIMEOUT + SlowestInterval
    <2>1. ASSUME ShuttingDown PROVE now' < bound + slept'
      <3>1. now < bound + slept /\ bound \in Nat
        BY <1>1, <2>1, Numbers, Widths DEF IInv, Promises, ShutdownEnds
      <3>. QED
        BY <1>2, <1>4, <3>1
    <2>. QED
      BY <1>1, <1>3, <2>1 DEF ShutdownEnds
  <1>. QED
    BY <1>5, <1>6, <1>7, <1>8, <1>9, <1>10, <1>11, <1>12, <1>13 DEF IInv, Timers, Promises

LEMMA ChangeKeeps == ASSUME IInv, Change PROVE IInv'
  <1>1. /\ UNCHANGED <<now, sent, next_ack_time, next_send_time, mindelay_clock,
                      pending_data_ack, last_heard, shutdown_start, shutdown_tries, peer_final,
                      peer_final_acked, rtt, errors, slept, last_send, data_heard>>
        /\ phase \in {"network", "input"} /\ phase' = "input" /\ current' \in State
        /\ unsent' = UnsentSince(current', sent')
    BY DEF Change
  <1>2. /\ LastSent' = LastSent /\ Known' = Known /\ ShuttingDown' = ShuttingDown
        /\ FirstOrNextAck' = FirstOrNextAck /\ \A t : Deadline(t)' = Deadline(t)
    BY <1>1, SameBounds
  <1>3. Queue(sent', now)
    BY <1>1 DEF IInv
  <1>4. /\ ChangeTimer' /\ ChangeIsSentSoon'
        /\ unsent' \in Nat /\ (unsent' = Never \/ unsent' <= now)
    BY <1>1, <1>3, UnsentKeeps
  <1>5. TypeOK' /\ Queue(sent, now)'
    BY <1>1, <1>3, <1>4 DEF IInv, TypeOK
  <1>6. PastOrNever' /\ AckTimer' /\ DataTimer' /\ ShutdownTimer'
    BY <1>1, <1>2, <1>4 DEF IInv, Timers, PastOrNever, AckTimer, DataTimer, ShutdownTimer
  <1>7. NeverSilent' /\ DataIsAckedSoon' /\ ShutdownEnds'
    BY <1>1, <1>2 DEF IInv, Promises, NeverSilent, DataIsAckedSoon, ShutdownEnds
  <1>8. NoSpin'
    BY <1>1 DEF NoSpin
  <1>. QED
    BY <1>4, <1>5, <1>6, <1>7, <1>8 DEF IInv, Timers, Promises

LEMMA StartShutdownKeeps == ASSUME IInv, StartShutdown PROVE IInv'
  <1>1. /\ UNCHANGED <<now, current, sent, next_ack_time, next_send_time, mindelay_clock,
                      pending_data_ack, last_heard, shutdown_tries, peer_final,
                      peer_final_acked, rtt, errors, slept, last_send, data_heard, unsent>>
        /\ phase \in {"network", "input"} /\ phase' = "input" /\ ~ShuttingDown
        /\ shutdown_start' = now
    BY DEF StartShutdown, history
  <1>2. LastSent' = LastSent /\ Known' = Known /\ FirstOrNextAck' = FirstOrNextAck
    BY <1>1 DEF LastSent, Known, FirstOrNextAck
  <1>3. /\ now \in Nat /\ now < Never /\ slept \in Nat /\ FirstOrNextAck \in Nat
        /\ data_heard \in Nat /\ ACK_DELAY \in Nat /\ next_ack_time \in Nat
        /\ ACTIVE_RETRY_TIMEOUT \in Nat /\ 0 < ACTIVE_RETRY_TIMEOUT
        /\ LastSent.timestamp \in Nat /\ LastSent.timestamp <= now /\ SlowestInterval \in Nat
        /\ Never \in Nat
    BY Numbers, Widths, DeadlineFacts
  <1>4. \A t \in Nat : /\ Later(t) \in Nat /\ t <= Later(t) /\ Deadline(t) <= Later(t)
                      /\ Deadline(t) \in Nat
    BY <1>1, <1>2, <1>3, DeadlineGrows
  <1>5. TypeOK' /\ Queue(sent, now)' /\ PastOrNever'
    BY <1>1, <1>3 DEF IInv, TypeOK, Timers, PastOrNever
  <1>6. AckTimer'
    <2>1. next_ack_time <= Later(FirstOrNextAck)
      BY <1>3, <1>4 DEF IInv, Timers, AckTimer
    <2>. QED
      BY <1>1, <1>2, <2>1 DEF AckTimer, Deadline, Later
  <1>7. DataTimer'
    <2>1. ASSUME data_heard # Never, next_ack_time <= Deadline(data_heard + ACK_DELAY)
          PROVE  next_ack_time <= Later(data_heard + ACK_DELAY)
      <3>1. data_heard + ACK_DELAY \in Nat
        BY <1>3
      <3>. QED
        BY <1>3, <1>4, <2>1, <3>1
    <2>. QED
      BY <1>1, <2>1 DEF IInv, Timers, DataTimer, Deadline, Later
  <1>8. ChangeTimer'
    BY <1>1, <1>2 DEF IInv, Timers, ChangeTimer
  <1>9. ShutdownTimer' /\ ShutdownEnds'
    BY <1>1, <1>2, <1>3 DEF ShutdownTimer, ShutdownEnds
  <1>10. NeverSilent'
    <2>1. now <= slept + Deadline(FirstOrNextAck)
      BY <1>1 DEF IInv, Promises, NeverSilent, FirstOrNextAck
    <2>2. now <= slept + Later(FirstOrNextAck)
      BY <1>3, <1>4, <2>1
    <2>. QED
      BY <1>1, <1>2, <2>2 DEF NeverSilent, FirstOrNextAck, Deadline, Later
  <1>11. DataIsAckedSoon'
    <2>1. ASSUME data_heard # Never PROVE now <= slept + Later(data_heard + ACK_DELAY)
      <3>1. now <= slept + Deadline(data_heard + ACK_DELAY)
        BY <1>1, <2>1 DEF IInv, Promises, DataIsAckedSoon
      <3>2. data_heard + ACK_DELAY \in Nat
        BY <1>3
      <3>. QED
        BY <1>3, <1>4, <3>1, <3>2
    <2>. QED
      BY <1>1, <2>1 DEF DataIsAckedSoon, Deadline, Later
  <1>12. ChangeIsSentSoon' /\ NoSpin'
    BY <1>1, <1>2 DEF IInv, Promises, ChangeIsSentSoon, NoSpin
  <1>. QED
    BY <1>5, <1>6, <1>7, <1>8, <1>9, <1>10, <1>11, <1>12 DEF IInv, Timers, Promises

LEMMA QuitKeeps == ASSUME IInv, Quit PROVE IInv'
  <1>1. /\ UNCHANGED <<now, current, sent, next_ack_time, next_send_time, mindelay_clock,
                      pending_data_ack, last_heard, shutdown_start, shutdown_tries, peer_final,
                      peer_final_acked, rtt, errors, slept, last_send, data_heard, unsent>>
        /\ phase \in {"network", "input"} /\ phase' = "done"
    BY DEF Quit, sender, counters, history
  <1>2. /\ LastSent' = LastSent /\ Known' = Known /\ ShuttingDown' = ShuttingDown
        /\ FirstOrNextAck' = FirstOrNextAck /\ \A t : Deadline(t)' = Deadline(t)
    BY <1>1, SameBounds
  <1>3. TypeOK' /\ Queue(sent, now)'
    BY <1>1 DEF IInv, TypeOK
  <1>4. Timers'
    BY <1>1, <1>2
       DEF IInv, Timers, PastOrNever, AckTimer, DataTimer, ChangeTimer, ShutdownTimer
  <1>5. Promises'
    BY <1>1
       DEF Promises, NeverSilent, DataIsAckedSoon, ChangeIsSentSoon, NoSpin, ShutdownEnds
  <1>. QED
    BY <1>3, <1>4, <1>5 DEF IInv

-----------------------------------------------------------------------------
(* tick *)

\* A queue as a send leaves it: the current state is its last, sent now.
JustSent(queue) ==
    /\ Queue(queue, now)
    /\ Last(queue).state = current /\ Last(queue).timestamp = now
    /\ UnsentSince(current, queue) = Never

LEMMA QueuesAreJustSent == ASSUME IInv PROVE JustSent(EmptyAckQueue) /\ JustSent(DiffQueue)
  <1>1. Entry \in SentEntry /\ Entry.timestamp = now /\ Entry.state = current
    BY DEF Entry, SentEntry, ShuttingDown, IInv, TypeOK
  <1>2. Queue(sent, now) /\ now \in Nat
    BY Numbers DEF IInv
  <1>. HIDE DEF Entry
  <1>3. JustSent(AddSentState(sent, Entry))
    <2>1. /\ Queue(AddSentState(sent, Entry), now) /\ Last(AddSentState(sent, Entry)) = Entry
      BY <1>1, <1>2, AddedIsQueue
    <2>. QED
      BY <1>1, <2>1 DEF JustSent, UnsentSince
  <1>4. ASSUME LastSent.state = current PROVE JustSent([sent EXCEPT ![Len(sent)].timestamp = now])
    <2>. DEFINE r == [sent EXCEPT ![Len(sent)].timestamp = now]
    <2>1. Queue(r, now) /\ Last(r) = [LastSent EXCEPT !.timestamp = now]
      BY <1>2, ResentIsQueue DEF LastSent
    <2>2. LastSent \in SentEntry
      BY QueueFacts
    <2>3. Last(r).state = current /\ Last(r).timestamp = now
      BY <1>4, <2>1, <2>2 DEF SentEntry
    <2>. QED
      BY <2>1, <2>3 DEF JustSent, UnsentSince
  <1>. QED
    BY <1>3, <1>4 DEF EmptyAckQueue, DiffQueue

LEMMA TickPhaseFacts ==
    ASSUME IInv, TickPhase
    PROVE  /\ UNCHANGED <<current, last_heard, shutdown_start, peer_final, rtt>>
           /\ phase # "done" /\ phase' = "loop" /\ ShuttingDown' = ShuttingDown
           /\ ShuttingDown => now < shutdown_start + ACTIVE_RETRY_TIMEOUT
  <1>1. /\ UNCHANGED <<current, last_heard, shutdown_start, peer_final, rtt>>
        /\ phase # "done" /\ phase' = "loop" /\ ~ShutdownAckTimedOut
    BY DEF TickPhase
  <1>2. ASSUME ShuttingDown PROVE now < shutdown_start + ACTIVE_RETRY_TIMEOUT
    <2>1. ~(now - shutdown_start >= ACTIVE_RETRY_TIMEOUT)
      BY <1>1, <1>2 DEF ShutdownAckTimedOut
    <2>. QED
      BY <2>1, Numbers, Widths
  <1>. QED
    BY <1>1, <1>2 DEF ShuttingDown

LEMMA SentKeeps ==
    ASSUME IInv, TickPhase, NEW queue, JustSent(queue), Sent(queue), slept' = 0,
           UNCHANGED <<now, errors>>
    PROVE  IInv'
  <1>1. /\ sent' = queue /\ peer_final_acked' = peer_final /\ pending_data_ack' = FALSE
        /\ next_ack_time' = now + ACK_INTERVAL /\ next_send_time' = Never
        /\ mindelay_clock' = Never /\ last_send' = now /\ data_heard' = Never
        /\ unsent' = Never /\ shutdown_tries' = shutdown_tries + (IF ShuttingDown THEN 1 ELSE 0)
    BY DEF Sent, JustSent
  <1>2. LastSent'.state = current /\ LastSent'.timestamp = now
    BY <1>1 DEF JustSent, LastSent
  <1>3. /\ UNCHANGED <<current, last_heard, shutdown_start, peer_final, rtt>>
        /\ phase' = "loop" /\ ShuttingDown' = ShuttingDown
        /\ ShuttingDown => now < shutdown_start + ACTIVE_RETRY_TIMEOUT
    BY TickPhaseFacts
  <1>4. /\ now \in Nat /\ now < Never /\ Never \in Nat /\ ACK_INTERVAL \in Nat
        /\ 0 < ACK_INTERVAL /\ 0 < ACK_DELAY /\ ACK_DELAY \in Nat
        /\ rtt.interval \in Nat /\ 0 < rtt.interval /\ rtt.timeout \in Nat
        /\ SlowestInterval \in Nat /\ shutdown_start \in Nat /\ ACTIVE_RETRY_TIMEOUT \in Nat
        /\ shutdown_tries \in Nat /\ LastSent.timestamp \in Nat /\ LastSent.timestamp <= now
        /\ MaxTime + ACK_INTERVAL < Never /\ now <= MaxTime /\ MaxTime \in Nat
    BY Numbers, Widths
  <1>5. FirstOrNextAck' = now + ACK_INTERVAL /\ now + ACK_INTERVAL \in Nat
    BY <1>1, <1>4 DEF FirstOrNextAck
  <1>6. \A t \in Nat : Later(t) \in Nat /\ t <= Later(t)
    BY <1>2, <1>3, <1>4, DeadlineGrows
  <1>7. TypeOK'
    <2>1. queue \in Seq(SentEntry) /\ last_heard \in Nat
      BY Numbers DEF JustSent, Queue
    <2>2. /\ shutdown_tries' \in Nat /\ next_ack_time' \in Nat /\ next_send_time' \in Nat
          /\ mindelay_clock' \in Nat /\ last_send' \in Nat /\ data_heard' \in Nat
          /\ unsent' \in Nat /\ slept' \in Nat /\ errors' \in Nat /\ shutdown_start' \in Nat
      BY <1>1, <1>3, <1>4, Numbers
    <2>3. {pending_data_ack', peer_final', peer_final_acked'} \subseteq BOOLEAN
      BY <1>1, <1>3 DEF IInv, TypeOK
    <2>4. now' \in 0 .. MaxTime /\ current' \in State /\ rtt' \in Rtt
      BY <1>3 DEF IInv, TypeOK
    <2>. QED
      BY <1>1, <1>3, <2>1, <2>2, <2>3, <2>4 DEF TypeOK
  <1>8. Queue(sent, now)'
    BY <1>1 DEF JustSent, Queue
  <1>9. PastOrNever'
    BY <1>1, <1>3, <1>4 DEF IInv, Timers, PastOrNever
  <1>10. AckTimer' /\ NeverSilent'
    <2>1. now + ACK_INTERVAL <= Later(now + ACK_INTERVAL)
          /\ now <= 0 + Later(now + ACK_INTERVAL)
      BY <1>4, <1>5, <1>6
    <2>. QED
      BY <1>1, <1>4, <1>5, <2>1 DEF AckTimer, NeverSilent, FirstOrNextAck, Deadline, Later
  <1>11. DataTimer' /\ ChangeTimer' /\ DataIsAckedSoon' /\ ChangeIsSentSoon'
    BY <1>1 DEF DataTimer, ChangeTimer, DataIsAckedSoon, ChangeIsSentSoon
  <1>12. ShutdownTimer'
    BY <1>2, <1>3 DEF ShutdownTimer
  <1>13. ShutdownEnds'
    BY <1>3, <1>4 DEF ShutdownEnds
  <1>14. NoSpin'
    <2>1. NextAckTime' > now
      <3>1. NextAckTime' \in {now + rtt.interval, now + ACK_INTERVAL}
        BY <1>1, <1>2, <1>3 DEF NextAckTime
      <3>. QED
        BY <1>4, <3>1
    <2>2. MindelayClock' = Never
      BY <1>1, <1>2, <1>3 DEF MindelayClock
    <2>3. NextSendTime' \in {Larger(0, now + rtt.interval), now + rtt.timeout + ACK_DELAY, Never}
      BY <1>2, <1>3, <2>2 DEF NextSendTime
    <2>4. NextSendTime' > now
      BY <1>4, <2>3 DEF Larger
    <2>5. NextSendTime' \in Nat /\ NextAckTime' \in Nat
      <3>1. NextAckTime' \in {now + rtt.interval, now + ACK_INTERVAL}
        BY <1>1, <1>2, <1>3 DEF NextAckTime
      <3>. QED
        BY <1>4, <2>3, <3>1 DEF Larger
    <2>. QED
      BY <1>4, <2>1, <2>4, <2>5 DEF NoSpin, NextWakeup, Smaller, Larger
  <1>. QED
    BY <1>7, <1>8, <1>9, <1>10, <1>11, <1>12, <1>13, <1>14 DEF IInv, Timers, Promises

LEMMA ThrownKeeps ==
    ASSUME IInv, TickPhase, NEW queue, JustSent(queue), Thrown(queue), errors' = errors + 1,
           now + ErrorSleep <= MaxTime, now' = now + ErrorSleep, slept' = slept + ErrorSleep
    PROVE  IInv'
  <1>1. /\ sent' = queue /\ peer_final_acked' = peer_final
        /\ UNCHANGED pending_data_ack
        /\ next_ack_time' = NextAckTime /\ next_send_time' = NextSendTime
        /\ mindelay_clock' = MindelayClock /\ unsent' = Never
        /\ shutdown_tries' = shutdown_tries + (IF ShuttingDown THEN 1 ELSE 0)
        /\ \/ last_send' = now /\ data_heard' = Never
           \/ UNCHANGED <<last_send, data_heard>>
    BY DEF Thrown, JustSent
  <1>2. LastSent'.state = current /\ LastSent'.timestamp = now
    BY <1>1 DEF JustSent, LastSent
  <1>3. /\ UNCHANGED <<current, last_heard, shutdown_start, peer_final, rtt>>
        /\ phase # "done" /\ phase' = "loop" /\ ShuttingDown' = ShuttingDown
        /\ ShuttingDown => now < shutdown_start + ACTIVE_RETRY_TIMEOUT
    BY TickPhaseFacts
  <1>4. /\ now \in Nat /\ now < Never /\ Never \in Nat /\ ACK_INTERVAL \in Nat
        /\ ErrorSleep \in Nat /\ slept \in Nat /\ errors \in Nat /\ ACK_DELAY \in Nat
        /\ data_heard \in Nat /\ last_send \in Nat
        /\ SlowestInterval \in Nat /\ shutdown_start \in Nat /\ ACTIVE_RETRY_TIMEOUT \in Nat
        /\ shutdown_tries \in Nat /\ LastSent.timestamp \in Nat /\ LastSent.timestamp <= now
        /\ NextAckTime \in Nat /\ NextSendTime \in Nat /\ MindelayClock \in Nat
        /\ (MindelayClock = Never \/ MindelayClock <= now)
    BY Numbers, Widths, NextAckFacts, NextSendFacts
  <1>5. FirstOrNextAck' \in Nat /\ FirstOrNextAck \in Nat /\ FirstOrNextAck <= FirstOrNextAck'
    BY <1>1, <1>4 DEF FirstOrNextAck, IInv, Timers, PastOrNever
  <1>6. \A t \in Nat : /\ Later(t) \in Nat /\ t <= Later(t) /\ Deadline(t) <= Later(t)
                      /\ Deadline(t) \in Nat
    BY <1>2, <1>3, <1>4, DeadlineGrows
  <1>7. Later(FirstOrNextAck) <= Later(FirstOrNextAck')
    BY <1>2, <1>4, <1>5 DEF Later, Larger
  <1>8. TypeOK'
    <2>1. queue \in Seq(SentEntry) /\ last_heard \in Nat /\ now' \in 0 .. MaxTime
      BY <1>4, Numbers, Widths DEF JustSent, Queue
    <2>2. shutdown_tries' \in Nat /\ errors' \in Nat /\ slept' \in Nat
          /\ last_send' \in Nat /\ data_heard' \in Nat
      BY <1>1, <1>4
    <2>. QED
      BY <1>1, <1>3, <1>4, <2>1, <2>2 DEF IInv, TypeOK
  <1>9. Queue(sent, now)'
    <2>1. queue[Len(queue)].timestamp = now
      BY <1>1, <1>2 DEF LastSent, Last
    <2>2. now <= now'
      BY <1>4
    <2>3. /\ queue \in Seq(SentEntry) /\ Len(queue) >= 1
          /\ \A i, j \in 1 .. Len(queue) : i <= j => queue[i].timestamp <= queue[j].timestamp
      BY DEF JustSent, Queue
    <2>. QED
      BY <1>1, <2>1, <2>2, <2>3 DEF Queue
  <1>10. PastOrNever'
    BY <1>1, <1>3, <1>4 DEF IInv, Timers, PastOrNever
  <1>11. AckTimer'
    <2>1. NextAckTime <= Later(FirstOrNextAck')
      <3>1. NextAckTime <= Deadline(FirstOrNextAck)
        BY NextAckFacts
      <3>. QED
        BY <1>4, <1>5, <1>6, <1>7, <3>1
    <2>. QED
      BY <1>1, <2>1 DEF AckTimer, Deadline, Later
  <1>12. DataTimer'
    <2>1. ASSUME data_heard' # Never
          PROVE  pending_data_ack /\ NextAckTime <= Later(data_heard' + ACK_DELAY)
      <3>1. data_heard' = data_heard /\ data_heard # Never
        BY <1>1, <2>1
      <3>2. /\ pending_data_ack /\ NextAckTime <= Deadline(data_heard + ACK_DELAY)
            /\ data_heard + ACK_DELAY \in Nat
        BY <1>4, <3>1, NextAckFacts DEF IInv, Timers, DataTimer
      <3>. QED
        BY <1>4, <1>6, <3>1, <3>2
    <2>. QED
      BY <1>1, <2>1 DEF DataTimer, Deadline, Later
  <1>13. ChangeTimer' /\ ChangeIsSentSoon'
    BY <1>1 DEF ChangeTimer, ChangeIsSentSoon
  <1>14. ShutdownTimer'
    BY <1>2, <1>3 DEF ShutdownTimer
  <1>15. NeverSilent'
    <2>1. now <= slept + Deadline(FirstOrNextAck)
      BY <1>3 DEF IInv, Promises, NeverSilent, FirstOrNextAck
    <2>2. now' <= slept' + Later(FirstOrNextAck')
      BY <1>4, <1>5, <1>6, <1>7, <2>1
    <2>. QED
      BY <2>2 DEF NeverSilent, FirstOrNextAck, Deadline, Later
  <1>16. DataIsAckedSoon'
    <2>1. ASSUME data_heard' # Never PROVE now' <= slept' + Later(data_heard' + ACK_DELAY)
      <3>1. data_heard' = data_heard /\ data_heard # Never
        BY <1>1, <2>1
      <3>2. /\ now <= slept + Deadline(data_heard + ACK_DELAY)
            /\ data_heard + ACK_DELAY \in Nat
        BY <1>3, <1>4, <3>1 DEF IInv, Promises, DataIsAckedSoon
      <3>. QED
        BY <1>4, <1>6, <3>1, <3>2
    <2>. QED
      BY <2>1 DEF DataIsAckedSoon, Deadline, Later
  <1>17. NoSpin'
    BY <1>4 DEF NoSpin
  <1>18. ShutdownEnds'
    BY <1>3, <1>4 DEF ShutdownEnds
  <1>. QED
    BY <1>8, <1>9, <1>10, <1>11, <1>12, <1>13, <1>14, <1>15, <1>16, <1>17, <1>18
       DEF IInv, Timers, Promises

\* The assumed state depends on the clock, the path and the queue only.
LEMMA SameAssumed == ASSUME UNCHANGED <<now, sent, rtt>> PROVE Assumed' = Assumed
  BY DEF Assumed, Recent

\* A tick that sends nothing: what is due later is not due now.
LEMMA IdleKeeps ==
    ASSUME IInv, TickPhase, UNCHANGED <<now, errors, sent, shutdown_tries, peer_final_acked,
                                        pending_data_ack, history>>,
           now < NextAckTime, next_ack_time' = NextAckTime, slept' = 0,
           next_send_time' \in Nat, mindelay_clock' \in Nat,
           mindelay_clock' = Never \/ mindelay_clock' <= now,
           unsent # Never => now < NextSendTime /\ mindelay_clock' <= unsent,
           NextSendTime' > now, NextSendTime' \in Nat
    PROVE  IInv'
  <1>1. /\ UNCHANGED <<current, last_heard, shutdown_start, peer_final, rtt>>
        /\ phase # "done" /\ phase' = "loop" /\ ShuttingDown' = ShuttingDown
        /\ ShuttingDown => now < shutdown_start + ACTIVE_RETRY_TIMEOUT
        /\ UNCHANGED <<last_send, data_heard, unsent>>
    BY TickPhaseFacts DEF history
  <1>2. /\ LastSent' = LastSent /\ Known' = Known /\ FirstOrNextAck' = FirstOrNextAck
        /\ \A t : Deadline(t)' = Deadline(t)
    BY <1>1, SameBounds
  <1>3. /\ now \in Nat /\ NextAckTime \in Nat /\ NextSendTime \in Nat /\ unsent \in Nat
        /\ NextAckTime <= Deadline(FirstOrNextAck) /\ Deadline(FirstOrNextAck) \in Nat
        /\ LastSent.timestamp \in Nat /\ LastSent.timestamp <= now /\ SlowestInterval \in Nat
        /\ rtt.interval \in Nat /\ shutdown_start \in Nat /\ ACTIVE_RETRY_TIMEOUT \in Nat
        /\ SEND_MINDELAY \in Nat /\ ACK_DELAY \in Nat /\ 0 < ACK_DELAY /\ data_heard \in Nat
    BY Numbers, Widths, NextAckFacts, NextSendFacts, DeadlineFacts
  <1>4. data_heard # Never =>
            /\ pending_data_ack
            /\ NextAckTime <= Deadline(data_heard + ACK_DELAY)
            /\ Deadline(data_heard + ACK_DELAY) \in Nat
    BY <1>3, NextAckFacts, DeadlineFacts DEF IInv, Timers, DataTimer
  <1>5. TypeOK' /\ Queue(sent, now)'
    <2>1. 0 \in Nat
      OBVIOUS
    <2>. QED
      BY <1>1, <1>3, <2>1 DEF IInv, TypeOK
  <1>6. PastOrNever'
    BY <1>1 DEF IInv, Timers, PastOrNever
  <1>7. AckTimer' /\ DataTimer'
    BY <1>1, <1>2, <1>3, <1>4 DEF AckTimer, DataTimer
  <1>8. ChangeTimer' /\ ShutdownTimer'
    <2>1. ShuttingDown => LastSent.timestamp < shutdown_start + ACTIVE_RETRY_TIMEOUT
      BY <1>1, <1>3
    <2>. QED
      BY <1>1, <1>2, <2>1 DEF IInv, Timers, ChangeTimer, ShutdownTimer
  <1>9. NeverSilent'
    <2>1. now <= 0 + Deadline(FirstOrNextAck)
      BY <1>3
    <2>. QED
      BY <1>1, <1>2, <2>1 DEF NeverSilent, FirstOrNextAck
  <1>10. DataIsAckedSoon'
    <2>1. data_heard # Never => now <= 0 + Deadline(data_heard + ACK_DELAY)
      BY <1>3, <1>4
    <2>. QED
      BY <1>1, <1>2, <2>1 DEF DataIsAckedSoon
  <1>11. ChangeIsSentSoon'
    <2>. DEFINE bound == Larger(unsent + SEND_MINDELAY, LastSent.timestamp + SlowestInterval)
    <2>1. ASSUME unsent # Never PROVE now <= 0 + bound
      <3>1. now < NextSendTime /\ NextSendTime <= bound
        BY <2>1, NextSendFacts
      <3>2. unsent + SEND_MINDELAY \in Nat /\ LastSent.timestamp + SlowestInterval \in Nat
        BY <1>3
      <3>3. bound \in Nat
        BY <3>2, Extremes
      <3>. QED
        BY <1>3, <3>1, <3>3
    <2>. QED
      BY <1>1, <1>2, <2>1 DEF ChangeIsSentSoon
  <1>12. ShutdownEnds'
    BY <1>1, <1>3 DEF ShutdownEnds
  <1>13. NoSpin'
    <2>1. NextAckTime' \in Nat /\ now < NextAckTime'
      <3>1. NextAckTime' \in {NextAckTime, now + ACK_DELAY}
        BY <1>1, <1>2 DEF NextAckTime, Smaller
      <3>. QED
        BY <1>3, <3>1
    <2>2. now' = now /\ NextWakeup' = Larger(now, Smaller(NextAckTime', NextSendTime'))
      BY DEF NextWakeup
    <2>3. NextWakeup' > now
      BY <1>3, <2>1, <2>2 DEF Larger, Smaller
    <2>. QED
      BY <2>2, <2>3 DEF NoSpin
  <1>. QED
    BY <1>5, <1>6, <1>7, <1>8, <1>9, <1>10, <1>11, <1>12, <1>13 DEF IInv, Timers, Promises

LEMMA NotYetKeeps ==
    ASSUME IInv, TickPhase, NotYet, UNCHANGED <<now, errors>>, slept' = 0
    PROVE  IInv'
  <1>1. /\ now < NextAckTime /\ now < NextSendTime /\ next_ack_time' = NextAckTime
        /\ next_send_time' = NextSendTime /\ mindelay_clock' = MindelayClock
        /\ UNCHANGED <<sent, shutdown_tries, peer_final_acked, pending_data_ack, history>>
    BY DEF NotYet
  <1>2. UNCHANGED <<current, last_heard, rtt>>
    BY TickPhaseFacts
  <1>3. LastSent' = LastSent /\ Known' = Known /\ Assumed' = Assumed
    BY <1>1, <1>2, SameAssumed DEF LastSent, Known
  <1>4. MindelayClock' = MindelayClock
    BY <1>1, <1>2, <1>3, Numbers DEF MindelayClock
  <1>5. NextSendTime' = NextSendTime
    BY <1>1, <1>2, <1>3, <1>4 DEF NextSendTime, ActivelyRetrying
  <1>6. /\ NextSendTime \in Nat /\ MindelayClock \in Nat
        /\ MindelayClock = Never \/ MindelayClock <= now
        /\ unsent # Never => MindelayClock <= unsent
    BY NextSendFacts
  <1>. QED
    BY <1>1, <1>5, <1>6, Numbers, IdleKeeps

LEMMA SendNothingKeeps ==
    ASSUME IInv, TickPhase, NEW base \in DiffBases, SendNothing(base),
           UNCHANGED <<now, errors>>, slept' = 0
    PROVE  IInv'
  <1>1. /\ current = sent[base].state /\ now < NextAckTime /\ next_ack_time' = NextAckTime
        /\ next_send_time' = Never /\ mindelay_clock' = Never
        /\ UNCHANGED <<sent, shutdown_tries, peer_final_acked, pending_data_ack, history>>
    BY DEF SendNothing
  <1>2. UNCHANGED <<current, last_heard, rtt>>
    BY TickPhaseFacts
  <1>3. LastSent' = LastSent /\ Known' = Known /\ Assumed' = Assumed
    BY <1>1, <1>2, SameAssumed DEF LastSent, Known
  <1>4. /\ base \in {1, Assumed} /\ Assumed \in {1, Len(sent)}
        /\ Assumed # 1 => Recent(Len(sent))
        /\ Known = sent[1] /\ LastSent = sent[Len(sent)]
    BY AssumedFacts, QueueFacts DEF DiffBases
  <1>5. unsent = Never
    BY <1>1, <1>4 DEF IInv, Timers, ChangeTimer
  <1>6. /\ now \in Nat /\ now < Never /\ Never \in Nat /\ LastSent.timestamp \in Nat
        /\ rtt.interval \in Nat /\ rtt.timeout \in Nat /\ ACK_DELAY \in Nat
        /\ SEND_MINDELAY \in Nat /\ 0 < SEND_MINDELAY
    BY Numbers, Widths
  <1>7. NextSendTime' \in Nat /\ NextSendTime' > now
    <2>1. CASE current # LastSent.state
      <3>1. MindelayClock' = now
        BY <1>1, <1>2, <1>3, <2>1 DEF MindelayClock
      <3>2. NextSendTime' = Larger(now + SEND_MINDELAY, LastSent.timestamp + rtt.interval)
        BY <1>2, <1>3, <1>6, <2>1, <3>1 DEF NextSendTime
      <3>. QED
        BY <1>6, <3>2 DEF Larger
    <2>2. CASE current = LastSent.state /\ Assumed = 1
      <3>1. base = 1 /\ current = sent'[Assumed'].state /\ current = Known.state
        BY <1>1, <1>3, <1>4, <2>2
      <3>2. NextSendTime' = Never
        BY <1>2, <1>3, <2>2, <3>1 DEF NextSendTime
      <3>. QED
        BY <1>6, <3>2
    <2>3. CASE current = LastSent.state /\ Assumed # 1
      <3>1. current = sent'[Assumed'].state /\ Recent(Len(sent))
        BY <1>1, <1>3, <1>4, <2>3
      <3>2. now - LastSent.timestamp < rtt.timeout + ACK_DELAY
        BY <1>4, <3>1 DEF Recent
      <3>3. NextSendTime' \in {LastSent.timestamp + rtt.timeout + ACK_DELAY, Never}
        BY <1>2, <1>3, <2>3, <3>1 DEF NextSendTime
      <3>. QED
        BY <1>6, <3>2, <3>3
    <2>. QED
      BY <2>1, <2>2, <2>3
  <1>. QED
    BY <1>1, <1>5, <1>6, <1>7, IdleKeeps

LEMMA TickKeeps == ASSUME IInv, Tick PROVE IInv'
  <1>1. TickPhase /\ slept' = 0 /\ UNCHANGED <<now, errors>>
    BY DEF Tick
  <1>2. CASE NotYet
    BY <1>1, <1>2, NotYetKeeps
  <1>3. ASSUME NEW base \in DiffBases,
               Sent(EmptyAckQueue) \/ Sent(DiffQueue) \/ SendNothing(base)
        PROVE  IInv'
    BY <1>1, <1>3, QueuesAreJustSent, SentKeeps, SendNothingKeeps
  <1>. QED
    BY <1>2, <1>3 DEF Tick

LEMMA TickErrorKeeps == ASSUME IInv, TickError PROVE IInv'
  <1>1. /\ TickPhase /\ errors' = errors + 1 /\ now + ErrorSleep <= MaxTime
        /\ now' = now + ErrorSleep /\ slept' = slept + ErrorSleep
    BY DEF TickError
  <1>2. Thrown(EmptyAckQueue) \/ Thrown(DiffQueue)
    BY DEF TickError
  <1>. QED
    BY <1>1, <1>2, QueuesAreJustSent, ThrownKeeps

-----------------------------------------------------------------------------
(* The theorems *)

LEMMA Unchanged == ASSUME IInv, UNCHANGED vars PROVE IInv'
  <1>1. UNCHANGED <<now, current, sent, next_ack_time, next_send_time, mindelay_clock,
                    pending_data_ack, last_heard, shutdown_start, shutdown_tries, peer_final,
                    peer_final_acked, rtt, phase, errors, slept, last_send, data_heard, unsent>>
    BY DEF vars, sender, counters, history
  <1>2. /\ LastSent' = LastSent /\ Known' = Known /\ ShuttingDown' = ShuttingDown
        /\ FirstOrNextAck' = FirstOrNextAck /\ \A t : Deadline(t)' = Deadline(t)
    BY <1>1, SameBounds
  <1>3. TypeOK' /\ Queue(sent, now)'
    BY <1>1 DEF IInv, TypeOK
  <1>4. Timers'
    BY <1>1, <1>2
       DEF IInv, Timers, PastOrNever, AckTimer, DataTimer, ChangeTimer, ShutdownTimer
  <1>5. NoSpin'
    <2>1. Assumed' = Assumed
      BY <1>1, SameAssumed
    <2>2. MindelayClock' = MindelayClock /\ NextAckTime' = NextAckTime
      BY <1>1, <1>2 DEF MindelayClock, NextAckTime
    <2>3. NextWakeup' = NextWakeup
      BY <1>1, <1>2, <2>1, <2>2 DEF NextWakeup, NextSendTime, ActivelyRetrying
    <2>. QED
      BY <1>1, <2>3 DEF IInv, Promises, NoSpin
  <1>6. Promises'
    BY <1>1, <1>2, <1>5
       DEF IInv, Promises, NeverSilent, DataIsAckedSoon, ChangeIsSentSoon, ShutdownEnds
  <1>. QED
    BY <1>3, <1>4, <1>6 DEF IInv

LEMMA Start == Init => IInv
  <1>. SUFFICES ASSUME Init PROVE IInv
    OBVIOUS
  <1>1. /\ now = 0 /\ current = InitState
        /\ sent = <<[timestamp |-> 0, state |-> InitState, final |-> FALSE]>>
        /\ next_ack_time = 0 /\ next_send_time = 0 /\ mindelay_clock = Never
        /\ pending_data_ack = FALSE /\ last_heard = 0
        /\ shutdown_start = Never /\ shutdown_tries = 0
        /\ peer_final = FALSE /\ peer_final_acked = FALSE /\ rtt \in Rtt /\ phase = "loop"
        /\ errors = 0 /\ slept = 0 /\ last_send = Never /\ data_heard = Never /\ unsent = Never
    BY DEF Init
  <1>2. 0 \in Nat /\ Never \in Nat /\ 0 < Never /\ MaxTime \in Nat /\ InitState \in State
        /\ SlowestInterval \in Nat
    BY <1>1, Widths, SlowestFacts, TimingAssumption
  <1>3. /\ sent \in Seq(SentEntry) /\ Len(sent) = 1 /\ sent[1].timestamp = 0
        /\ LastSent.timestamp = 0
    BY <1>1, <1>2 DEF SentEntry, LastSent, Last
  <1>4. TypeOK
    <2>1. now \in 0 .. MaxTime
      BY <1>1, <1>2
    <2>2. /\ next_ack_time \in Nat /\ next_send_time \in Nat /\ mindelay_clock \in Nat
          /\ last_heard \in Nat /\ shutdown_start \in Nat /\ shutdown_tries \in Nat
          /\ errors \in Nat /\ slept \in Nat /\ last_send \in Nat /\ data_heard \in Nat
          /\ unsent \in Nat
      BY <1>1, <1>2
    <2>3. {pending_data_ack, peer_final, peer_final_acked} \subseteq BOOLEAN
          /\ current \in State /\ phase \in {"loop", "network", "input", "done"}
      BY <1>1, <1>2
    <2>. QED
      BY <1>1, <1>3, <2>1, <2>2, <2>3 DEF TypeOK
  <1>5. Queue(sent, now)
    BY <1>1, <1>3 DEF Queue
  <1>6. FirstOrNextAck = 0 /\ Deadline(0) \in Nat /\ ~ShuttingDown
    BY <1>1, <1>2, <1>3 DEF FirstOrNextAck, Deadline, ShuttingDown, Larger
  <1>7. Timers
    BY <1>1, <1>2, <1>6
       DEF Timers, PastOrNever, AckTimer, DataTimer, ChangeTimer, ShutdownTimer
  <1>8. Promises
    BY <1>1, <1>2, <1>6
       DEF Promises, NeverSilent, DataIsAckedSoon, ChangeIsSentSoon, NoSpin, ShutdownEnds
  <1>. QED
    BY <1>4, <1>5, <1>7, <1>8 DEF IInv

LEMMA Invariant == Spec => []IInv
  <1>1. IInv /\ [Next]_vars => IInv'
    BY SelectKeeps, HearKeeps, RecvErrorKeeps, ChangeKeeps, StartShutdownKeeps, QuitKeeps,
       TickKeeps, TickErrorKeeps, Unchanged DEF Next
  <1>. QED
    BY Start, <1>1, PTL DEF Spec

(***************************************************************************)
(* update_assumed_receiver_state assumes the front of sent_states or its   *)
(* back, because culling, acknowledgments and resent states all leave the  *)
(* list sorted by timestamp.                                               *)
(***************************************************************************)
THEOREM AssumedFrontOrBack == Spec => []AssumedIsFrontOrBack
  <1>1. IInv => AssumedIsFrontOrBack
    BY AssumedFacts DEF AssumedIsFrontOrBack
  <1>. QED
    BY Invariant, <1>1, PTL

(***************************************************************************)
(* calculate_timers and tick never let more than ACK_INTERVAL pass without *)
(* a packet: the other end can tell a quiet peer from a lost one.  Apart   *)
(* from that are the pauses after exceptions, and a shutdown's wait for a  *)
(* frame after the last attempt.                                           *)
(***************************************************************************)
THEOREM Heartbeat == Spec => []NeverSilent
  <1>1. IInv => NeverSilent
    BY DEF IInv, Promises
  <1>. QED
    BY Invariant, <1>1, PTL

(***************************************************************************)
(* Data heard (set_data_ack) is acknowledged within ACK_DELAY, although    *)
(* each wakeup computes next_ack_time again.  Apart from that are the same *)
(* two: the pauses after exceptions, and the frame of a shutdown.          *)
(***************************************************************************)
THEOREM PromptAcks == Spec => []DataIsAckedSoon
  <1>1. IInv => DataIsAckedSoon
    BY DEF IInv, Promises
  <1>. QED
    BY Invariant, <1>1, PTL

(***************************************************************************)
(* A new state is sent SEND_MINDELAY after it was made, or one frame after *)
(* the last send: recomputing mindelay_clock never starts the delay again. *)
(***************************************************************************)
THEOREM PromptChanges == Spec => []ChangeIsSentSoon
  <1>1. IInv => ChangeIsSentSoon
    BY DEF IInv, Promises
  <1>. QED
    BY Invariant, <1>1, PTL

(***************************************************************************)
(* tick leaves wait_time positive, also when it had nothing to send: the   *)
(* main loop does not spin.                                                *)
(***************************************************************************)
THEOREM LoopSleeps == Spec => []NoSpin
  <1>1. IInv => NoSpin
    BY DEF IInv, Promises
  <1>. QED
    BY Invariant, <1>1, PTL

(***************************************************************************)
(* shutdown_ack_timed_out ends a shutdown that nobody acknowledges, within *)
(* ACTIVE_RETRY_TIMEOUT and one frame, the sleeps after exceptions apart.  *)
(***************************************************************************)
THEOREM ShutdownIsBounded == Spec => []ShutdownEnds
  <1>1. IInv => ShutdownEnds
    BY DEF IInv, Promises
  <1>. QED
    BY Invariant, <1>1, PTL
=============================================================================
