---------------------------- MODULE SessionProofs ----------------------------
(***************************************************************************)
(* The client's words are true and its bar is current, it gives up in      *)
(* time, and the keys are sent as they are to be read: for any timeouts    *)
(* and intervals, any keys, and any number of exceptions.                  *)
(*                                                                         *)
(* What makes it so: every way into select passes the bar's deadlines to   *)
(* it (Shown); only exceptions keep the loop from its checks, each for a   *)
(* sleep and a poll (InTime); and a byte is judged by what came before it  *)
(* alone, whatever comes after it (Keys).                                  *)
(***************************************************************************)
EXTENDS Session, SequenceTheorems, FiniteSetTheorems, TLAPS

\* The texts the engine is given, and the bytes the user types or the server is sent
Text == {"", "help", "exiting", "timed out", "connecting", "crypto", "error"}
Byte == Key \cup {"escape"}

Message == [text : Text, left : Int, network_error : BOOLEAN]
Bar == [text : Text, countup : BOOLEAN, age : Nat]
Sender == [in_progress : BOOLEAN, age : Nat, tries : Nat, acknowledged : BOOLEAN]

TypeOK ==
    /\ pc \in {"draw", "select", "input", "check", "tick", "ended"}
    /\ wait \in Nat /\ connected \in BOOLEAN
    /\ heard \in 0 .. IF connected THEN MaxAge ELSE MaxConnecting
    /\ acked \in Nat
    /\ message \in Message
    /\ screen \in Bar
    /\ shutdown \in Sender
    /\ quit_sequence_started \in BOOLEAN /\ lf_entered \in BOOLEAN
    /\ typed \in Seq(Byte) /\ delivered \in Seq(Byte)
    /\ faults \in Nat

\* What a message says of the keyboard, the sender and the connection
Meant(text, started, in_progress) ==
    /\ text = "help" => started
    /\ text \in {"exiting", "timed out"} => in_progress

Said ==
    /\ Meant(message.text, quit_sequence_started, shutdown.in_progress)
    /\ pc \in {"tick", "draw", "select"} /\ message.text = "connecting" => ~connected

\* select returns before the bar is out of date.
Shown ==
    pc = "select" =>
        /\ screen.text # "" => screen.text = message.text /\ wait <= message.left
        /\ screen.age + wait <= ACK_INTERVAL
        /\ screen.countup /\ heard <= DisconnectedLong => screen.age + wait <= CountupInterval
        /\ ~screen.countup => /\ heard + wait <= ServerLate + ACK_INTERVAL
                              /\ acked + wait <= ReplyLate + ACK_INTERVAL

\* The time exceptions cost, the wait still ahead, and the time between two checks
Lost(f) == f * (ErrorSleep + ConnectingPoll)
Ahead == IF pc = "select" THEN wait ELSE 0
Unchecked == IF pc \in {"select", "input", "check"} THEN ConnectingPoll ELSE 0

\* How long a client can be connecting, before its shutdown and with it
InTime ==
    /\ ~shutdown.in_progress => shutdown.age = 0
    /\ ~connected /\ ~shutdown.in_progress =>
           heard + Ahead <= ConnectingTimeout + Unchecked + Lost(faults)
    /\ ~connected /\ shutdown.in_progress =>
           /\ heard + Ahead <= ConnectingTimeout + ConnectingPoll + ACTIVE_RETRY_TIMEOUT
                                   + Unchecked + Lost(faults)
           /\ \/ heard <= shutdown.age + ConnectingTimeout + ConnectingPoll + Lost(faults)
              \/ shutdown.age >= ACTIVE_RETRY_TIMEOUT

\* Whatever is typed after the bytes s, to is what the part before the i-th is
\* read to, and plain whether a command may start there.
ReadTo(s, to, i, plain) ==
    \A more \in Seq(Byte) :
        Reading(s \o more)[1][FALSE] = to \o Reading(s \o more)[i][plain]

\* Between two bytes: a command is open, or the next byte may start one.
KeysRead(s, to, started, lf) ==
    IF started
    THEN /\ ~lf /\ Len(s) # 0
         /\ \E plain \in BOOLEAN :
               /\ ReadTo(s, to, Len(s), plain)
               /\ StartsAt(s, Len(s), plain) /\ (plain => Len(s) # 1)
    ELSE \E plain \in BOOLEAN :
            /\ ReadTo(s, to, Len(s) + 1, plain)
            /\ plain => Len(s) # 0
            /\ lf <=> plain /\ s[Len(s)] = "lf"

\* Once the client shuts down, no byte is looked at.
Keys(s, to, started, lf, in_progress) ==
    IF in_progress THEN to = Reading(s)[1][FALSE] ELSE KeysRead(s, to, started, lf)

IInv ==
    /\ TypeOK /\ Said /\ Shown /\ InTime
    /\ Keys(typed, delivered, quit_sequence_started, lf_entered, shutdown.in_progress)

-----------------------------------------------------------------------------
(* Numbers *)

\* Numbers have a least one.
LEMMA LeastNum ==
    ASSUME NEW T, T \subseteq Nat, T # {}
    PROVE  \E a \in T : \A b \in T : a <= b
  <1>. DEFINE Below(t) == {b \in T : b <= t}
              Family == {Below(t) : t \in T}
  <1>1. ASSUME NEW t \in T PROVE Below(t) \in FiniteSubsetsOf(T)
    <2>1. IsFiniteSet(0 .. t)
      BY FS_Interval, 0 \in Int, t \in Int
    <2>2. Below(t) \subseteq 0 .. t
      <3>1. \A b \in T : b \in Nat /\ (b <= t => b \in 0 .. t)
        OBVIOUS
      <3>. QED
        BY <3>1
    <2>. QED
      BY <2>1, <2>2, FS_Subset DEF FiniteSubsetsOf
  <1>2. Family # {} /\ Family \subseteq FiniteSubsetsOf(T)
    BY <1>1
  <1>3. PICK least \in Family : \A f \in Family : <<f, least>> \notin StrictSubsetOrdering(T)
    BY <1>2, FS_StrictSubsetOrderingWellFounded, WFMin
  <1>4. PICK a \in T : least = Below(a)
    OBVIOUS
  <1>5. ASSUME NEW b \in T, b < a PROVE FALSE
    <2>1. a \in Below(a) /\ a \notin Below(b)
      BY <1>5, a \in Nat, b \in Nat
    <2>2. \A c \in T : c <= b => c <= a
      BY <1>5
    <2>3. <<Below(b), Below(a)>> \in StrictSubsetOrdering(T)
      BY <2>1, <2>2 DEF StrictSubsetOrdering
    <2>. QED
      BY <1>3, <1>4, <2>3
  <1>. QED
    BY <1>5

LEMMA Induction ==
    ASSUME NEW n \in Nat, NEW T, 0 \in T, \A m \in 0 .. n - 1 : m \in T => m + 1 \in T
    PROVE  0 .. n \subseteq T
  <1>. DEFINE U == {m \in 0 .. n : m \notin T}
  <1>. SUFFICES ASSUME U # {} PROVE FALSE
    OBVIOUS
  <1>1. U \subseteq Nat
    OBVIOUS
  <1>. HIDE DEF U
  <1>2. PICK a \in U : \A b \in U : a <= b
    BY <1>1, LeastNum
  <1>3. a \in 0 .. n /\ a \notin T /\ a # 0
    BY <1>2 DEF U
  <1>4. a - 1 \in 0 .. n - 1 /\ a - 1 \in T /\ (a - 1) + 1 = a
    BY <1>2, <1>3 DEF U
  <1>. QED
    BY <1>3, <1>4

-----------------------------------------------------------------------------
(* What the bytes stand for *)

ReadStep(s, r, i, plain) ==
    IF i > Len(s) THEN <<>>
    ELSE IF ~StartsAt(s, i, plain) THEN <<s[i]>> \o r[i + 1][TRUE]
    ELSE IF i = Len(s) THEN <<>>
    ELSE Command(s[i + 1]) \o r[i + 2][FALSE]

\* r reads the last m bytes of s.
Reads(s, r, m) ==
    r = [i \in Len(s) + 1 - m .. Len(s) + 1 |-> [plain \in BOOLEAN |-> ReadStep(s, r, i, plain)]]

LEMMA ReaderExists ==
    ASSUME NEW s \in Seq(Byte)
    PROVE  \E r : Reads(s, r, Len(s))
  <1>. DEFINE T == {m \in 0 .. Len(s) : \E r : Reads(s, r, m)}
  <1>0. Len(s) \in Nat
    OBVIOUS
  <1>1. 0 \in T
    <2>. DEFINE r == [i \in Len(s) + 1 - 0 .. Len(s) + 1 |-> [plain \in BOOLEAN |-> <<>>]]
    <2>1. \A i \in Len(s) + 1 - 0 .. Len(s) + 1 : i > Len(s)
      BY <1>0
    <2>2. \A i \in Len(s) + 1 - 0 .. Len(s) + 1, plain \in BOOLEAN : ReadStep(s, r, i, plain) = <<>>
      BY <2>1 DEF ReadStep
    <2>3. Reads(s, r, 0)
      BY <2>2 DEF Reads
    <2>. QED
      BY <1>0, <2>3
  <1>2. ASSUME NEW m \in 0 .. Len(s) - 1, m \in T PROVE m + 1 \in T
    <2>1. PICK r : Reads(s, r, m)
      BY <1>2
    <2>. DEFINE new == Len(s) + 1 - (m + 1)
                all == new .. Len(s) + 1
                q == [i \in all |-> IF i = new THEN [plain \in BOOLEAN |-> ReadStep(s, r, i, plain)]
                                    ELSE r[i]]
    <2>2. /\ new \in Nat /\ new >= 1 /\ new <= Len(s) /\ new + 1 = Len(s) + 1 - m
          /\ all = {new} \cup (new + 1 .. Len(s) + 1)
      BY <1>0
    <2>3. ASSUME NEW i \in new + 1 .. Len(s) + 1
          PROVE  q[i] = r[i] /\ r[i] = [plain \in BOOLEAN |-> ReadStep(s, r, i, plain)]
      BY <2>1, <2>2 DEF Reads
    <2>. HIDE DEF q
    <2>4. ASSUME NEW i \in all, NEW plain \in BOOLEAN
          PROVE  ReadStep(s, q, i, plain) = ReadStep(s, r, i, plain)
      <3>1. i <= Len(s) => i + 1 \in new + 1 .. Len(s) + 1
        BY <1>0, <2>2
      <3>2. i < Len(s) => i + 2 \in new + 1 .. Len(s) + 1
        BY <1>0, <2>2
      <3>3. i \in Int /\ (~(i > Len(s)) => i <= Len(s)) /\ (i <= Len(s) /\ i # Len(s) => i < Len(s))
        BY <1>0, <2>2
      <3>. QED
        BY <2>3, <3>1, <3>2, <3>3 DEF ReadStep
    <2>5. ASSUME NEW i \in all
          PROVE  q[i] = [plain \in BOOLEAN |-> ReadStep(s, q, i, plain)]
      <3>1. q[i] = [plain \in BOOLEAN |-> ReadStep(s, r, i, plain)]
        BY <2>2, <2>3 DEF q
      <3>. QED
        BY <2>4, <3>1
    <2>6. q = [i \in all |-> q[i]]
      BY DEF q
    <2>7. Reads(s, q, m + 1)
      BY <2>5, <2>6 DEF Reads
    <2>8. m + 1 \in 0 .. Len(s)
      BY <1>0
    <2>. QED
      BY <2>7, <2>8
  <1>3. 0 .. Len(s) \subseteq T
    <2>. HIDE DEF T
    <2>. DEFINE n == Len(s)
    <2>1. n \in Nat /\ \A m \in 0 .. n - 1 : m \in T => m + 1 \in T
      BY <1>0, <1>2
    <2>. HIDE DEF n
    <2>2. 0 .. n \subseteq T
      BY <1>1, <2>1, Induction
    <2>. QED
      BY <2>2 DEF n
  <1>. QED
    BY <1>0, <1>3
LEMMA CommandType == ASSUME NEW byte \in Byte PROVE Command(byte) \in Seq(Byte)
  <1>1. "escape" \in Byte
    BY DEF Byte
  <1>. QED
    BY <1>1 DEF Command

LEMMA ReadingFacts ==
    ASSUME NEW s \in Seq(Byte), NEW i \in 1 .. Len(s) + 1, NEW plain \in BOOLEAN
    PROVE  /\ Reading(s)[i][plain] = ReadStep(s, Reading(s), i, plain)
           /\ Reading(s)[i][plain] \in Seq(Byte)
  <1>. DEFINE R == Reading(s)
  <1>0. Len(s) \in Nat /\ Len(s) + 1 - Len(s) = 1
    OBVIOUS
  <1>1. Reads(s, R, Len(s))
    <2>1. R = CHOOSE r : r = [j \in 1 .. Len(s) + 1 |-> [p \in BOOLEAN |->
                  IF j > Len(s) THEN <<>>
                  ELSE IF ~StartsAt(s, j, p) THEN <<s[j]>> \o r[j + 1][TRUE]
                  ELSE IF j = Len(s) THEN <<>>
                  ELSE Command(s[j + 1]) \o r[j + 2][FALSE]]]
      BY DEF Reading
    <2>2. PICK r : Reads(s, r, Len(s))
      BY ReaderExists
    <2>3. r = [j \in 1 .. Len(s) + 1 |-> [p \in BOOLEAN |->
                  IF j > Len(s) THEN <<>>
                  ELSE IF ~StartsAt(s, j, p) THEN <<s[j]>> \o r[j + 1][TRUE]
                  ELSE IF j = Len(s) THEN <<>>
                  ELSE Command(s[j + 1]) \o r[j + 2][FALSE]]]
      BY <1>0, <2>2 DEF Reads, ReadStep
    <2>. HIDE DEF R
    <2>4. R = [j \in 1 .. Len(s) + 1 |-> [p \in BOOLEAN |->
                  IF j > Len(s) THEN <<>>
                  ELSE IF ~StartsAt(s, j, p) THEN <<s[j]>> \o R[j + 1][TRUE]
                  ELSE IF j = Len(s) THEN <<>>
                  ELSE Command(s[j + 1]) \o R[j + 2][FALSE]]]
      BY <2>1, <2>3
    <2>. QED
      BY <1>0, <2>4 DEF Reads, ReadStep
  <1>. HIDE DEF R
  <1>2. ASSUME NEW j \in 1 .. Len(s) + 1, NEW p \in BOOLEAN PROVE R[j][p] = ReadStep(s, R, j, p)
    <2>1. R = [k \in Len(s) + 1 - Len(s) .. Len(s) + 1 |->
                  [q \in BOOLEAN |-> ReadStep(s, R, k, q)]]
      BY <1>1 DEF Reads
    <2>2. j \in Len(s) + 1 - Len(s) .. Len(s) + 1
      BY <1>0
    <2>3. R[j] = [q \in BOOLEAN |-> ReadStep(s, R, j, q)]
      BY <2>1, <2>2
    <2>. QED
      BY <2>3
  <1>. DEFINE T == {m \in 0 .. Len(s) :
                      \A j \in Len(s) + 1 - m .. Len(s) + 1, p \in BOOLEAN : R[j][p] \in Seq(Byte)}
  <1>3. 0 \in T
    <2>1. ASSUME NEW j \in Len(s) + 1 - 0 .. Len(s) + 1, NEW p \in BOOLEAN PROVE R[j][p] \in Seq(Byte)
      <3>1. j \in 1 .. Len(s) + 1 /\ j > Len(s)
        BY <1>0
      <3>2. R[j][p] = <<>>
        <4>1. ReadStep(s, R, j, p) = <<>>
          BY <3>1 DEF ReadStep
        <4>. QED
          BY <1>2, <3>1, <4>1
      <3>. QED
        BY <3>2
    <2>. QED
      BY <1>0, <2>1
  <1>4. ASSUME NEW m \in 0 .. Len(s) - 1, m \in T PROVE m + 1 \in T
    <2>1. ASSUME NEW j \in Len(s) + 1 - (m + 1) .. Len(s) + 1, NEW p \in BOOLEAN
          PROVE  R[j][p] \in Seq(Byte)
      <3>1. /\ j \in 1 .. Len(s) + 1
            /\ j # Len(s) + 1 - (m + 1) => j \in Len(s) + 1 - m .. Len(s) + 1
        BY <1>0
      <3>2. CASE j # Len(s) + 1 - (m + 1)
        BY <1>4, <3>1, <3>2
      <3>3. CASE j = Len(s) + 1 - (m + 1)
        <4>1. /\ j \in 1 .. Len(s) /\ j + 1 \in Len(s) + 1 - m .. Len(s) + 1
              /\ j # Len(s) => j + 1 \in 1 .. Len(s) /\ j + 2 \in Len(s) + 1 - m .. Len(s) + 1
          BY <1>0, <3>3
        <4>2. R[j + 1][TRUE] \in Seq(Byte) /\ (j # Len(s) => R[j + 2][FALSE] \in Seq(Byte))
          BY <1>4, <4>1
        <4>3. <<s[j]>> \in Seq(Byte) /\ (j # Len(s) => Command(s[j + 1]) \in Seq(Byte))
          BY <4>1, CommandType, SMTT(30)
        <4>4. /\ <<s[j]>> \o R[j + 1][TRUE] \in Seq(Byte)
              /\ j # Len(s) => Command(s[j + 1]) \o R[j + 2][FALSE] \in Seq(Byte)
          BY <4>2, <4>3, ConcatProperties
        <4>5. ReadStep(s, R, j, p) \in Seq(Byte)
          <5>0. ~(j > Len(s)) /\ <<>> \in Seq(Byte)
            BY <1>0, <4>1
          <5>1. \/ ReadStep(s, R, j, p) = <<s[j]>> \o R[j + 1][TRUE]
                \/ j = Len(s) /\ ReadStep(s, R, j, p) = <<>>
                \/ j # Len(s) /\ ReadStep(s, R, j, p) = Command(s[j + 1]) \o R[j + 2][FALSE]
            BY <5>0, Zenon DEF ReadStep
          <5>. QED
            BY <4>4, <5>0, <5>1, Zenon
        <4>. QED
          BY <1>2, <3>1, <4>5
      <3>. QED
        BY <3>2, <3>3
    <2>2. m + 1 \in 0 .. Len(s)
      BY <1>0
    <2>. QED
      BY <2>1, <2>2
  <1>5. 0 .. Len(s) \subseteq T
    <2>. HIDE DEF T
    <2>. DEFINE n == Len(s)
    <2>1. n \in Nat /\ \A m \in 0 .. n - 1 : m \in T => m + 1 \in T
      BY <1>0, <1>4
    <2>. HIDE DEF n
    <2>2. 0 .. n \subseteq T
      BY <1>3, <2>1, Induction
    <2>. QED
      BY <2>2 DEF n
  <1>6. Len(s) \in T
    BY <1>0, <1>5
  <1>7. R[i][plain] \in Seq(Byte)
    BY <1>0, <1>6
  <1>. QED
    BY <1>2, <1>7 DEF R
-----------------------------------------------------------------------------
(* The keyboard *)

Starts(b, lf) == b = "escape" /\ (lf \/ ~EscapeRequiresLf)

LEMMA ReadAll ==
    ASSUME NEW s \in Seq(Byte), NEW to \in Seq(Byte), NEW started, NEW lf,
           KeysRead(s, to, started, lf)
    PROVE  to = Reading(s)[1][FALSE]
  <1>0. Len(s) \in Nat /\ <<>> \in Seq(Byte) /\ s \o <<>> = s /\ to \o <<>> = to
    BY ConcatEmptySeq
  <1>1. CASE started
    <2>1. PICK plain \in BOOLEAN :
              ReadTo(s, to, Len(s), plain) /\ StartsAt(s, Len(s), plain) /\ Len(s) # 0
      BY <1>1 DEF KeysRead
    <2>2. Len(s) \in 1 .. Len(s) + 1 /\ ~(Len(s) > Len(s))
      BY <1>0, <2>1
    <2>3. Reading(s)[Len(s)][plain] = ReadStep(s, Reading(s), Len(s), plain)
      BY <2>2, ReadingFacts
    <2>4. ReadStep(s, Reading(s), Len(s), plain) = <<>>
      BY <2>1, <2>2 DEF ReadStep
    <2>5. Reading(s)[1][FALSE] = to \o Reading(s)[Len(s)][plain]
      <3>1. Reading(s \o <<>>)[1][FALSE] = to \o Reading(s \o <<>>)[Len(s)][plain]
        BY <1>0, <2>1, Zenon DEF ReadTo
      <3>. QED
        BY <1>0, <3>1, Zenon
    <2>. QED
      BY <1>0, <2>3, <2>4, <2>5, Zenon
  <1>2. CASE ~started
    <2>1. PICK plain \in BOOLEAN : ReadTo(s, to, Len(s) + 1, plain)
      BY <1>2 DEF KeysRead
    <2>2. Len(s) + 1 \in 1 .. Len(s) + 1 /\ Len(s) + 1 > Len(s)
      BY <1>0
    <2>3. Reading(s)[Len(s) + 1][plain] = ReadStep(s, Reading(s), Len(s) + 1, plain)
      BY <2>2, ReadingFacts
    <2>4. ReadStep(s, Reading(s), Len(s) + 1, plain) = <<>>
      BY <2>2 DEF ReadStep
    <2>5. Reading(s)[1][FALSE] = to \o Reading(s)[Len(s) + 1][plain]
      <3>1. Reading(s \o <<>>)[1][FALSE] = to \o Reading(s \o <<>>)[Len(s) + 1][plain]
        BY <1>0, <2>1, Zenon DEF ReadTo
      <3>. QED
        BY <1>0, <3>1, Zenon
    <2>. QED
      BY <1>0, <2>3, <2>4, <2>5, Zenon
  <1>. QED
    BY <1>1, <1>2

LEMMA Before == ASSUME NEW n \in Nat, n # 0, n # 1 PROVE n - 1 \in 1 .. n
  OBVIOUS

Associates(x, y, z) == x \o (y \o z) = (x \o y) \o z

LEMMA Assoc ==
    ASSUME NEW x \in Seq(Byte), NEW y \in Seq(Byte), NEW z \in Seq(Byte)
    PROVE  Associates(x, y, z)
  BY ConcatAssociative, SMTT(30) DEF Associates

LEMMA Concat ==
    ASSUME NEW x \in Seq(Byte), NEW y \in Seq(Byte)
    PROVE  /\ x \o y \in Seq(Byte) /\ Len(x \o y) = Len(x) + Len(y)
           /\ \A i \in 1 .. Len(x) + Len(y) :
                 (x \o y)[i] = IF i <= Len(x) THEN x[i] ELSE y[i - Len(x)]
  BY ConcatProperties

\* u is s, then the byte b, and more after it.
Follows(u, s, b) ==
    /\ Len(u) \in Nat /\ Len(s) + 1 <= Len(u) /\ u[Len(s) + 1] = b
    /\ \A i \in 1 .. Len(s) : u[i] = s[i]

LEMMA MoreBytes ==
    ASSUME NEW s \in Seq(Byte), NEW b \in Byte, NEW more \in Seq(Byte)
    PROVE  \E e \in Seq(Byte), u \in Seq(Byte) :
              u = s \o e /\ u = Append(s, b) \o more /\ Follows(u, s, b)
  <1>. DEFINE c == <<b>>
  <1>1. c \in Seq(Byte) /\ Len(c) = 1 /\ c[1] = b
    OBVIOUS
  <1>2. Append(s, b) = s \o c
    BY AppendIsConcat
  <1>. HIDE DEF c
  <1>. DEFINE e == c \o more
              u == s \o e
  <1>3. /\ e \in Seq(Byte) /\ Len(e) = 1 + Len(more) /\ e[1] = b
        /\ Len(more) \in Nat /\ Len(s) \in Nat
    <2>1. Len(more) \in Nat /\ Len(s) \in Nat
      OBVIOUS
    <2>2. /\ e \in Seq(Byte) /\ Len(e) = Len(c) + Len(more)
          /\ \A i \in 1 .. Len(c) + Len(more) :
                e[i] = IF i <= Len(c) THEN c[i] ELSE more[i - Len(c)]
      BY <1>1, ConcatProperties
    <2>3. 1 \in 1 .. Len(c) + Len(more) /\ 1 <= Len(c)
      BY <1>1, <2>1
    <2>. HIDE DEF e
    <2>. QED
      BY <1>1, <2>1, <2>2, <2>3
  <1>4. u = Append(s, b) \o more
    BY <1>1, <1>2, ConcatAssociative, SMTT(30)
  <1>. HIDE DEF e
  <1>5. /\ u \in Seq(Byte) /\ Len(u) = Len(s) + Len(e)
        /\ \A i \in 1 .. Len(s) + Len(e) : u[i] = IF i <= Len(s) THEN s[i] ELSE e[i - Len(s)]
    BY <1>3, Concat
  <1>8. u = s \o e
    OBVIOUS
  <1>. HIDE DEF u
  <1>6. /\ Len(s) + 1 \in 1 .. Len(s) + Len(e) /\ ~(Len(s) + 1 <= Len(s))
        /\ (Len(s) + 1) - Len(s) = 1
        /\ \A i \in 1 .. Len(s) : i \in 1 .. Len(s) + Len(e) /\ i <= Len(s)
    BY <1>3
  <1>7. u[Len(s) + 1] = b /\ \A i \in 1 .. Len(s) : u[i] = s[i]
    BY <1>3, <1>5, <1>6
  <1>9. Follows(u, s, b)
    <2>1. Len(u) \in Nat /\ Len(s) + 1 <= Len(u)
      BY <1>3, <1>5
    <2>. QED
      BY <1>7, <2>1 DEF Follows
  <1>. QED
    BY <1>3, <1>4, <1>5, <1>8, <1>9, Zenon

\* The byte that ends a command
LEMMA EndsCommand ==
    ASSUME NEW s \in Seq(Byte), NEW to \in Seq(Byte), NEW b \in Byte, NEW lf \in BOOLEAN,
           KeysRead(s, to, TRUE, lf)
    PROVE  KeysRead(Append(s, b), to \o Command(b), FALSE, lf)
  <1>. DEFINE t == Append(s, b)
  <1>0. /\ t \in Seq(Byte) /\ Len(t) = Len(s) + 1 /\ Len(s) \in Nat
        /\ Command(b) \in Seq(Byte)
    BY AppendProperties, CommandType
  <1>1. PICK plain \in BOOLEAN :
            /\ ReadTo(s, to, Len(s), plain) /\ ~lf /\ Len(s) # 0
            /\ StartsAt(s, Len(s), plain) /\ (plain => Len(s) # 1)
    BY DEF KeysRead
  <1>2. ASSUME NEW more \in Seq(Byte)
        PROVE  Reading(t \o more)[1][FALSE]
                 = (to \o Command(b)) \o Reading(t \o more)[Len(t) + 1][FALSE]
    <2>0. PICK e \in Seq(Byte), u \in Seq(Byte) :
              u = s \o e /\ u = t \o more /\ Follows(u, s, b)
      BY MoreBytes, Zenon
    <2>1. /\ u = s \o e /\ u = t \o more
          /\ Len(u) \in Nat /\ Len(s) + 1 <= Len(u) /\ u[Len(s) + 1] = b
          /\ \A i \in 1 .. Len(s) : u[i] = s[i]
      BY <2>0 DEF Follows
    <2>. HIDE DEF t
    <2>2. Reading(u)[1][FALSE] = to \o Reading(u)[Len(s)][plain]
      BY <1>1, <2>1, Zenon DEF ReadTo
    <2>3. StartsAt(u, Len(s), plain)
      <3>1. Len(s) \in 1 .. Len(s) /\ (plain => Len(s) - 1 \in 1 .. Len(s))
        <4>1. Len(s) \in Nat /\ Len(s) # 0 /\ (plain => Len(s) # 1)
          BY <1>0, <1>1
        <4>2. ASSUME plain PROVE Len(s) - 1 \in 1 .. Len(s)
          <5>1. Len(s) \in Nat /\ Len(s) # 0 /\ Len(s) # 1
            BY <4>1, <4>2, Zenon
          <5>. QED
            BY <5>1, Before, Zenon
        <4>3. Len(s) \in 1 .. Len(s)
          BY <4>1
        <4>. QED
          BY <4>2, <4>3, Zenon
      <3>. QED
        BY <1>1, <2>1, <3>1 DEF StartsAt
    <2>4. /\ Len(s) \in 1 .. Len(u) + 1 /\ ~(Len(s) > Len(u)) /\ Len(s) # Len(u)
          /\ Len(s) + 2 \in 1 .. Len(u) + 1 /\ Len(s) + 2 = Len(t) + 1
      BY <1>0, <1>1, <2>1
    <2>5. Reading(u)[Len(s)][plain] = Command(b) \o Reading(u)[Len(s) + 2][FALSE]
      <3>1. Reading(u)[Len(s)][plain] = ReadStep(u, Reading(u), Len(s), plain)
        BY <2>4, ReadingFacts
      <3>2. ReadStep(u, Reading(u), Len(s), plain) = Command(b) \o Reading(u)[Len(s) + 2][FALSE]
        BY <2>1, <2>3, <2>4, Zenon DEF ReadStep
      <3>. QED
        BY <3>1, <3>2, Zenon
    <2>6. Reading(u)[Len(s) + 2][FALSE] \in Seq(Byte)
      BY <2>4, ReadingFacts
    <2>7. to \o (Command(b) \o Reading(u)[Len(s) + 2][FALSE])
              = (to \o Command(b)) \o Reading(u)[Len(s) + 2][FALSE]
      <3>. DEFINE d == Command(b)
                  r == Reading(u)[Len(s) + 2][FALSE]
      <3>1. to \in Seq(Byte) /\ d \in Seq(Byte) /\ r \in Seq(Byte)
        BY <1>0, <2>6
      <3>. HIDE DEF d, r
      <3>2. Associates(to, d, r)
        BY <3>1, Assoc
      <3>. QED
        BY <3>2, Zenon DEF d, r, Associates
    <2>. QED
      BY <2>1, <2>2, <2>4, <2>5, <2>7, Zenon
  <1>. HIDE DEF t
  <1>. QED
    BY <1>1, <1>2 DEF KeysRead, ReadTo, t

\* The byte that starts one
LEMMA StartsCommand ==
    ASSUME NEW s \in Seq(Byte), NEW to \in Seq(Byte), NEW b \in Byte, NEW lf \in BOOLEAN,
           KeysRead(s, to, FALSE, lf), Starts(b, lf)
    PROVE  KeysRead(Append(s, b), to, TRUE, FALSE)
  <1>. DEFINE t == Append(s, b)
  <1>0. /\ t \in Seq(Byte) /\ Len(t) = Len(s) + 1 /\ Len(s) \in Nat
        /\ t[Len(s) + 1] = b /\ \A i \in 1 .. Len(s) : t[i] = s[i]
    BY AppendProperties
  <1>1. PICK plain \in BOOLEAN :
            /\ ReadTo(s, to, Len(s) + 1, plain) /\ (plain => Len(s) # 0)
            /\ lf <=> plain /\ s[Len(s)] = "lf"
    BY DEF KeysRead
  <1>2. ASSUME NEW more \in Seq(Byte)
        PROVE  Reading(t \o more)[1][FALSE] = to \o Reading(t \o more)[Len(t)][plain]
    <2>1. PICK e \in Seq(Byte), u \in Seq(Byte) :
              u = s \o e /\ u = t \o more /\ Follows(u, s, b)
      BY MoreBytes, Zenon
    <2>. HIDE DEF t
    <2>. QED
      BY <1>0, <1>1, <2>1, ZenonT(40) DEF ReadTo
  <1>. HIDE DEF t
  <1>3. StartsAt(t, Len(t), plain)
    <2>1. plain => Len(s) \in 1 .. Len(s) /\ Len(t) - 1 = Len(s)
      BY <1>0, <1>1
    <2>. QED
      BY <1>0, <1>1, <2>1 DEF StartsAt, Starts
  <1>4. Len(t) # 0 /\ (plain => Len(t) # 1)
    BY <1>0, <1>1
  <1>. QED
    BY <1>2, <1>3, <1>4 DEF KeysRead, ReadTo, t

\* Any other
LEMMA StandsForItself ==
    ASSUME NEW s \in Seq(Byte), NEW to \in Seq(Byte), NEW b \in Byte, NEW lf \in BOOLEAN,
           KeysRead(s, to, FALSE, lf), ~Starts(b, lf)
    PROVE  KeysRead(Append(s, b), Append(to, b), FALSE, b = "lf")
  <1>. DEFINE t == Append(s, b)
              c == <<b>>
  <1>0. /\ t \in Seq(Byte) /\ Len(t) = Len(s) + 1 /\ Len(s) \in Nat
        /\ t[Len(s) + 1] = b /\ c \in Seq(Byte) /\ Append(to, b) = to \o c
    BY AppendProperties, AppendIsConcat
  <1>1. PICK plain \in BOOLEAN :
            /\ ReadTo(s, to, Len(s) + 1, plain) /\ (plain => Len(s) # 0)
            /\ lf <=> plain /\ s[Len(s)] = "lf"
    BY DEF KeysRead
  <1>2. ASSUME NEW more \in Seq(Byte)
        PROVE  Reading(t \o more)[1][FALSE]
                 = Append(to, b) \o Reading(t \o more)[Len(t) + 1][TRUE]
    <2>0. PICK e \in Seq(Byte), u \in Seq(Byte) :
              u = s \o e /\ u = t \o more /\ Follows(u, s, b)
      BY MoreBytes, Zenon
    <2>1. /\ u = s \o e /\ u = t \o more
          /\ Len(u) \in Nat /\ Len(s) + 1 <= Len(u) /\ u[Len(s) + 1] = b
          /\ \A i \in 1 .. Len(s) : u[i] = s[i]
      BY <2>0 DEF Follows
    <2>. HIDE DEF t, c
    <2>2. Reading(u)[1][FALSE] = to \o Reading(u)[Len(s) + 1][plain]
      BY <1>1, <2>1, Zenon DEF ReadTo
    <2>3. ~StartsAt(u, Len(s) + 1, plain)
      <3>1. plain => Len(s) \in 1 .. Len(s)
        BY <1>0, <1>1
      <3>2. (Len(s) + 1) - 1 = Len(s)
        BY <1>0
      <3>. QED
        BY <1>1, <2>1, <3>1, <3>2 DEF StartsAt, Starts
    <2>4. /\ Len(s) + 1 \in 1 .. Len(u) + 1 /\ ~(Len(s) + 1 > Len(u))
          /\ (Len(s) + 1) + 1 \in 1 .. Len(u) + 1 /\ (Len(s) + 1) + 1 = Len(t) + 1
      BY <1>0, <2>1
    <2>5. Reading(u)[Len(s) + 1][plain] = c \o Reading(u)[(Len(s) + 1) + 1][TRUE]
      <3>1. Reading(u)[Len(s) + 1][plain] = ReadStep(u, Reading(u), Len(s) + 1, plain)
        BY <2>4, ReadingFacts
      <3>2. ReadStep(u, Reading(u), Len(s) + 1, plain) = c \o Reading(u)[(Len(s) + 1) + 1][TRUE]
        BY <2>1, <2>3, <2>4, Zenon DEF ReadStep, c
      <3>. QED
        BY <3>1, <3>2, Zenon
    <2>6. Reading(u)[(Len(s) + 1) + 1][TRUE] \in Seq(Byte)
      BY <2>4, ReadingFacts
    <2>7. to \o (c \o Reading(u)[(Len(s) + 1) + 1][TRUE])
              = (to \o c) \o Reading(u)[(Len(s) + 1) + 1][TRUE]
      <3>. DEFINE d == c
                  r == Reading(u)[(Len(s) + 1) + 1][TRUE]
      <3>1. to \in Seq(Byte) /\ d \in Seq(Byte) /\ r \in Seq(Byte)
        BY <1>0, <2>6
      <3>. HIDE DEF d, r
      <3>2. Associates(to, d, r)
        BY <3>1, Assoc
      <3>. QED
        BY <3>2, Zenon DEF d, r, Associates
    <2>. QED
      BY <1>0, <2>1, <2>2, <2>4, <2>5, <2>7, Zenon
  <1>. HIDE DEF t, c
  <1>3. Len(t) # 0 /\ t[Len(t)] = b
    BY <1>0
  <1>4. ReadTo(t, Append(to, b), Len(t) + 1, TRUE)
    BY <1>2 DEF ReadTo
  <1>. QED
    BY <1>3, <1>4 DEF KeysRead, t
Keyboard == [message : Message, shutdown : Sender, typed : Seq(Byte), delivered : Seq(Byte),
             lf_entered : BOOLEAN, quit_sequence_started : BOOLEAN]

\* What process_user_input makes of the sender h
Good(h) == {k \in Keyboard :
    /\ Meant(k.message.text, k.quit_sequence_started, k.shutdown.in_progress)
    /\ Keys(k.typed, k.delivered, k.quit_sequence_started, k.lf_entered, k.shutdown.in_progress)
    /\ k.shutdown \in {h, StartedShutdown(h)}}

LEMMA MessageTypes ==
    /\ \A text \in Text : Permanent(text) \in Message /\ Passing(text) \in Message
    /\ NetworkError \in Message
    /\ \A m \in Message : HelpCleared(m) \in Message
  <1>1. Forever \in Int /\ MessageTime \in Int /\ NetworkErrorTime \in Int
    BY SessionAssumption DEF Forever
  <1>2. "" \in Text /\ "error" \in Text
    BY DEF Text
  <1>3. \A text \in Text : Permanent(text) \in Message /\ Passing(text) \in Message
    BY <1>1 DEF Permanent, Passing, Message
  <1>4. NetworkError \in Message
    BY <1>1, <1>2 DEF NetworkError, Message
  <1>. QED
    BY <1>2, <1>3, <1>4 DEF HelpCleared

LEMMA UserByteKeeps ==
    ASSUME NEW h \in Sender, NEW k \in Good(h), NEW b \in Key
    PROVE  UserByte(k, b) \in Good(h)
  <1>. DEFINE m == k.message
              g == k.shutdown
              s == k.typed
              d == k.delivered
              l == k.lf_entered
              q == k.quit_sequence_started
              t == Append(s, b)
              Rec(mm, gg, ss, dd, ll, qq) ==
                  [message |-> mm, shutdown |-> gg, typed |-> ss, delivered |-> dd,
                   lf_entered |-> ll, quit_sequence_started |-> qq]
  <1>0. b \in Byte
    BY DEF Byte
  <1>1. /\ m \in Message /\ g \in Sender /\ s \in Seq(Byte) /\ d \in Seq(Byte)
        /\ l \in BOOLEAN /\ q \in BOOLEAN
        /\ k = Rec(m, g, s, d, l, q)
    BY DEF Good, Keyboard
  <1>2. /\ Meant(m.text, q, g.in_progress) /\ Keys(s, d, q, l, g.in_progress)
        /\ g \in {h, StartedShutdown(h)}
    BY DEF Good
  <1>3. t \in Seq(Byte)
    BY <1>0, <1>1, AppendProperties
  <1>4. ASSUME NEW mm \in Message, NEW gg \in Sender, NEW dd \in Seq(Byte), NEW ll \in BOOLEAN,
               NEW qq \in BOOLEAN, Meant(mm.text, qq, gg.in_progress),
               Keys(t, dd, qq, ll, gg.in_progress), gg \in {h, StartedShutdown(h)}
        PROVE  Rec(mm, gg, t, dd, ll, qq) \in Good(h)
    <2>. HIDE DEF t
    <2>. QED
      BY <1>3, <1>4 DEF Good, Keyboard
  <1>5. CASE g.in_progress
    BY <1>5 DEF UserByte
  <1>6. CASE ~g.in_progress /\ q /\ b = "."
    <2>1. UserByte(k, b) = Rec(Permanent("exiting"), StartedShutdown(g), t, d, l, q)
      BY <1>1, <1>6 DEF UserByte, SequenceEnded
    <2>2. StartedShutdown(g) \in Sender /\ StartedShutdown(g).in_progress
          /\ StartedShutdown(g) = StartedShutdown(h)
      BY <1>1, <1>2 DEF StartedShutdown, Sender
    <2>3. Permanent("exiting") \in Message /\ Permanent("exiting").text = "exiting"
      BY MessageTypes DEF Permanent, Text
    <2>4. d = Reading(t)[1][FALSE]
      <3>1. KeysRead(s, d, TRUE, l)
        BY <1>1, <1>2, <1>6 DEF Keys
      <3>2. KeysRead(t, d \o Command(b), FALSE, l)
        BY <1>0, <1>1, <3>1, EndsCommand
      <3>3. d \o Command(b) = d
        BY <1>1, <1>6, ConcatEmptySeq DEF Command
      <3>. QED
        BY <1>1, <1>3, <3>2, <3>3, ReadAll
    <2>5. Keys(t, d, q, l, TRUE)
      BY <2>4 DEF Keys
    <2>. HIDE DEF t, Rec
    <2>. QED
      BY <1>1, <1>4, <2>1, <2>2, <2>3, <2>5, ZenonT(60) DEF Meant
  <1>7. CASE ~g.in_progress /\ q /\ b # "."
    <2>1. UserByte(k, b) = Rec(HelpCleared(m), g, t, d \o Command(b), l, FALSE)
      <3>1. Escaped(b) = Command(b)
        BY <1>7 DEF Escaped, Command
      <3>. QED
        BY <1>1, <1>7, <3>1 DEF UserByte, SequenceEnded
    <2>2. HelpCleared(m) \in Message /\ Meant(HelpCleared(m).text, FALSE, g.in_progress)
      BY <1>1, <1>2, MessageTypes DEF HelpCleared, Meant, Passing
    <2>3. KeysRead(t, d \o Command(b), FALSE, l)
      <3>1. KeysRead(s, d, TRUE, l)
        BY <1>1, <1>2, <1>7 DEF Keys
      <3>. QED
        BY <1>0, <1>1, <3>1, EndsCommand
    <2>4. d \o Command(b) \in Seq(Byte)
      BY <1>0, <1>1, CommandType, Concat
    <2>5. Keys(t, d \o Command(b), FALSE, l, g.in_progress)
      BY <1>7, <2>3 DEF Keys
    <2>. HIDE DEF t, Rec
    <2>. QED
      BY <1>1, <1>2, <1>4, <2>1, <2>2, <2>4, <2>5, ZenonT(60)
  <1>8. CASE ~g.in_progress /\ ~q /\ Starts(b, l)
    <2>1. UserByte(k, b) = Rec(Permanent("help"), g, t, d, FALSE, TRUE)
      BY <1>1, <1>8 DEF UserByte, StartsSequence, Starts
    <2>2. Permanent("help") \in Message /\ Meant(Permanent("help").text, TRUE, g.in_progress)
      BY MessageTypes DEF Permanent, Text, Meant
    <2>3. KeysRead(t, d, TRUE, FALSE)
      <3>1. KeysRead(s, d, FALSE, l)
        BY <1>1, <1>2, <1>8 DEF Keys
      <3>. QED
        BY <1>0, <1>1, <1>8, <3>1, StartsCommand
    <2>5. Keys(t, d, TRUE, FALSE, g.in_progress)
      BY <1>8, <2>3 DEF Keys
    <2>. HIDE DEF t, Rec
    <2>. QED
      BY <1>1, <1>2, <1>4, <2>1, <2>2, <2>5
  <1>9. CASE ~g.in_progress /\ ~q /\ ~Starts(b, l)
    <2>. DEFINE c == b = "lf"
    <2>1. UserByte(k, b) = Rec(m, g, t, Append(d, b), c, FALSE)
      BY <1>1, <1>9 DEF UserByte, StartsSequence, Starts
    <2>2. Meant(m.text, FALSE, g.in_progress)
      BY <1>2, <1>9 DEF Meant
    <2>3. KeysRead(t, Append(d, b), FALSE, c)
      <3>1. KeysRead(s, d, FALSE, l)
        BY <1>1, <1>2, <1>9 DEF Keys
      <3>. QED
        BY <1>0, <1>1, <1>9, <3>1, StandsForItself
    <2>4. Append(d, b) \in Seq(Byte) /\ c \in BOOLEAN
      BY <1>0, <1>1, AppendProperties
    <2>5. Keys(t, Append(d, b), FALSE, c, g.in_progress)
      BY <1>9, <2>3 DEF Keys
    <2>. HIDE DEF t, Rec, c
    <2>. QED
      BY <1>1, <1>2, <1>4, <2>1, <2>2, <2>4, <2>5, ZenonT(60)
  <1>. QED
    BY <1>5, <1>6, <1>7, <1>8, <1>9

\* What a byte keeps, bytes keep.
LEMMA UserBytesKeep ==
    ASSUME NEW G, NEW k \in G, \A r \in G, b \in Key : UserByte(r, b) \in G,
           NEW bytes \in Seq(Key)
    PROVE  UserBytes(k, bytes) \in G
  <1>. DEFINE Does(a, m) ==
                  a = [i \in 0 .. m |-> IF i = 0 THEN k ELSE UserByte(a[i - 1], bytes[i])]
              T == {m \in 0 .. Len(bytes) : \E a : Does(a, m)}
  <1>0. Len(bytes) \in Nat
    OBVIOUS
  <1>1. 0 \in T
    <2>. DEFINE a == [i \in 0 .. 0 |-> k]
    <2>1. a = [i \in 0 .. 0 |-> IF i = 0 THEN k ELSE UserByte(a[i - 1], bytes[i])]
      OBVIOUS
    <2>2. Does(a, 0)
      BY <2>1
    <2>3. 0 \in 0 .. Len(bytes)
      BY <1>0
    <2>. HIDE DEF Does, a
    <2>. QED
      BY <2>2, <2>3
  <1>2. ASSUME NEW m \in 0 .. Len(bytes) - 1, m \in T PROVE m + 1 \in T
    <2>1. PICK a : Does(a, m)
      BY <1>2
    <2>. DEFINE c == [i \in 0 .. m + 1 |-> IF i <= m THEN a[i] ELSE UserByte(a[m], bytes[i])]
    <2>2. ASSUME NEW i \in 0 .. m + 1
          PROVE  c[i] = IF i = 0 THEN k ELSE UserByte(c[i - 1], bytes[i])
      <3>1. m \in Nat /\ i \in Int
        BY <1>0
      <3>2. CASE i <= m
        <4>1. i \in 0 .. m /\ (i # 0 => i - 1 \in 0 .. m + 1 /\ i - 1 <= m)
          BY <3>1, <3>2
        <4>2. c[i] = a[i] /\ (i # 0 => c[i - 1] = a[i - 1])
          BY <3>2, <4>1
        <4>3. a[i] = IF i = 0 THEN k ELSE UserByte(a[i - 1], bytes[i])
          BY <2>1, <4>1
        <4>. HIDE DEF c
        <4>. QED
          BY <4>2, <4>3
      <3>3. CASE ~(i <= m)
        <4>1. i = m + 1 /\ i # 0 /\ i - 1 = m /\ m \in 0 .. m + 1 /\ m <= m
          BY <3>1, <3>3
        <4>2. c[i] = UserByte(a[m], bytes[i]) /\ c[m] = a[m]
          BY <3>3, <4>1
        <4>. HIDE DEF c
        <4>. QED
          BY <4>1, <4>2
      <3>. QED
        BY <3>2, <3>3
    <2>3. c = [i \in 0 .. m + 1 |-> c[i]]
      OBVIOUS
    <2>. HIDE DEF c
    <2>4. Does(c, m + 1)
      BY <2>2, <2>3
    <2>5. m + 1 \in 0 .. Len(bytes)
      BY <1>0
    <2>. HIDE DEF Does
    <2>. QED
      BY <2>4, <2>5
  <1>3. PICK a : Does(a, Len(bytes))
    <2>. HIDE DEF T
    <2>. DEFINE n == Len(bytes)
    <2>1. n \in Nat /\ \A m \in 0 .. n - 1 : m \in T => m + 1 \in T
      BY <1>0, <1>2
    <2>. HIDE DEF n
    <2>2. 0 .. n \subseteq T
      BY <1>1, <2>1, Induction
    <2>3. n \in T
      BY <2>1, <2>2
    <2>. QED
      BY <2>3 DEF n, T
  <1>. DEFINE A == CHOOSE r : r = [i \in 0 .. Len(bytes) |->
                                      IF i = 0 THEN k ELSE UserByte(r[i - 1], bytes[i])]
  <1>4. UserBytes(k, bytes) = A[Len(bytes)]
    BY DEF UserBytes
  <1>5. A = [i \in 0 .. Len(bytes) |-> IF i = 0 THEN k ELSE UserByte(A[i - 1], bytes[i])]
    BY <1>3
  <1>. HIDE DEF A
  <1>. DEFINE U == {i \in 0 .. Len(bytes) : A[i] \in G}
  <1>6. 0 \in U
    BY <1>0, <1>5
  <1>7. ASSUME NEW m \in 0 .. Len(bytes) - 1, m \in U PROVE m + 1 \in U
    <2>1. m + 1 \in 0 .. Len(bytes) /\ m + 1 # 0 /\ (m + 1) - 1 = m /\ m + 1 \in 1 .. Len(bytes)
      BY <1>0
    <2>2. A[m + 1] = UserByte(A[m], bytes[m + 1])
      BY <1>5, <2>1
    <2>3. bytes[m + 1] \in Key /\ A[m] \in G
      BY <1>7, <2>1
    <2>. QED
      BY <2>1, <2>2, <2>3
  <1>8. Len(bytes) \in U
    <2>. HIDE DEF U
    <2>. DEFINE n == Len(bytes)
    <2>1. n \in Nat /\ \A m \in 0 .. n - 1 : m \in U => m + 1 \in U
      BY <1>0, <1>7
    <2>. HIDE DEF n
    <2>2. 0 .. n \subseteq U
      BY <1>6, <2>1, Induction
    <2>3. n \in U
      BY <2>1, <2>2
    <2>. QED
      BY <2>3 DEF n
  <1>. QED
    BY <1>4, <1>8
-----------------------------------------------------------------------------
(* Time *)

LEMMA Constants ==
    /\ ConnectingPoll \in Nat \ {0} /\ ConnectingTimeout \in Nat /\ MessageTime \in Nat
    /\ NetworkErrorTime \in Nat /\ ErrorSleep \in Nat /\ ServerLate \in Nat /\ ReplyLate \in Nat
    /\ DisconnectedLong \in Nat /\ CountupInterval \in Nat \ {0} /\ ACK_INTERVAL \in Nat \ {0}
    /\ ACTIVE_RETRY_TIMEOUT \in Nat /\ SHUTDOWN_RETRIES \in Nat
    /\ MaxAge \in Nat /\ MaxConnecting \in Nat
    /\ ConnectingPoll <= ConnectingTimeout /\ ACTIVE_RETRY_TIMEOUT <= MaxAge
    /\ Forever \in Nat
  <1>1. /\ ConnectingPoll \in Nat \ {0} /\ ConnectingTimeout \in Nat /\ MessageTime \in Nat
        /\ NetworkErrorTime \in Nat /\ ErrorSleep \in Nat /\ ServerLate \in Nat /\ ReplyLate \in Nat
    BY SessionAssumption
  <1>2. /\ DisconnectedLong \in Nat /\ CountupInterval \in Nat \ {0} /\ ACK_INTERVAL \in Nat \ {0}
        /\ ACTIVE_RETRY_TIMEOUT \in Nat /\ SHUTDOWN_RETRIES \in Nat
    BY SessionAssumption
  <1>3. MaxAge \in Nat /\ MaxConnecting \in Nat
    BY SessionAssumption
  <1>. QED
    BY <1>1, <1>2, <1>3, SessionAssumption DEF Forever

LEMMA LeastFacts ==
    ASSUME NEW S, \E m \in S : \A n \in S : m <= n
    PROVE  Least(S) \in S /\ \A n \in S : Least(S) <= n
  BY DEF Least

LEMMA LeastOfTwo ==
    ASSUME NEW a \in Int, NEW b \in Int
    PROVE  Least({a, b}) = IF a <= b THEN a ELSE b
  <1>1. \E m \in {a, b} : \A n \in {a, b} : m <= n
    OBVIOUS
  <1>2. Least({a, b}) \in {a, b} /\ \A n \in {a, b} : Least({a, b}) <= n
    BY <1>1, LeastFacts
  <1>. QED
    BY <1>2

LEMMA LostFacts ==
    ASSUME NEW f \in Nat
    PROVE  Lost(f) \in Nat /\ Lost(f + 1) = Lost(f) + ErrorSleep + ConnectingPoll
  BY Constants DEF Lost

LEMMA ElapsedFacts ==
    ASSUME TypeOK, NEW d \in Nat, Elapsed(d)
    PROVE  /\ heard' \in 0 .. (IF connected THEN MaxAge ELSE MaxConnecting)
           /\ heard <= heard' /\ heard' <= heard + d
           /\ acked' \in Nat /\ acked' <= acked + d
           /\ screen' \in Bar
           /\ screen'.text = screen.text /\ screen'.countup = screen.countup
           /\ screen'.age <= screen.age + d
           /\ shutdown' \in Sender
           /\ shutdown'.in_progress = shutdown.in_progress
           /\ ~shutdown.in_progress => shutdown'.age = shutdown.age
           /\ shutdown.in_progress => \/ shutdown'.age = shutdown.age + d
                                      \/ shutdown'.age >= ACTIVE_RETRY_TIMEOUT
  <1>1. ASSUME NEW a \in Nat, NEW l \in Nat
        PROVE  Aged(a, d, l) \in Nat /\ Aged(a, d, l) = IF a + d <= l THEN a + d ELSE l
    BY LeastOfTwo DEF Aged
  <1>. DEFINE l == IF connected THEN MaxAge ELSE MaxConnecting
              Heard == Aged(heard, d, l)
              Acked == Aged(acked, d, MaxAge)
              Shows == Aged(screen.age, d, MaxAge)
              Closing == Aged(shutdown.age, d, MaxAge)
  <1>2. /\ l \in Nat /\ heard \in 0 .. l /\ heard \in Nat /\ acked \in Nat
        /\ screen.age \in Nat /\ shutdown.age \in Nat /\ MaxAge \in Nat
    <2>1. l \in Nat /\ MaxAge \in Nat
      BY Constants
    <2>. QED
      BY <2>1 DEF TypeOK, Bar, Sender
  <1>3. /\ heard' = Heard /\ acked' = Acked /\ screen' = [screen EXCEPT !.age = Shows]
        /\ shutdown' = [shutdown EXCEPT !.age =
                           IF shutdown.in_progress THEN Closing ELSE shutdown.age]
    BY DEF Elapsed
  <1>4. /\ Heard = IF heard + d <= l THEN heard + d ELSE l
        /\ Acked = IF acked + d <= MaxAge THEN acked + d ELSE MaxAge
        /\ Shows = IF screen.age + d <= MaxAge THEN screen.age + d ELSE MaxAge
        /\ Closing = IF shutdown.age + d <= MaxAge THEN shutdown.age + d ELSE MaxAge
    BY <1>1, <1>2
  <1>. HIDE DEF l, Heard, Acked, Shows, Closing
  <1>5. Heard \in 0 .. l /\ heard <= Heard /\ Heard <= heard + d
    BY <1>2, <1>4
  <1>6. Acked \in Nat /\ Acked <= acked + d /\ Shows \in Nat /\ Shows <= screen.age + d
    BY <1>2, <1>4
  <1>7. Closing \in Nat /\ (Closing = shutdown.age + d \/ Closing >= ACTIVE_RETRY_TIMEOUT)
    BY <1>2, <1>4, Constants
  <1>8. /\ screen' \in Bar
        /\ screen'.text = screen.text /\ screen'.countup = screen.countup
        /\ screen'.age = Shows
    BY <1>3, <1>6 DEF TypeOK, Bar, Sender
  <1>9. /\ shutdown' \in Sender
        /\ shutdown'.in_progress = shutdown.in_progress
        /\ shutdown'.age = IF shutdown.in_progress THEN Closing ELSE shutdown.age
    BY <1>3, <1>7 DEF TypeOK, Bar, Sender
  <1>. QED
    BY <1>3, <1>5, <1>6, <1>7, <1>8, <1>9 DEF l

\* The wait for the next frame ends by every deadline the bar has.
LEMMA WaitFacts ==
    ASSUME TypeOK, NEW m \in Message
    PROVE  /\ WaitTime(m) \in Nat /\ WaitTime(m) <= ACK_INTERVAL
           /\ m.left >= 0 => WaitTime(m) <= m.left
           /\ ~connected => WaitTime(m) <= ConnectingPoll
           /\ NeedCountup /\ heard <= DisconnectedLong => WaitTime(m) <= CountupInterval
  <1>. DEFINE e == ExpiryWait(m)
              n == NotificationWait(m)
              w == WaitTime(m)
              i == IF heard > DisconnectedLong THEN ACK_INTERVAL ELSE CountupInterval
  <1>0. heard \in Int /\ m.left \in Int
    <2>1. heard \in Int
      BY Constants DEF TypeOK
    <2>. QED
      BY <2>1 DEF Message
  <1>1. e \in Nat /\ (m.left >= 0 => e = m.left)
    BY <1>0, Constants DEF ExpiryWait
  <1>2. i \in Nat /\ (heard <= DisconnectedLong => i = CountupInterval)
    BY <1>0, Constants
  <1>3. n \in Nat /\ n <= e /\ (NeedCountup => n <= i)
    <2>1. CASE NeedCountup
      <3>1. {e} \cup {i} = {e, i}
        OBVIOUS
      <3>2. n = Least({e} \cup {i})
        BY <2>1 DEF NotificationWait
      <3>. HIDE DEF e, i, n
      <3>3. n = IF e <= i THEN e ELSE i
        BY <1>1, <1>2, <3>1, <3>2, LeastOfTwo
      <3>. QED
        BY <1>1, <1>2, <3>3
    <2>2. CASE ~NeedCountup
      <3>1. {e} \cup {} = {e, e}
        OBVIOUS
      <3>2. n = Least({e} \cup {})
        BY <2>2 DEF NotificationWait
      <3>. HIDE DEF e, n
      <3>3. n = e
        BY <1>1, <3>1, <3>2, LeastOfTwo
      <3>. QED
        BY <1>1, <2>2, <3>3
    <2>. QED
      BY <2>1, <2>2
  <1>4. w \in Nat /\ w <= ACK_INTERVAL /\ w <= n /\ (~connected => w <= ConnectingPoll)
    <2>. DEFINE S == {ACK_INTERVAL, n} \cup (IF connected THEN {} ELSE {ConnectingPoll})
    <2>1. w = Least(S)
      BY DEF WaitTime
    <2>. HIDE DEF n, w
    <2>2. S \subseteq Nat /\ ACK_INTERVAL \in S /\ n \in S /\ (~connected => ConnectingPoll \in S)
      BY <1>3, Constants
    <2>3. \E a \in S : \A b \in S : a <= b
      BY <2>2, LeastNum
    <2>. HIDE DEF S
    <2>4. Least(S) \in S /\ \A b \in S : Least(S) <= b
      BY <2>3, LeastFacts
    <2>. QED
      BY <2>1, <2>2, <2>4
  <1>. HIDE DEF e, n, w, i
  <1>5. w <= e /\ (NeedCountup => w <= i)
    BY <1>1, <1>2, <1>3, <1>4
  <1>6. /\ w \in Nat /\ w <= ACK_INTERVAL /\ (m.left >= 0 => w <= m.left)
        /\ ~connected => w <= ConnectingPoll
        /\ NeedCountup /\ heard <= DisconnectedLong => w <= CountupInterval
    BY <1>1, <1>2, <1>4, <1>5
  <1>. QED
    BY <1>6 DEF w
-----------------------------------------------------------------------------
(* The steps *)

Typed == Keys(typed, delivered, quit_sequence_started, lf_entered, shutdown.in_progress)

LEMMA Numbers ==
    ASSUME TypeOK
    PROVE  /\ wait \in Nat /\ heard \in Nat /\ acked \in Nat
           /\ faults \in Nat /\ Lost(faults) \in Nat
           /\ message.left \in Int /\ screen.age \in Nat /\ shutdown.age \in Nat
  <1>1. wait \in Nat /\ acked \in Nat /\ faults \in Nat
    BY DEF TypeOK
  <1>2. heard \in Nat
    <2>. DEFINE l == IF connected THEN MaxAge ELSE MaxConnecting
    <2>1. heard \in 0 .. l /\ l \in Nat
      BY Constants DEF TypeOK
    <2>. HIDE DEF l
    <2>. QED
      BY <2>1
  <1>3. message.left \in Int
    BY DEF TypeOK, Message
  <1>4. screen.age \in Nat
    BY DEF TypeOK, Bar
  <1>5. shutdown.age \in Nat
    BY DEF TypeOK, Sender
  <1>6. Lost(faults) \in Nat
    BY <1>1, LostFacts
  <1>. QED
    BY <1>1, <1>2, <1>3, <1>4, <1>5, <1>6

LEMMA InitHolds == ASSUME Init PROVE IInv
  <1>1. TypeOK
    <2>1. "" \in Text /\ Forever \in Int /\ <<>> \in Seq(Byte)
      BY Constants DEF Text
    <2>2. message \in Message
      BY <2>1 DEF Init, Message
    <2>3. screen \in Bar
      BY <2>1 DEF Init, Bar
    <2>4. shutdown \in Sender
      BY DEF Init, Sender
    <2>5. heard \in 0 .. (IF connected THEN MaxAge ELSE MaxConnecting)
      <3>1. heard = 0 /\ ~connected
        BY DEF Init
      <3>2. 0 \in 0 .. MaxConnecting
        BY Constants
      <3>. QED
        BY <3>1, <3>2
    <2>. QED
      BY <2>1, <2>2, <2>3, <2>4, <2>5 DEF Init, TypeOK
  <1>2. Said /\ Shown
    BY DEF Init, Said, Meant, Shown
  <1>3. InTime
    <2>1. Lost(0) \in Nat /\ ConnectingTimeout \in Nat
      BY Constants, LostFacts
    <2>2. 0 + 0 <= ConnectingTimeout + 0 + Lost(0)
      BY <2>1
    <2>. QED
      BY <2>2 DEF Init, InTime, Ahead, Unchecked
  <1>4. KeysRead(<<>>, <<>>, FALSE, FALSE)
    <2>1. <<>> \in Seq(Byte) /\ Len(<<>>) + 1 = 1
      OBVIOUS
    <2>2. ASSUME NEW more \in Seq(Byte)
          PROVE  Reading(<<>> \o more)[1][FALSE] = <<>> \o Reading(<<>> \o more)[1][FALSE]
      <3>1. <<>> \o more = more
        BY ConcatEmptySeq
      <3>2. 1 \in 1 .. Len(more) + 1
        OBVIOUS
      <3>3. Reading(more)[1][FALSE] \in Seq(Byte)
        BY <3>2, ReadingFacts
      <3>4. <<>> \o Reading(more)[1][FALSE] = Reading(more)[1][FALSE]
        BY <3>3, ConcatEmptySeq
      <3>. QED
        BY <3>1, <3>4, Zenon
    <2>3. ReadTo(<<>>, <<>>, Len(<<>>) + 1, FALSE)
      BY <2>1, <2>2, Zenon DEF ReadTo
    <2>. QED
      BY <2>3 DEF KeysRead
  <1>. QED
    BY <1>1, <1>2, <1>3, <1>4 DEF Init, IInv, Keys

LEMMA DrawKeeps == ASSUME IInv, OutputNewFrame PROVE IInv'
  <1>. DEFINE m == Adjusted(message)
              w == WaitTime(m)
  <1>1. /\ m \in Message /\ m.left \in Int /\ m.text \in {"", message.text}
        /\ m.text # "" => m.left > 0
    <2>1. message \in Message /\ message.left \in Int /\ message.text \in Text
      BY DEF IInv, TypeOK, Message
    <2>2. CASE message.left <= 0
      <3>1. m = [message EXCEPT !.text = ""] /\ "" \in Text
        BY <2>2 DEF Adjusted, Text
      <3>2. m \in Message /\ m.text = "" /\ m.left = message.left
        BY <2>1, <3>1 DEF Message
      <3>. QED
        BY <2>1, <3>2
    <2>3. CASE ~(message.left <= 0)
      <3>1. m = message /\ message.left > 0
        BY <2>1, <2>3 DEF Adjusted
      <3>. HIDE DEF m
      <3>. QED
        BY <2>1, <3>1
    <2>. QED
      BY <2>2, <2>3
  <1>2. /\ pc = "draw" /\ pc' = "select" /\ message' = m
        /\ screen' = [text |-> m.text, countup |-> NeedCountup, age |-> 0]
        /\ wait' \in IF w = 0 THEN {0, 1} ELSE {w}
        /\ UNCHANGED <<connected, heard, acked, shutdown, counterparty, keyboard, faults, ending>>
    BY DEF OutputNewFrame
  <1>3. /\ w \in Nat /\ w <= ACK_INTERVAL
        /\ m.left >= 0 => w <= m.left
        /\ ~connected => w <= ConnectingPoll
        /\ NeedCountup /\ heard <= DisconnectedLong => w <= CountupInterval
    BY <1>1, WaitFacts DEF IInv
  <1>. HIDE DEF m, w
  <1>4. /\ wait' \in Nat /\ wait' <= ACK_INTERVAL
        /\ m.text # "" => wait' <= m.left
        /\ ~connected => wait' <= ConnectingPoll
        /\ NeedCountup /\ heard <= DisconnectedLong => wait' <= CountupInterval
    <2>1. \/ wait' = w /\ w # 0
          \/ w = 0 /\ wait' \in {0, 1}
      BY <1>2
    <2>2. wait' \in Nat /\ wait' <= ACK_INTERVAL
      BY <1>3, <2>1, Constants
    <2>3. ASSUME NEW b \in Nat \ {0}, w <= b PROVE wait' <= b
      BY <2>1, <2>3
    <2>4. ASSUME m.text # "" PROVE wait' <= m.left
      <3>1. m.left > 0 /\ m.left \in Int
        BY <1>1, <2>4
      <3>2. m.left \in Nat \ {0} /\ m.left >= 0
        BY <3>1
      <3>. QED
        BY <1>3, <2>3, <3>2
    <2>5. ConnectingPoll \in Nat \ {0} /\ CountupInterval \in Nat \ {0}
      BY Constants
    <2>. QED
      BY <1>3, <2>2, <2>3, <2>4, <2>5, Zenon
  <1>5. NeedCountup \in BOOLEAN /\ m.text \in Text
    BY <1>1 DEF NeedCountup, Message
  <1>6. screen'.text = m.text /\ screen'.countup = NeedCountup /\ screen'.age = 0 /\ screen' \in Bar
    BY <1>2, <1>5 DEF Bar
  <1>7. TypeOK'
    BY <1>1, <1>2, <1>4, <1>6 DEF IInv, TypeOK, keyboard
  <1>8. Said'
    BY <1>1, <1>2 DEF IInv, Said, Meant, keyboard
  <1>9. Shown'
    <2>0. wait' \in Nat /\ wait' <= ACK_INTERVAL /\ screen'.age = 0
      BY <1>4, <1>6
    <2>1. screen'.age + wait' = wait'
      <3>1. \A w1 \in Nat : 0 + w1 = w1
        OBVIOUS
      <3>. QED
        BY <2>0, <3>1
    <2>2. ASSUME ~NeedCountup
          PROVE  /\ heard + wait' <= ServerLate + ACK_INTERVAL
                 /\ acked + wait' <= ReplyLate + ACK_INTERVAL
      <3>1. ~(heard > ServerLate) /\ ~(acked > ReplyLate)
        BY <2>2 DEF NeedCountup
      <3>2. heard \in Nat /\ acked \in Nat
        BY Numbers DEF IInv
      <3>3. heard <= ServerLate /\ acked <= ReplyLate
        BY <3>1, <3>2, Constants
      <3>4. ASSUME NEW w1 \in Nat, w1 <= ACK_INTERVAL
            PROVE  heard + w1 <= ServerLate + ACK_INTERVAL /\ acked + w1 <= ReplyLate + ACK_INTERVAL
        BY <3>2, <3>3, <3>4, Constants
      <3>. QED
        BY <2>0, <3>4
    <2>3. UNCHANGED <<heard, acked>>
      BY <1>2
    <2>4. screen'.text # "" => screen'.text = message'.text /\ wait' <= message'.left
      BY <1>2, <1>4, <1>6
    <2>. QED
      BY <1>4, <1>6, <2>1, <2>2, <2>3, <2>4, Zenon DEF Shown
  <1>10. InTime'
    <2>1. heard \in Nat /\ Lost(faults) \in Nat
      BY Numbers DEF IInv
    <2>2. /\ pc = "draw" /\ pc' = "select" /\ UNCHANGED <<connected, heard, shutdown, faults>>
      BY <1>2
    <2>3. ~shutdown.in_progress => shutdown.age = 0
      BY DEF IInv, InTime
    <2>4. ASSUME ~connected, ~shutdown.in_progress
          PROVE  heard + wait' <= ConnectingTimeout + ConnectingPoll + Lost(faults)
      <3>1. heard + 0 <= ConnectingTimeout + 0 + Lost(faults)
        BY <2>2, <2>4 DEF IInv, InTime, Ahead, Unchecked
      <3>. QED
        <4>1. wait' \in Nat /\ wait' <= ConnectingPoll
          BY <1>4, <2>4, Zenon
        <4>. QED
          BY <2>1, <3>1, <4>1, Constants
    <2>5. ASSUME ~connected, shutdown.in_progress
          PROVE  /\ heard + wait' <= ConnectingTimeout + ConnectingPoll + ACTIVE_RETRY_TIMEOUT
                                       + ConnectingPoll + Lost(faults)
                 /\ \/ heard <= shutdown.age + ConnectingTimeout + ConnectingPoll + Lost(faults)
                    \/ shutdown.age >= ACTIVE_RETRY_TIMEOUT
      <3>1. /\ heard + 0 <= ConnectingTimeout + ConnectingPoll + ACTIVE_RETRY_TIMEOUT
                               + 0 + Lost(faults)
            /\ \/ heard <= shutdown.age + ConnectingTimeout + ConnectingPoll + Lost(faults)
               \/ shutdown.age >= ACTIVE_RETRY_TIMEOUT
        BY <2>2, <2>5 DEF IInv, InTime, Ahead, Unchecked
      <3>2. wait' \in Nat /\ wait' <= ConnectingPoll
        BY <1>4, <2>5, Zenon
      <3>3. heard + 0 <= ConnectingTimeout + ConnectingPoll + ACTIVE_RETRY_TIMEOUT
                               + 0 + Lost(faults)
        BY <3>1
      <3>4. heard + wait' <= ConnectingTimeout + ConnectingPoll + ACTIVE_RETRY_TIMEOUT
                               + ConnectingPoll + Lost(faults)
        BY <2>1, <3>2, <3>3, Constants
      <3>. QED
        BY <3>1, <3>4
    <2>. QED
      BY <2>2, <2>3, <2>4, <2>5 DEF InTime, Ahead, Unchecked
  <1>. QED
    BY <1>2, <1>7, <1>8, <1>9, <1>10 DEF IInv, keyboard

LEMMA SelectKeeps == ASSUME IInv, Select PROVE IInv'
  <1>1. /\ pc = "select" /\ UNCHANGED <<connected, counterparty, keyboard, faults, ending>>
    BY DEF Select
  <1>2. CASE wait > 0
    <2>1. /\ Elapsed(1) /\ wait' = wait - 1 /\ pc' = "select"
          /\ message' = [message EXCEPT !.left = Nearer(message.left, 1)]
      BY <1>1, <1>2 DEF Select
    <2>2. /\ heard' \in 0 .. (IF connected THEN MaxAge ELSE MaxConnecting)
          /\ heard <= heard' /\ heard' <= heard + 1 /\ acked' \in Nat /\ acked' <= acked + 1
          /\ screen' \in Bar /\ screen'.text = screen.text /\ screen'.countup = screen.countup
          /\ screen'.age <= screen.age + 1
          /\ shutdown' \in Sender /\ shutdown'.in_progress = shutdown.in_progress
          /\ ~shutdown.in_progress => shutdown'.age = shutdown.age
          /\ shutdown.in_progress => \/ shutdown'.age = shutdown.age + 1
                                     \/ shutdown'.age >= ACTIVE_RETRY_TIMEOUT
      BY <2>1, ElapsedFacts DEF IInv
    <2>3. /\ wait \in Nat /\ wait' \in Nat /\ wait - 1 = wait' /\ heard \in Int /\ heard' \in Int
          /\ acked \in Nat /\ faults \in Nat /\ Lost(faults) \in Nat
          /\ shutdown.age \in Nat /\ shutdown'.age \in Nat
          /\ screen.age \in Nat /\ screen'.age \in Nat
      <3>1. shutdown \in Sender /\ screen \in Bar /\ shutdown' \in Sender /\ screen' \in Bar
        BY <2>2 DEF IInv, TypeOK
      <3>2. /\ shutdown.age \in Nat /\ shutdown'.age \in Nat
            /\ screen.age \in Nat /\ screen'.age \in Nat
        BY <3>1 DEF Sender, Bar
      <3>3. wait \in Nat /\ heard \in Int /\ heard' \in Int /\ acked \in Nat /\ faults \in Nat
        BY <2>2, Constants DEF IInv, TypeOK
      <3>4. Lost(faults) \in Nat
        BY <3>3, LostFacts
      <3>. QED
        BY <1>2, <2>1, <3>2, <3>3, <3>4
    <2>4. /\ message' \in Message /\ message'.text = message.text
          /\ message.left \in Int /\ (wait <= message.left => wait' <= message'.left)
      <3>1. message \in Message /\ message.left \in Int
        BY DEF IInv, TypeOK, Message
      <3>2. Nearer(message.left, 1) \in Int
        BY <3>1, Constants DEF Nearer
      <3>3. message' \in Message /\ message'.text = message.text /\ message'.left = Nearer(message.left, 1)
        BY <2>1, <3>1, <3>2 DEF Message
      <3>4. wait <= message.left => wait - 1 <= Nearer(message.left, 1)
        BY <1>2, <2>3, <3>1 DEF Nearer
      <3>. QED
        BY <2>3, <3>1, <3>3, <3>4
    <2>5. TypeOK'
      BY <1>1, <2>1, <2>2, <2>3, <2>4 DEF IInv, TypeOK, keyboard
    <2>6. Said'
      BY <1>1, <2>1, <2>2, <2>4 DEF IInv, Said, keyboard
    <2>7. Shown'
      <3>1. screen'.age + wait' <= ACK_INTERVAL
        <4>1. screen.age + wait <= ACK_INTERVAL
          BY <1>1 DEF IInv, Shown
        <4>. QED
          BY <2>2, <2>3, <4>1, Constants
      <3>2. ASSUME screen'.countup, heard' <= DisconnectedLong
            PROVE  screen'.age + wait' <= CountupInterval
        <4>1. heard <= DisconnectedLong
          BY <2>2, <2>3, <3>2, Constants
        <4>2. screen.age + wait <= CountupInterval
          BY <1>1, <2>2, <3>2, <4>1, Zenon DEF IInv, Shown
        <4>. QED
          BY <2>2, <2>3, <4>2, Constants
      <3>3. ASSUME ~screen'.countup
            PROVE  /\ heard' + wait' <= ServerLate + ACK_INTERVAL
                   /\ acked' + wait' <= ReplyLate + ACK_INTERVAL
        <4>1. /\ heard + wait <= ServerLate + ACK_INTERVAL
              /\ acked + wait <= ReplyLate + ACK_INTERVAL
          BY <1>1, <2>2, <3>3, Zenon DEF IInv, Shown
        <4>2. acked' \in Nat /\ acked' <= acked + 1
          BY <2>2
        <4>3. heard' <= heard + 1
          BY <2>2
        <4>4. ASSUME NEW a \in Int, NEW b \in Int, NEW c \in Nat, a + wait <= c, b <= a + 1
              PROVE  b + (wait - 1) <= c
          BY <2>3, <4>4
        <4>5. ServerLate + ACK_INTERVAL \in Nat /\ ReplyLate + ACK_INTERVAL \in Nat
          BY Constants
        <4>. QED
          BY <2>3, <4>1, <4>2, <4>3, <4>4, <4>5
      <3>4. screen'.text # "" => screen'.text = message'.text /\ wait' <= message'.left
        BY <1>1, <2>2, <2>4 DEF IInv, Shown
      <3>. QED
        BY <3>1, <3>2, <3>3, <3>4 DEF Shown
    <2>8. InTime'
      BY <1>1, <2>1, <2>2, <2>3, Constants DEF IInv, InTime, Ahead, Unchecked
    <2>. QED
      BY <1>1, <2>2, <2>5, <2>6, <2>7, <2>8 DEF IInv, keyboard
  <1>3. CASE ~(wait > 0)
    <2>1. pc' = "input" /\ UNCHANGED <<wait, clock>>
      BY <1>3 DEF Select
    <2>2. heard \in Nat /\ wait \in Nat /\ Lost(faults) \in Nat /\ shutdown.age \in Nat
      BY Numbers DEF IInv
    <2>3. InTime'
      BY <1>1, <2>1, <2>2, Constants DEF IInv, InTime, Ahead, Unchecked, clock
    <2>. QED
      BY <1>1, <2>1, <2>3 DEF IInv, TypeOK, Said, Shown, clock, keyboard
  <1>. QED
    BY <1>2, <1>3
LEMMA NetworkInputKeeps == ASSUME IInv, ProcessNetworkInput PROVE IInv'
  <1>1. /\ pc = "select" /\ pc' = "input"
        /\ UNCHANGED <<wait, message, screen, keyboard, faults, ending>>
        /\ Acknowledges
        /\ \/ UNCHANGED <<connected, heard>>
           \/ connected' = TRUE /\ heard' = 0
    BY DEF ProcessNetworkInput, OldState, NewState
  <1>2. acked' \in Nat
    <2>1. \A a \in Nat, b \in Nat : Least({a, b}) \in Nat
      BY LeastOfTwo
    <2>. QED
      BY <1>1, <2>1, Numbers DEF Acknowledges, IInv
  <1>3. /\ shutdown' \in Sender /\ shutdown'.in_progress = shutdown.in_progress
        /\ shutdown'.age = shutdown.age
    BY <1>1 DEF Acknowledges, IInv, TypeOK, Sender
  <1>4. heard' \in 0 .. (IF connected' THEN MaxAge ELSE MaxConnecting) /\ connected' \in BOOLEAN
    <2>1. 0 \in 0 .. MaxAge
      BY Constants
    <2>2. CASE UNCHANGED <<connected, heard>>
      BY <2>2, Zenon DEF IInv, TypeOK
    <2>3. CASE connected' = TRUE /\ heard' = 0
      BY <2>1, <2>3, Zenon
    <2>. QED
      BY <1>1, <2>2, <2>3
  <1>5. TypeOK'
    BY <1>1, <1>2, <1>3, <1>4 DEF IInv, TypeOK, keyboard
  <1>6. Said' /\ Shown'
    BY <1>1, <1>3 DEF IInv, Said, Shown, keyboard
  <1>7. InTime'
    <2>1. CASE connected'
      BY <1>3, <2>1 DEF IInv, InTime
    <2>2. CASE ~connected'
      <3>1. UNCHANGED <<connected, heard, faults>>
        BY <1>1, <2>2
      <3>2. heard \in Nat /\ wait \in Nat /\ Lost(faults) \in Nat
        BY Numbers DEF IInv
      <3>. QED
        BY <1>1, <1>3, <2>2, <3>1, <3>2, Constants DEF IInv, InTime, Ahead, Unchecked
    <2>. QED
      BY <2>1, <2>2
  <1>. QED
    BY <1>1, <1>3, <1>5, <1>6, <1>7 DEF IInv, keyboard

LEMMA UserInputKeeps == ASSUME IInv, ProcessUserInput PROVE IInv'
  <1>. DEFINE r == [message |-> message, shutdown |-> shutdown, typed |-> typed,
                    delivered |-> delivered, lf_entered |-> lf_entered,
                    quit_sequence_started |-> quit_sequence_started]
  <1>. PICK bytes \in Input :
          LET k == UserBytes(r, bytes) IN
          /\ message' = k.message /\ shutdown' = k.shutdown
          /\ typed' = k.typed /\ delivered' = k.delivered
          /\ lf_entered' = k.lf_entered
          /\ quit_sequence_started' = k.quit_sequence_started
    BY DEF ProcessUserInput
  <1>. DEFINE k == UserBytes(r, bytes)
  <1>1. /\ pc = "input" /\ pc' = "check"
        /\ UNCHANGED <<wait, connected, heard, acked, screen, counterparty, faults, ending>>
        /\ message' = k.message /\ shutdown' = k.shutdown
        /\ typed' = k.typed /\ delivered' = k.delivered
        /\ lf_entered' = k.lf_entered
        /\ quit_sequence_started' = k.quit_sequence_started
    BY DEF ProcessUserInput
  <1>2. bytes \in Seq(Key)
    <2>1. PICK n \in 0 .. MaxRead : bytes \in [1 .. n -> Key]
      BY DEF Input
    <2>2. MaxRead \in Nat
      BY SessionAssumption
    <2>3. n \in Nat
      BY <2>2
    <2>. QED
      BY <2>1, <2>3
  <1>3. shutdown \in Sender /\ r \in Good(shutdown)
    BY DEF IInv, TypeOK, Said, Good, Keyboard
  <1>4. k \in Good(shutdown)
    <2>. HIDE DEF r
    <2>. QED
      BY <1>2, <1>3, UserByteKeeps, UserBytesKeep
  <1>. HIDE DEF r, k
  <1>5. /\ k \in Keyboard /\ Meant(k.message.text, k.quit_sequence_started, k.shutdown.in_progress)
        /\ Keys(k.typed, k.delivered, k.quit_sequence_started, k.lf_entered, k.shutdown.in_progress)
        /\ k.shutdown \in {shutdown, StartedShutdown(shutdown)}
    BY <1>4 DEF Good
  <1>6. TypeOK'
    BY <1>1, <1>5 DEF IInv, TypeOK, Keyboard
  <1>7. Said' /\ Shown' /\ Typed'
    BY <1>1, <1>5 DEF Said, Shown, Typed
  <1>8. InTime'
    <2>1. heard \in Nat /\ Lost(faults) \in Nat /\ shutdown.age \in Nat
      BY Numbers DEF IInv
    <2>2. CASE shutdown' = shutdown
      BY <1>1, <2>2 DEF IInv, InTime, Ahead, Unchecked
    <2>3. CASE shutdown' = StartedShutdown(shutdown) /\ ~shutdown.in_progress
      <3>1. shutdown'.in_progress /\ shutdown'.age = 0
        BY <1>3, <2>3 DEF StartedShutdown, Sender, IInv, InTime
      <3>2. UNCHANGED <<connected, heard, faults>>
        BY <1>1
      <3>3. ASSUME ~connected
            PROVE  /\ heard + 0 <= ConnectingTimeout + ConnectingPoll + ACTIVE_RETRY_TIMEOUT
                                       + ConnectingPoll + Lost(faults)
                   /\ heard <= 0 + ConnectingTimeout + ConnectingPoll + Lost(faults)
        <4>1. heard + 0 <= ConnectingTimeout + ConnectingPoll + Lost(faults)
          BY <1>1, <2>3, <3>3 DEF IInv, InTime, Ahead, Unchecked
        <4>. QED
          BY <2>1, <4>1, Constants
      <3>. QED
        BY <1>1, <3>1, <3>2, <3>3 DEF InTime, Ahead, Unchecked
    <2>4. shutdown.in_progress => StartedShutdown(shutdown) = shutdown
      BY <1>3 DEF StartedShutdown, Sender
    <2>. QED
      BY <1>1, <1>5, <2>2, <2>3, <2>4
  <1>. QED
    BY <1>6, <1>7, <1>8 DEF IInv, Typed

\* An exception costs a sleep and a poll.
LEMMA InTimeAfterFault ==
    ASSUME IInv, pc \in {"select", "tick"}, NEW d \in Nat, d <= ErrorSleep
    PROVE  /\ ~connected /\ ~shutdown.in_progress =>
                 heard + d <= ConnectingTimeout + Lost(faults + 1)
           /\ ~connected /\ shutdown.in_progress =>
                 /\ heard + d <= ConnectingTimeout + ConnectingPoll + ACTIVE_RETRY_TIMEOUT
                                   + Lost(faults + 1)
                 /\ \/ heard <= shutdown.age + ConnectingTimeout + ConnectingPoll + Lost(faults)
                    \/ shutdown.age >= ACTIVE_RETRY_TIMEOUT
  <1>1. /\ heard \in Nat /\ wait \in Nat /\ Lost(faults) \in Nat /\ shutdown.age \in Nat
        /\ Lost(faults + 1) = Lost(faults) + ErrorSleep + ConnectingPoll
    BY Numbers, LostFacts DEF IInv, TypeOK
  <1>2. Ahead \in Nat /\ Unchecked \in 0 .. ConnectingPoll
    BY <1>1, Constants DEF Ahead, Unchecked
  <1>3. ASSUME ~connected, ~shutdown.in_progress
        PROVE  heard + d <= ConnectingTimeout + Lost(faults + 1)
    <2>1. heard + Ahead <= ConnectingTimeout + Unchecked + Lost(faults)
      BY <1>3 DEF IInv, InTime
    <2>. QED
      BY <1>1, <1>2, <2>1, Constants
  <1>4. ASSUME ~connected, shutdown.in_progress
        PROVE  /\ heard + d <= ConnectingTimeout + ConnectingPoll + ACTIVE_RETRY_TIMEOUT
                                   + Lost(faults + 1)
               /\ \/ heard <= shutdown.age + ConnectingTimeout + ConnectingPoll + Lost(faults)
                  \/ shutdown.age >= ACTIVE_RETRY_TIMEOUT
    <2>1. heard + Ahead <= ConnectingTimeout + ConnectingPoll + ACTIVE_RETRY_TIMEOUT
                                   + Unchecked + Lost(faults)
      BY <1>4 DEF IInv, InTime
    <2>2. heard + d <= ConnectingTimeout + ConnectingPoll + ACTIVE_RETRY_TIMEOUT + Lost(faults + 1)
      BY <1>1, <1>2, <2>1, Constants
    <2>. QED
      BY <1>4, <2>2 DEF IInv, InTime
  <1>. QED
    BY <1>3, <1>4

LEMMA NetworkExceptionKeeps == ASSUME IInv, NetworkException PROVE IInv'
  <1>. DEFINE m == IF shutdown.in_progress THEN message ELSE NetworkError
  <1>1. /\ pc \in {"select", "tick"} /\ pc' = "draw" /\ faults' = faults + 1
        /\ message' = [m EXCEPT !.left = Nearer(m.left, ErrorSleep)]
        /\ Elapsed(ErrorSleep)
        /\ UNCHANGED <<wait, connected, counterparty, keyboard, ending>>
    BY DEF NetworkException, Fault
  <1>2. ErrorSleep \in Nat
    BY Constants
  <1>3. /\ heard' \in 0 .. (IF connected THEN MaxAge ELSE MaxConnecting)
        /\ heard' <= heard + ErrorSleep /\ acked' \in Nat /\ screen' \in Bar
        /\ shutdown' \in Sender /\ shutdown'.in_progress = shutdown.in_progress
        /\ ~shutdown.in_progress => shutdown'.age = shutdown.age
        /\ shutdown.in_progress => \/ shutdown'.age = shutdown.age + ErrorSleep
                                   \/ shutdown'.age >= ACTIVE_RETRY_TIMEOUT
    BY <1>1, <1>2, ElapsedFacts DEF IInv
  <1>4. /\ m \in Message /\ m.left \in Int
        /\ m.text = message.text \/ m.text = "error"
    <2>1. message \in Message /\ NetworkError \in Message
      BY MessageTypes DEF IInv, TypeOK
    <2>2. NetworkError.text = "error"
      BY DEF NetworkError
    <2>3. m \in Message /\ (m.text = message.text \/ m.text = "error")
      BY <2>1, <2>2
    <2>. QED
      BY <2>3 DEF Message
  <1>. HIDE DEF m
  <1>5. message' \in Message /\ message'.text = m.text
    <2>1. Nearer(m.left, ErrorSleep) \in Int
      BY <1>2, <1>4, Constants DEF Nearer
    <2>. QED
      BY <1>1, <1>4, <2>1 DEF Message
  <1>6. TypeOK'
    <2>1. faults' \in Nat
      BY <1>1 DEF IInv, TypeOK
    <2>. QED
      BY <1>1, <1>3, <1>5, <2>1 DEF IInv, TypeOK, keyboard
  <1>7. Said' /\ Shown'
    BY <1>1, <1>3, <1>4, <1>5 DEF IInv, Said, Meant, Shown, keyboard
  <1>8. InTime'
    <2>1. /\ heard' \in Int /\ heard \in Nat /\ Lost(faults) \in Nat /\ Lost(faults') \in Nat
          /\ shutdown.age \in Nat /\ shutdown'.age \in Nat
          /\ Lost(faults') = Lost(faults) + ErrorSleep + ConnectingPoll
      <3>1. faults \in Nat /\ faults + 1 \in Nat
        BY DEF IInv, TypeOK
      <3>. QED
        BY <1>1, <1>3, <3>1, Numbers, LostFacts, Constants DEF IInv, Sender
    <2>2. ~shutdown.in_progress => shutdown'.age = 0
      BY <1>3 DEF IInv, InTime
    <2>3. ASSUME ~connected, ~shutdown.in_progress
          PROVE  heard' + 0 <= ConnectingTimeout + 0 + Lost(faults')
      <3>1. heard + ErrorSleep <= ConnectingTimeout + Lost(faults')
        BY <1>1, <1>2, <2>3, InTimeAfterFault
      <3>2. ASSUME NEW h \in Int, h <= heard + ErrorSleep, NEW l \in Nat,
                   heard + ErrorSleep <= ConnectingTimeout + l
            PROVE  h + 0 <= ConnectingTimeout + 0 + l
        BY <2>1, <3>2, Constants
      <3>. QED
        BY <1>3, <2>1, <3>1, <3>2
    <2>4. ASSUME ~connected, shutdown.in_progress
          PROVE  /\ heard' + 0 <= ConnectingTimeout + ConnectingPoll + ACTIVE_RETRY_TIMEOUT
                                     + 0 + Lost(faults')
                 /\ \/ heard' <= shutdown'.age + ConnectingTimeout + ConnectingPoll + Lost(faults')
                    \/ shutdown'.age >= ACTIVE_RETRY_TIMEOUT
      <3>1. /\ heard + ErrorSleep <= ConnectingTimeout + ConnectingPoll + ACTIVE_RETRY_TIMEOUT
                                       + Lost(faults')
            /\ \/ heard <= shutdown.age + ConnectingTimeout + ConnectingPoll + Lost(faults)
               \/ shutdown.age >= ACTIVE_RETRY_TIMEOUT
        BY <1>1, <1>2, <2>4, InTimeAfterFault
      <3>2. ASSUME NEW h \in Int, h <= heard + ErrorSleep, NEW l \in Nat,
                   l = Lost(faults) + ErrorSleep + ConnectingPoll,
                   heard + ErrorSleep <= ConnectingTimeout + ConnectingPoll + ACTIVE_RETRY_TIMEOUT + l
            PROVE  /\ h + 0 <= ConnectingTimeout + ConnectingPoll + ACTIVE_RETRY_TIMEOUT + 0 + l
                   /\ heard <= shutdown.age + ConnectingTimeout + ConnectingPoll + Lost(faults) =>
                         h <= (shutdown.age + ErrorSleep) + ConnectingTimeout + ConnectingPoll + l
                   /\ shutdown.age >= ACTIVE_RETRY_TIMEOUT =>
                         shutdown.age + ErrorSleep >= ACTIVE_RETRY_TIMEOUT
        BY <2>1, <3>2, Constants
      <3>3. /\ heard' + 0 <= ConnectingTimeout + ConnectingPoll + ACTIVE_RETRY_TIMEOUT
                                     + 0 + Lost(faults')
            /\ heard <= shutdown.age + ConnectingTimeout + ConnectingPoll + Lost(faults) =>
                  heard' <= (shutdown.age + ErrorSleep) + ConnectingTimeout + ConnectingPoll
                                + Lost(faults')
            /\ shutdown.age >= ACTIVE_RETRY_TIMEOUT =>
                         shutdown.age + ErrorSleep >= ACTIVE_RETRY_TIMEOUT
        BY <1>3, <2>1, <3>1, <3>2
      <3>4. \/ shutdown'.age = shutdown.age + ErrorSleep
            \/ shutdown'.age >= ACTIVE_RETRY_TIMEOUT
        BY <1>3, <2>4
      <3>. QED
        BY <3>1, <3>3, <3>4
    <2>. QED
      BY <1>1, <1>3, <2>2, <2>3, <2>4 DEF InTime, Ahead, Unchecked
  <1>. QED
    BY <1>1, <1>3, <1>6, <1>7, <1>8 DEF IInv, keyboard

LEMMA CryptoExceptionKeeps == ASSUME IInv, CryptoException PROVE IInv'
  <1>1. /\ pc = "select" /\ pc' = "draw" /\ faults' = faults + 1
        /\ message' = Passing("crypto")
        /\ UNCHANGED <<wait, connected, heard, acked, screen, shutdown, counterparty, keyboard,
                       ending>>
    BY DEF CryptoException, Fault
  <1>2. message' \in Message /\ message'.text = "crypto"
    BY <1>1, MessageTypes DEF Passing, Text
  <1>3. /\ heard \in Nat /\ shutdown.age \in Nat /\ Lost(faults) \in Nat
        /\ faults' \in Nat /\ Lost(faults') \in Nat
        /\ Lost(faults') = Lost(faults) + ErrorSleep + ConnectingPoll
    <2>1. faults \in Nat /\ faults + 1 \in Nat
      BY DEF IInv, TypeOK
    <2>. QED
      BY <1>1, <2>1, Numbers, LostFacts DEF IInv
  <1>4. TypeOK'
    BY <1>1, <1>2, <1>3 DEF IInv, TypeOK, keyboard
  <1>5. Said' /\ Shown'
    BY <1>1, <1>2 DEF IInv, Said, Meant, Shown, keyboard
  <1>6. InTime'
    <2>1. /\ ~connected /\ ~shutdown.in_progress =>
                heard + 0 <= ConnectingTimeout + Lost(faults')
          /\ ~connected /\ shutdown.in_progress =>
                /\ heard + 0 <= ConnectingTimeout + ConnectingPoll + ACTIVE_RETRY_TIMEOUT
                                   + Lost(faults')
                /\ \/ heard <= shutdown.age + ConnectingTimeout + ConnectingPoll + Lost(faults)
                   \/ shutdown.age >= ACTIVE_RETRY_TIMEOUT
      BY <1>1, Constants, InTimeAfterFault
    <2>2. ASSUME NEW l \in Nat, l = Lost(faults) + ErrorSleep + ConnectingPoll
          PROVE  /\ heard + 0 <= ConnectingTimeout + l => heard + 0 <= ConnectingTimeout + 0 + l
                 /\ heard + 0 <= ConnectingTimeout + ConnectingPoll + ACTIVE_RETRY_TIMEOUT + l =>
                       heard + 0 <= ConnectingTimeout + ConnectingPoll + ACTIVE_RETRY_TIMEOUT + 0 + l
                 /\ heard <= shutdown.age + ConnectingTimeout + ConnectingPoll + Lost(faults) =>
                       heard <= shutdown.age + ConnectingTimeout + ConnectingPoll + l
      BY <1>3, <2>2, Constants
    <2>3. /\ heard + 0 <= ConnectingTimeout + Lost(faults') =>
                heard + 0 <= ConnectingTimeout + 0 + Lost(faults')
          /\ heard + 0 <= ConnectingTimeout + ConnectingPoll + ACTIVE_RETRY_TIMEOUT + Lost(faults') =>
                heard + 0 <= ConnectingTimeout + ConnectingPoll + ACTIVE_RETRY_TIMEOUT
                                + 0 + Lost(faults')
          /\ heard <= shutdown.age + ConnectingTimeout + ConnectingPoll + Lost(faults) =>
                heard <= shutdown.age + ConnectingTimeout + ConnectingPoll + Lost(faults')
      BY <1>3, <2>2
    <2>4. ~shutdown.in_progress => shutdown.age = 0
      BY DEF IInv, InTime
    <2>. QED
      BY <1>1, <2>1, <2>3, <2>4 DEF InTime, Ahead, Unchecked
  <1>. QED
    BY <1>1, <1>4, <1>5, <1>6 DEF IInv, keyboard

\* The end of the loop: what was connecting no longer is measured.
LEMMA ShutdownKeeps ==
    ASSUME IInv, NEW clean \in BOOLEAN, Shutdown(clean), faults' \in Nat
    PROVE  IInv'
  <1>1. /\ pc' = "ended" /\ message' = Passing("") /\ heard' = 0
        /\ screen' = [text |-> "", countup |-> acked > ReplyLate, age |-> 0]
        /\ UNCHANGED <<wait, connected, acked, shutdown, counterparty, keyboard>>
    BY DEF Shutdown
  <1>2. message' \in Message /\ message'.text = "" /\ screen' \in Bar
    <2>1. (acked > ReplyLate) \in BOOLEAN /\ "" \in Text /\ 0 \in Nat
      BY DEF Text
    <2>2. screen' \in Bar
      BY <1>1, <2>1, Zenon DEF Bar
    <2>. QED
      BY <1>1, <2>1, <2>2, MessageTypes DEF Passing
  <1>3. heard' \in 0 .. (IF connected THEN MaxAge ELSE MaxConnecting)
    <2>1. 0 \in 0 .. MaxAge /\ 0 \in 0 .. MaxConnecting
      BY Constants
    <2>. QED
      BY <1>1, <2>1, Zenon
  <1>4. TypeOK'
    BY <1>1, <1>2, <1>3 DEF IInv, TypeOK, keyboard
  <1>5. Said' /\ Shown'
    BY <1>1, <1>2 DEF Said, Meant, Shown
  <1>6. InTime'
    <2>1. shutdown.age \in Nat /\ Lost(faults') \in Nat
      BY Numbers, LostFacts DEF IInv
    <2>2. ASSUME NEW l \in Nat
          PROVE  /\ 0 + 0 <= ConnectingTimeout + 0 + l
                 /\ 0 + 0 <= ConnectingTimeout + ConnectingPoll + ACTIVE_RETRY_TIMEOUT + 0 + l
                 /\ 0 <= shutdown.age + ConnectingTimeout + ConnectingPoll + l
      BY <2>1, Constants
    <2>3. /\ 0 + 0 <= ConnectingTimeout + 0 + Lost(faults')
          /\ 0 + 0 <= ConnectingTimeout + ConnectingPoll + ACTIVE_RETRY_TIMEOUT + 0 + Lost(faults')
          /\ 0 <= shutdown.age + ConnectingTimeout + ConnectingPoll + Lost(faults')
      BY <2>1, <2>2
    <2>4. ~shutdown.in_progress => shutdown.age = 0
      BY DEF IInv, InTime
    <2>. QED
      BY <1>1, <2>3, <2>4 DEF InTime, Ahead, Unchecked
  <1>. QED
    BY <1>1, <1>4, <1>5, <1>6 DEF IInv, keyboard

LEMMA FatalExceptionKeeps == ASSUME IInv, FatalException PROVE IInv'
  <1>1. Shutdown(FALSE) /\ faults' = faults + 1 /\ faults \in Nat
    BY DEF FatalException, Fault, IInv, TypeOK
  <1>2. faults' \in Nat
    BY <1>1
  <1>. QED
    BY <1>1, <1>2, ShutdownKeeps

LEMMA QuitKeeps == ASSUME IInv, Quit PROVE IInv'
  <1>1. Shutdown(~GivenUp) /\ faults' = faults /\ faults \in Nat
    BY DEF Quit, IInv, TypeOK
  <1>2. (~GivenUp) \in BOOLEAN /\ faults' \in Nat
    BY <1>1
  <1>. QED
    BY <1>1, <1>2, ShutdownKeeps

\* The checks of an iteration that goes on: a shutdown begins, or is not too old.
LEMMA DiagnosisKeeps == ASSUME IInv, Diagnosis PROVE IInv'
  <1>1. /\ pc = "check" /\ ~End /\ pc' = "tick"
        /\ UNCHANGED <<wait, connected, heard, acked, screen, counterparty, keyboard, faults,
                       ending>>
    BY DEF Diagnosis
  <1>2. /\ heard \in Nat /\ Lost(faults) \in Nat /\ shutdown.age \in Nat
        /\ message \in Message /\ shutdown \in Sender
    BY Numbers DEF IInv, TypeOK
  <1>. DEFINE Now(m) ==
                  /\ m \in Message
                  /\ Meant(m.text, quit_sequence_started, shutdown'.in_progress)
                  /\ m.text = "connecting" => ~connected
  <1>3. \/ /\ ~connected /\ ~shutdown.in_progress /\ heard > ConnectingTimeout
           /\ message' = Permanent("timed out") /\ shutdown' = StartedShutdown(shutdown)
        \/ /\ ~connected /\ ~shutdown.in_progress /\ heard <= ConnectingTimeout
           /\ message' = Passing("connecting") /\ shutdown' = shutdown
        \/ /\ ~connected /\ ~shutdown.in_progress /\ heard <= ConnectingTimeout
           /\ message' = message /\ shutdown' = shutdown
        \/ /\ ~connected /\ shutdown.in_progress
           /\ message' = message /\ shutdown' = shutdown
        \/ /\ connected
           /\ message' = ConnectingCleared(message) /\ shutdown' = shutdown
    <2>1. ~(heard > ConnectingPoll) => heard <= ConnectingTimeout
      BY <1>2, Constants
    <2>2. ~(heard > ConnectingTimeout) => heard <= ConnectingTimeout
      BY <1>2, Constants
    <2>. QED
      BY <2>1, <2>2, Zenon DEF Diagnosis
  <1>4. CASE ~connected /\ ~shutdown.in_progress /\ heard > ConnectingTimeout
             /\ message' = Permanent("timed out") /\ shutdown' = StartedShutdown(shutdown)
    <2>1. shutdown' \in Sender /\ shutdown'.in_progress /\ shutdown'.age = 0
      BY <1>2, <1>4 DEF StartedShutdown, Sender, IInv, InTime
    <2>2. message' \in Message /\ message'.text = "timed out"
      BY <1>4, MessageTypes DEF Permanent, Text
    <2>3. TypeOK'
      BY <1>1, <2>1, <2>2 DEF IInv, TypeOK, keyboard
    <2>4. Said' /\ Shown'
      BY <1>1, <2>1, <2>2 DEF Said, Meant, Shown
    <2>5. InTime'
      <3>1. heard + 0 <= ConnectingTimeout + ConnectingPoll + Lost(faults)
        BY <1>1, <1>4 DEF IInv, InTime, Ahead, Unchecked
      <3>2. /\ heard + 0 <= ConnectingTimeout + ConnectingPoll + ACTIVE_RETRY_TIMEOUT + 0 + Lost(faults)
            /\ heard <= 0 + ConnectingTimeout + ConnectingPoll + Lost(faults)
        BY <1>2, <3>1, Constants
      <3>. QED
        BY <1>1, <2>1, <3>2 DEF InTime, Ahead, Unchecked
    <2>6. typed \in Seq(Byte)
      BY DEF IInv, TypeOK
    <2>7. KeysRead(typed, delivered, quit_sequence_started, lf_entered)
      BY <1>4 DEF IInv, Keys
    <2>8. delivered = Reading(typed)[1][FALSE]
      BY <2>6, <2>7, ReadAll DEF IInv, TypeOK
    <2>9. Keys(typed, delivered, quit_sequence_started, lf_entered, TRUE)
      BY <2>8 DEF Keys
    <2>. QED
      BY <1>1, <2>1, <2>3, <2>4, <2>5, <2>9 DEF IInv, keyboard
  <1>5. CASE shutdown' = shutdown /\ (~connected /\ ~shutdown.in_progress => heard <= ConnectingTimeout)
    <2>1. Now(message')
      <3>1. /\ Passing("connecting") \in Message /\ Passing("connecting").text = "connecting"
            /\ ConnectingCleared(message) \in Message
            /\ ConnectingCleared(message).text \in {"", message.text}
            /\ ConnectingCleared(message).text # "connecting"
        BY <1>2, MessageTypes DEF Passing, ConnectingCleared, Text
      <3>2. Meant(message.text, quit_sequence_started, shutdown'.in_progress)
        BY <1>5 DEF IInv, Said
      <3>3. Meant("connecting", quit_sequence_started, shutdown'.in_progress)
        BY DEF Meant
      <3>4. Meant(ConnectingCleared(message).text, quit_sequence_started, shutdown'.in_progress)
        BY <3>1, <3>2 DEF Meant
      <3>5. \/ message' = Passing("connecting") /\ ~connected
            \/ message' = message /\ ~connected
            \/ message' = ConnectingCleared(message)
        <4>1. heard <= ConnectingTimeout => ~(heard > ConnectingTimeout)
          BY <1>2, Constants
        <4>. QED
          BY <1>3, <1>5, <4>1, Zenon
      <3>6. CASE message' = Passing("connecting") /\ ~connected
        BY <3>1, <3>3, <3>6
      <3>7. CASE message' = message /\ ~connected
        BY <1>2, <3>2, <3>7
      <3>8. CASE message' = ConnectingCleared(message)
        BY <3>1, <3>4, <3>8
      <3>. QED
        BY <3>5, <3>6, <3>7, <3>8
    <2>2. TypeOK'
      BY <1>1, <1>5, <2>1 DEF IInv, TypeOK, keyboard
    <2>3. Said' /\ Shown'
      BY <1>1, <1>5, <2>1 DEF Said, Meant, Shown, keyboard
    <2>4. InTime'
      <3>1. ~shutdown.in_progress => shutdown.age = 0
        BY DEF IInv, InTime
      <3>2. ASSUME ~connected, ~shutdown.in_progress
            PROVE  heard + 0 <= ConnectingTimeout + 0 + Lost(faults)
        BY <1>2, <1>5, <3>2, Constants
      <3>3. ASSUME ~connected, shutdown.in_progress
            PROVE  /\ heard + 0 <= ConnectingTimeout + ConnectingPoll + ACTIVE_RETRY_TIMEOUT
                                      + 0 + Lost(faults)
                   /\ heard <= shutdown.age + ConnectingTimeout + ConnectingPoll + Lost(faults)
        <4>1. ~(shutdown.age >= ACTIVE_RETRY_TIMEOUT)
          BY <1>1, <3>3 DEF End, Acknowledged, GivenUp, ShutdownAckTimedOut
        <4>2. heard <= shutdown.age + ConnectingTimeout + ConnectingPoll + Lost(faults)
          BY <3>3, <4>1 DEF IInv, InTime
        <4>. QED
          BY <1>2, <4>1, <4>2, Constants
      <3>. QED
        BY <1>1, <1>5, <3>1, <3>2, <3>3 DEF InTime, Ahead, Unchecked
    <2>. QED
      BY <1>1, <1>5, <2>2, <2>3, <2>4 DEF IInv, keyboard
  <1>. QED
    BY <1>3, <1>4, <1>5

LEMMA TickKeeps == ASSUME IInv, Tick PROVE IInv'
  <1>1. /\ pc = "tick" /\ pc' = "draw"
        /\ UNCHANGED <<wait, connected, heard, acked, screen, keyboard, ending>>
        /\ \/ UNCHANGED <<shutdown, counterparty>>
           \/ shutdown' = [shutdown EXCEPT !.tries =
                  IF shutdown.in_progress THEN Least({shutdown.tries + 1, SHUTDOWN_RETRIES})
                  ELSE shutdown.tries]
        /\ \/ message' = NetworkErrorCleared(message) /\ UNCHANGED faults
           \/ message' = NetworkError /\ faults' = faults + 1
    BY DEF Tick, Fault
  <1>2. /\ heard \in Nat /\ shutdown.age \in Nat /\ faults \in Nat /\ Lost(faults) \in Nat
        /\ message \in Message /\ shutdown \in Sender
    BY Numbers DEF IInv, TypeOK
  <1>3. /\ shutdown' \in Sender /\ shutdown'.in_progress = shutdown.in_progress
        /\ shutdown'.age = shutdown.age
    <2>1. shutdown.tries \in Nat
      BY <1>2 DEF Sender
    <2>2. Least({shutdown.tries + 1, SHUTDOWN_RETRIES}) \in Nat
      BY <2>1, LeastOfTwo, Constants
    <2>. DEFINE n == IF shutdown.in_progress THEN Least({shutdown.tries + 1, SHUTDOWN_RETRIES})
                     ELSE shutdown.tries
    <2>3. n \in Nat
      BY <2>1, <2>2
    <2>4. shutdown' = shutdown \/ shutdown' = [shutdown EXCEPT !.tries = n]
      BY <1>1
    <2>. HIDE DEF n
    <2>. QED
      BY <1>2, <2>3, <2>4 DEF Sender
  <1>4. message' \in Message /\ message'.text \in {"error", message.text}
    <2>1. NetworkError \in Message /\ NetworkError.text = "error"
      BY MessageTypes DEF NetworkError
    <2>2. message.left \in Int
      BY <1>2 DEF Message
    <2>3. Least({message.left, MessageTime}) \in Int
      BY <2>2, LeastOfTwo, Constants
    <2>4. NetworkErrorCleared(message) \in Message /\ NetworkErrorCleared(message).text = message.text
      BY <1>2, <2>3 DEF NetworkErrorCleared, Message
    <2>. QED
      BY <1>1, <2>1, <2>4
  <1>5. /\ faults' \in Nat /\ Lost(faults') \in Nat /\ Lost(faults') >= Lost(faults)
    <2>1. faults + 1 \in Nat
      BY <1>2
    <2>2. Lost(faults + 1) \in Nat /\ Lost(faults + 1) >= Lost(faults) /\ Lost(faults) >= Lost(faults)
      BY <1>2, <2>1, LostFacts, Constants
    <2>. QED
      BY <1>1, <1>2, <2>1, <2>2
  <1>6. TypeOK'
    BY <1>1, <1>3, <1>4, <1>5 DEF IInv, TypeOK, keyboard
  <1>7. Said' /\ Shown'
    BY <1>1, <1>3, <1>4 DEF IInv, Said, Meant, Shown, keyboard
  <1>8. InTime'
    <2>1. ~shutdown.in_progress => shutdown.age = 0
      BY DEF IInv, InTime
    <2>2. ASSUME NEW l \in Nat, l >= Lost(faults)
          PROVE  /\ heard + 0 <= ConnectingTimeout + 0 + Lost(faults) =>
                       heard + 0 <= ConnectingTimeout + 0 + l
                 /\ heard + 0 <= ConnectingTimeout + ConnectingPoll + ACTIVE_RETRY_TIMEOUT
                                    + 0 + Lost(faults) =>
                       heard + 0 <= ConnectingTimeout + ConnectingPoll + ACTIVE_RETRY_TIMEOUT + 0 + l
                 /\ heard <= shutdown.age + ConnectingTimeout + ConnectingPoll + Lost(faults) =>
                       heard <= shutdown.age + ConnectingTimeout + ConnectingPoll + l
      BY <1>2, <2>2, Constants
    <2>3. /\ heard + 0 <= ConnectingTimeout + 0 + Lost(faults) =>
                heard + 0 <= ConnectingTimeout + 0 + Lost(faults')
          /\ heard + 0 <= ConnectingTimeout + ConnectingPoll + ACTIVE_RETRY_TIMEOUT
                             + 0 + Lost(faults) =>
                heard + 0 <= ConnectingTimeout + ConnectingPoll + ACTIVE_RETRY_TIMEOUT
                                + 0 + Lost(faults')
          /\ heard <= shutdown.age + ConnectingTimeout + ConnectingPoll + Lost(faults) =>
                heard <= shutdown.age + ConnectingTimeout + ConnectingPoll + Lost(faults')
      BY <1>5, <2>2
    <2>4. /\ ~connected /\ ~shutdown.in_progress =>
                heard + 0 <= ConnectingTimeout + 0 + Lost(faults)
          /\ ~connected /\ shutdown.in_progress =>
                /\ heard + 0 <= ConnectingTimeout + ConnectingPoll + ACTIVE_RETRY_TIMEOUT
                                  + 0 + Lost(faults)
                /\ \/ heard <= shutdown.age + ConnectingTimeout + ConnectingPoll + Lost(faults)
                   \/ shutdown.age >= ACTIVE_RETRY_TIMEOUT
      BY <1>1 DEF IInv, InTime, Ahead, Unchecked
    <2>. QED
      BY <1>1, <1>3, <2>1, <2>3, <2>4 DEF InTime, Ahead, Unchecked
  <1>. QED
    BY <1>1, <1>3, <1>6, <1>7, <1>8 DEF IInv, keyboard

LEMMA NextKeeps == ASSUME IInv, [Next]_vars PROVE IInv'
  <1>1. CASE UNCHANGED vars
    BY <1>1, ZenonT(60) DEF vars, clock, keyboard, IInv, TypeOK, Said, Shown, InTime, Ahead, Unchecked
  <1>2. CASE Next
    BY <1>2, DrawKeeps, SelectKeeps, NetworkInputKeeps, UserInputKeeps, NetworkExceptionKeeps,
       CryptoExceptionKeeps, FatalExceptionKeeps, QuitKeeps, DiagnosisKeeps, TickKeeps DEF Next
  <1>. QED
    BY <1>1, <1>2

-----------------------------------------------------------------------------
(***************************************************************************)
(* Every reachable state is well typed, with messages that are meant, a    *)
(* bar that will be renewed, checks that are not overdue, and bytes read   *)
(* as far as they were typed.                                              *)
(***************************************************************************)
THEOREM Invariance == Spec => []IInv
  <1>1. Init => IInv
    BY InitHolds
  <1>2. IInv /\ [Next]_vars => IInv'
    BY NextKeeps
  <1>. QED
    BY <1>1, <1>2, PTL DEF Spec

(***************************************************************************)
(* The help is shown only while its sequence is open and a farewell only   *)
(* while the session shuts down, whatever order the notification engine    *)
(* (terminaloverlay.cc) is given its messages in; and while the loop of    *)
(* stmclient.cpp sleeps, "Nothing received from server" is not on the bar  *)
(* of a client that is connected.                                          *)
(***************************************************************************)
THEOREM MessagesAreTrue == Spec => []MessageIsTrue
  <1>1. IInv => MessageIsTrue
    BY DEF IInv, Said, Meant, Shown, MessageIsTrue
  <1>. QED
    BY <1>1, Invariance, PTL

(***************************************************************************)
(* While the loop sleeps the bar shows no message beyond its time and no   *)
(* seconds older than their interval, and a silent server is on it within  *)
(* a heartbeat: wait_time of the notification engine, taken into the       *)
(* timeout of select, leaves no deadline out.                              *)
(***************************************************************************)
THEOREM BarStaysCurrent == Spec => []BarIsCurrent
  <1>1. ASSUME IInv, pc = "select" PROVE BarIsCurrent
    <2>1. /\ wait \in Nat /\ heard \in Nat /\ acked \in Nat /\ message.left \in Int
          /\ screen.age \in Nat
      BY <1>1, Numbers DEF IInv
    <2>2. screen.text # "" => screen.text = message.text /\ message.left >= 0
      <3>1. wait <= message.left => message.left >= 0
        BY <2>1
      <3>. QED
        BY <1>1, <3>1 DEF IInv, Shown
    <2>3. /\ screen.age <= ACK_INTERVAL
          /\ screen.countup /\ heard <= DisconnectedLong => screen.age <= CountupInterval
      <3>1. screen.age + wait <= ACK_INTERVAL => screen.age <= ACK_INTERVAL
        BY <2>1, Constants
      <3>2. screen.age + wait <= CountupInterval => screen.age <= CountupInterval
        BY <2>1, Constants
      <3>. QED
        BY <1>1, <3>1, <3>2 DEF IInv, Shown
    <2>4. ~(heard > DisconnectedLong) => heard <= DisconnectedLong
      BY <2>1, Constants
    <2>5. ASSUME ~screen.countup
          PROVE  ~(heard > ServerLate + ACK_INTERVAL) /\ ~(acked > ReplyLate + ACK_INTERVAL)
      <3>1. /\ heard + wait <= ServerLate + ACK_INTERVAL
            /\ acked + wait <= ReplyLate + ACK_INTERVAL
        BY <1>1, <2>5 DEF IInv, Shown
      <3>. QED
        BY <2>1, <3>1, Constants
    <2>. QED
      BY <2>2, <2>3, <2>4, <2>5, Zenon DEF BarIsCurrent
  <1>2. IInv => BarIsCurrent
    BY <1>1 DEF BarIsCurrent
  <1>. QED
    BY <1>2, Invariance, PTL

(***************************************************************************)
(* A client that has never heard from its server is not connecting longer  *)
(* than the timeout of stmclient.cpp:353, the sender's shutdown and two    *)
(* polls, and another sleep and poll for each exception that was thrown.   *)
(***************************************************************************)
THEOREM ConnectingEnds == Spec => []GivesUpInTime
  <1>1. ASSUME IInv, ~connected, pc = "select"
        PROVE  heard <= ConnectingTimeout + ACTIVE_RETRY_TIMEOUT + 2 * ConnectingPoll
                           + faults * (ErrorSleep + ConnectingPoll)
    <2>1. wait \in Nat /\ heard \in Nat /\ Lost(faults) \in Nat
      BY <1>1, Numbers DEF IInv
    <2>2. \/ heard + wait <= ConnectingTimeout + ConnectingPoll + Lost(faults)
          \/ heard + wait <= ConnectingTimeout + ConnectingPoll + ACTIVE_RETRY_TIMEOUT
                                + ConnectingPoll + Lost(faults)
      BY <1>1 DEF IInv, InTime, Ahead, Unchecked
    <2>3. heard <= ConnectingTimeout + ACTIVE_RETRY_TIMEOUT + 2 * ConnectingPoll + Lost(faults)
      BY <2>1, <2>2, Constants
    <2>. QED
      BY <2>3 DEF Lost
  <1>2. IInv => GivesUpInTime
    BY <1>1 DEF GivesUpInTime
  <1>. QED
    BY <1>2, Invariance, PTL

(***************************************************************************)
(* What process_user_input (stmclient.cpp) has pushed to the server is     *)
(* what the bytes read from the console stand for, read once from the left *)
(* with all of them known: in order, none twice, and no byte of a command. *)
(***************************************************************************)
THEOREM KeysReachTheServer == Spec => []KeysAreDelivered
  <1>1. ASSUME IInv PROVE KeysAreDelivered
    <2>1. CASE shutdown.in_progress
      BY <1>1, <2>1 DEF IInv, Keys, KeysAreDelivered
    <2>2. CASE ~shutdown.in_progress
      <3>1. KeysRead(typed, delivered, quit_sequence_started, lf_entered)
        BY <1>1, <2>2 DEF IInv, Keys
      <3>. QED
        BY <1>1, <3>1, ReadAll DEF IInv, TypeOK, KeysAreDelivered
    <2>. QED
      BY <2>1, <2>2
  <1>. QED
    BY <1>1, Invariance, PTL
=============================================================================
