---------------------------- MODULE StatesProofs ----------------------------
(***************************************************************************)
(* What the host is told of the keystrokes, and the client of the host:    *)
(* they arrive as typed, for any number of them and of states              *)
(* (UserStreams, first part), the server acknowledges the frames they came *)
(* in when the host has had them long enough (EchoAck, second part), and   *)
(* every screen keeps its shape, for windows of any size and whatever the  *)
(* host writes, and the client's stays as a frame expects it (Screens,     *)
(* third part).                                                            *)
(*                                                                         *)
(* UserStreams. A UserStream at either end is what was typed from one      *)
(* place to another (Piece). The lists hold such pieces of snapshots the   *)
(* client took, each end's with the same start, where that end last cut    *)
(* (Copies); a diff is the piece between two snapshots, and so it still    *)
(* fits after either end has cut more off.                                 *)
(*                                                                         *)
(* EchoAck. What is kept of the history is all that was registered from    *)
(* the frame last acknowledged on. So that frame is still there and still  *)
(* due when set_echo_ack looks again, and the ack does not go back; and it *)
(* is the first entry, so the second is the next to be acknowledged, which *)
(* is the one the loop waits for.                                          *)
(*                                                                         *)
(* Screens. That every function of the emulator keeps a screen's shape     *)
(* (Shape, Keeps) goes by cases on the function. That the client's screen  *)
(* stays plain needs what new_frame knows of it: between frames its cursor *)
(* is where the server's is (Near), or, on the last row, to the left of    *)
(* it, where a frame that counted columns from beyond the right edge left  *)
(* it (Believed). Within a frame, every helper of new_frame keeps the      *)
(* screen drawn so far plain (Good) and the writer's idea of the cursor    *)
(* either right or given up (Located: Sure or Lost); put_row may end in a  *)
(* pending wrap, and then only where the next row, or the cursor's last    *)
(* move, takes it (Ended, Begun).                                          *)
(*                                                                         *)
(* A recursive function is read one step at a time, by a lemma for each:   *)
(* DECModes (Modes...), Act (Act...), put_row's cells (Cells...) and       *)
(* new_frame's rows (Rows...); induction over their steps is Induction,    *)
(* about the set of the numbers reached.                                   *)
(***************************************************************************)
EXTENDS UserStreams, EchoAck, Screens, SequenceTheorems, FiniteSetTheorems, TLAPS

\* The events after the a-th, up to the b-th.
Piece(a, b) == [i \in 1 .. b - a |-> a + i]

Snapshot == [num : 0 .. MaxNum, state : 0 .. MaxTyped]

\* The set T of snapshots as an end holds them that has cut at cut.
Copy(t, cut) == [num |-> t.num, state |-> Piece(cut, t.state)]
Copies(T, cut) == {Copy(t, cut) : t \in T}

Holds(list, T, cut) ==
    T # {} /\ (\A t \in T : cut <= t.state) /\ list = Copies(T, cut)

\* Of the snapshots S, those a list holds.
HeldIn(list, S) == {t \in S : HasNum(list, t.num)}
InSent == HeldIn(sent, snapshots)
InReceived == HeldIn(received, snapshots)

\* Snapshots are numbered in the order they were taken, and the stream only grows.
Ordered(S) == S \subseteq Snapshot /\ \A s, t \in S : s.num <= t.num => s.state <= t.state

Stream ==
    /\ ~aborted
    /\ typed \in 0 .. MaxTyped /\ sender_cut \in Nat /\ receiver_cut \in Nat
    /\ sender_cut <= typed /\ current = Piece(sender_cut, typed)
    /\ Ordered(snapshots) /\ \A s \in snapshots : s.state <= typed

Sender ==
    /\ Holds(sent, InSent, sender_cut)
    /\ \A t \in snapshots : t.num <= Newest(InSent).num

Receiver ==
    /\ Holds(received, InReceived, receiver_cut)
    /\ output = Piece(0, Len(output))
    /\ receiver_cut <= Len(output) /\ Len(output) <= Newest(InReceived).state
    /\ last_receiver_state = Piece(receiver_cut, Len(output))

\* An instruction takes one snapshot to another and never throws away the first.
Takes(m, s, t) ==
    /\ m.old = s.num /\ m.new = t.num /\ s.num <= t.num
    /\ m.diff = Piece(s.state, t.state) /\ m.throwaway <= s.num

Messages == \A m \in net : \E s, t \in snapshots : Takes(m, s, t) /\ m.throwaway \in Nat

IInv == Stream /\ Sender /\ Receiver /\ Messages

-----------------------------------------------------------------------------
(* Pieces *)

LEMMA PieceFacts ==
    ASSUME NEW a \in Nat, NEW b \in Nat, a <= b
    PROVE  /\ Piece(a, b) \in Seq(Nat) /\ Len(Piece(a, b)) = b - a
           /\ \A i \in 1 .. b - a : Piece(a, b)[i] = a + i
  BY DEF Piece

LEMMA SamePiece ==
    ASSUME NEW a \in Nat, NEW b \in Nat, NEW c \in Nat, a <= b, a <= c
    PROVE  Piece(a, b) = Piece(a, c) <=> b = c
  <1>1. Len(Piece(a, b)) = b - a /\ Len(Piece(a, c)) = c - a
    BY PieceFacts
  <1>. QED
    BY <1>1

\* Two sequences are equal if they have the same length and elements.
LEMMA SameSeq ==
    ASSUME NEW S, NEW s \in Seq(S), NEW t \in Seq(S), Len(s) = Len(t),
           \A i \in 1 .. Len(s) : s[i] = t[i]
    PROVE  s = t
  OBVIOUS

\* subtract and diff_from
LEMMA CutPiece ==
    ASSUME NEW a \in Nat, NEW b \in Nat, NEW c \in Nat, a <= b, b <= c
    PROVE  /\ Subtractable(Piece(a, c), Piece(a, b))
           /\ Subtract(Piece(a, c), Piece(a, b)) = Piece(b, c)
           /\ DiffFrom(Piece(a, c), Piece(a, b)) = Piece(b, c)
  <1>. DEFINE p == Piece(a, b)
              q == Piece(a, c)
              r == SubSeq(q, Len(p) + 1, Len(q))
              x == SubSeq(p, 1, Len(p))
              y == SubSeq(q, 1, Len(p))
  <1>1. /\ p \in Seq(Nat) /\ Len(p) = b - a /\ \A i \in 1 .. b - a : p[i] = a + i
        /\ q \in Seq(Nat) /\ Len(q) = c - a /\ \A i \in 1 .. c - a : q[i] = a + i
    BY PieceFacts, a <= c
  <1>2. /\ Piece(b, c) \in Seq(Nat) /\ Len(Piece(b, c)) = c - b
        /\ \A i \in 1 .. c - b : Piece(b, c)[i] = b + i
    BY PieceFacts
  <1>. HIDE DEF p, q
  <1>3. r = Piece(b, c)
    <2>1. /\ Len(p) + 1 \in 1 .. Len(q) + 1 /\ Len(q) \in Len(p) .. Len(q)
          /\ Len(p) \in Nat /\ Len(q) \in Nat
      BY <1>1
    <2>2. /\ r \in Seq(Nat) /\ Len(r) = Len(q) - Len(p)
          /\ \A i \in 1 .. Len(q) - Len(p) : r[i] = q[Len(p) + i]
      <3>1. CASE Len(p) + 1 <= Len(q)
        BY <1>1, <2>1, <3>1, SubSeqProperties
      <3>2. CASE Len(p) = Len(q)
        BY <1>1, <2>1, <3>2, SubSeqProperties
      <3>. QED
        BY <2>1, <3>1, <3>2
    <2>3. Len(r) = c - b /\ \A i \in 1 .. c - b : r[i] = b + i
      BY <1>1, <2>2
    <2>. HIDE DEF r
    <2>. QED
      BY <1>2, <2>2, <2>3, SameSeq
  <1>4. x = y
    <2>1. /\ x \in Seq(Nat) /\ Len(x) = b - a /\ \A i \in 1 .. b - a : x[i] = a + i
      BY <1>1, SubSeqProperties, SMTT(30)
    <2>2. /\ y \in Seq(Nat) /\ Len(y) = b - a /\ \A i \in 1 .. b - a : y[i] = a + i
      BY <1>1, SubSeqProperties, SMTT(30)
    <2>. HIDE DEF x, y
    <2>. QED
      BY <2>1, <2>2, SameSeq
  <1>5. IsPrefix(p, q)
    BY <1>1, <1>4 DEF IsPrefix
  <1>. QED
    BY <1>3, <1>5 DEF Subtractable, Subtract, DiffFrom, p, q

\* apply_string and push_back
LEMMA JoinPieces ==
    ASSUME NEW a \in Nat, NEW b \in Nat, NEW c \in Nat, a <= b, b <= c
    PROVE  Piece(a, b) \o Piece(b, c) = Piece(a, c)
  <1>. DEFINE p == Piece(a, b)
              q == Piece(b, c)
  <1>1. /\ p \in Seq(Nat) /\ Len(p) = b - a /\ \A i \in 1 .. b - a : p[i] = a + i
        /\ q \in Seq(Nat) /\ Len(q) = c - b /\ \A i \in 1 .. c - b : q[i] = b + i
    BY PieceFacts
  <1>2. /\ Piece(a, c) \in Seq(Nat) /\ Len(Piece(a, c)) = c - a
        /\ \A i \in 1 .. c - a : Piece(a, c)[i] = a + i
    BY PieceFacts
  <1>. HIDE DEF p, q
  <1>3. /\ p \o q \in Seq(Nat) /\ Len(p \o q) = Len(p) + Len(q)
        /\ \A i \in 1 .. Len(p) + Len(q) :
              (p \o q)[i] = IF i <= Len(p) THEN p[i] ELSE q[i - Len(p)]
    BY <1>1, ConcatProperties
  <1>4. Len(p \o q) = c - a
    BY <1>1, <1>3
  <1>5. ASSUME NEW i \in 1 .. c - a PROVE (p \o q)[i] = a + i
    <2>1. (p \o q)[i] = IF i <= b - a THEN p[i] ELSE q[i - (b - a)]
      BY <1>1, <1>3, SMTT(30)
    <2>2. CASE i <= b - a
      BY <1>1, <2>1, <2>2
    <2>3. CASE ~(i <= b - a)
      <3>1. i - (b - a) \in 1 .. c - b
        BY <2>3
      <3>2. q[i - (b - a)] = b + (i - (b - a))
        BY <1>1, <3>1
      <3>. QED
        BY <2>1, <2>3, <3>2
    <2>. QED
      BY <2>2, <2>3
  <1>6. p \o q = Piece(a, c)
    <2>. DEFINE j == p \o q
    <2>1. j \in Seq(Nat) /\ Len(j) = c - a /\ \A i \in 1 .. c - a : j[i] = a + i
      BY <1>3, <1>4, <1>5
    <2>. HIDE DEF j
    <2>2. j = Piece(a, c)
      BY <1>2, <2>1, SameSeq
    <2>. QED
      BY <2>2 DEF j
  <1>. QED
    BY <1>6 DEF p, q

LEMMA GrownPiece ==
    ASSUME NEW a \in Nat, NEW b \in Nat, a <= b
    PROVE  Append(Piece(a, b), b + 1) = Piece(a, b + 1)
  <1>. DEFINE g == Append(Piece(a, b), b + 1)
  <1>1. /\ Piece(a, b) \in Seq(Nat) /\ Len(Piece(a, b)) = b - a
        /\ \A i \in 1 .. b - a : Piece(a, b)[i] = a + i
    BY PieceFacts
  <1>2. /\ Piece(a, b + 1) \in Seq(Nat) /\ Len(Piece(a, b + 1)) = b + 1 - a
        /\ \A i \in 1 .. b + 1 - a : Piece(a, b + 1)[i] = a + i
    BY PieceFacts, b + 1 \in Nat, a <= b + 1
  <1>3. /\ g \in Seq(Nat) /\ Len(g) = b + 1 - a /\ \A i \in 1 .. b + 1 - a : g[i] = a + i
    <2>. DEFINE q == Piece(a, b)
    <2>. HIDE DEF q
    <2>1. /\ Append(q, b + 1) \in Seq(Nat) /\ Len(Append(q, b + 1)) = Len(q) + 1
          /\ Append(q, b + 1)[Len(q) + 1] = b + 1
          /\ \A i \in 1 .. Len(q) : Append(q, b + 1)[i] = q[i]
      BY <1>1, AppendProperties, b + 1 \in Nat DEF q
    <2>2. g = Append(q, b + 1) /\ Len(q) = b - a
      BY <1>1 DEF q
    <2>3. \A i \in 1 .. b - a : q[i] = a + i
      BY <1>1 DEF q
    <2>. HIDE DEF g
    <2>. QED
      BY <2>1, <2>2, <2>3, SMTT(30)
  <1>. HIDE DEF g
  <1>4. g = Piece(a, b + 1)
    BY <1>2, <1>3, SameSeq
  <1>. QED
    BY <1>4 DEF g

-----------------------------------------------------------------------------
(* Lists *)

\* Numbers have a least one.
LEMMA LeastNum ==
    ASSUME NEW T, T \subseteq Nat, T # {}
    PROVE  \E a \in T : \A b \in T : a <= b
  <1>. DEFINE Below(t) == {b \in T : b <= t}
              Family == {Below(t) : t \in T}
  <1>1. ASSUME NEW t \in T PROVE Below(t) \in FiniteSubsetsOf(T)
    <2>1. IsFiniteSet(0 .. t)
      BY FS_Interval, 0 \in Int, t \in Int
    <2>2. Below(t) \subseteq 0 .. t
      <3>1. \A b \in T : b \in Nat /\ (b <= t => b \in 0 .. t)
        OBVIOUS
      <3>. QED
        BY <3>1
    <2>. QED
      BY <2>1, <2>2, FS_Subset DEF FiniteSubsetsOf
  <1>2. Family # {} /\ Family \subseteq FiniteSubsetsOf(T)
    BY <1>1
  <1>3. PICK least \in Family : \A f \in Family : <<f, least>> \notin StrictSubsetOrdering(T)
    BY <1>2, FS_StrictSubsetOrderingWellFounded, WFMin
  <1>4. PICK a \in T : least = Below(a)
    OBVIOUS
  <1>5. ASSUME NEW b \in T, b < a PROVE FALSE
    <2>1. a \in Below(a) /\ a \notin Below(b)
      BY <1>5, a \in Nat, b \in Nat
    <2>2. \A c \in T : c <= b => c <= a
      BY <1>5
    <2>3. <<Below(b), Below(a)>> \in StrictSubsetOrdering(T)
      BY <2>1, <2>2 DEF StrictSubsetOrdering
    <2>. QED
      BY <1>3, <1>4, <2>3
  <1>. QED
    BY <1>5

\* Numbers below a bound have a greatest one.
LEMMA GreatestNum ==
    ASSUME NEW n \in Nat, NEW T, T \subseteq 0 .. n, T # {}
    PROVE  \E a \in T : \A b \in T : b <= a
  <1>. DEFINE D == {n - t : t \in T}
  <1>1. D \subseteq Nat /\ D # {}
    <2>1. \A t \in T : t \in 0 .. n /\ n - t \in Nat
      OBVIOUS
    <2>. QED
      BY <2>1
  <1>. HIDE DEF D
  <1>2. PICK d \in D : \A e \in D : d <= e
    BY <1>1, LeastNum
  <1>3. PICK a \in T : d = n - a
    BY DEF D
  <1>4. ASSUME NEW b \in T PROVE b <= a
    <2>1. d <= n - b
      BY <1>2 DEF D
    <2>. QED
      BY <1>3, <2>1
  <1>. QED
    BY <1>4

LEMMA Distinct ==
    ASSUME NEW S, Ordered(S), NEW s \in S, NEW t \in S, s.num = t.num
    PROVE  s = t
  <1>1. s \in Snapshot /\ t \in Snapshot /\ s.num \in Nat
    BY DEF Ordered, Snapshot
  <1>2. s.state <= t.state /\ t.state <= s.state
    BY <1>1 DEF Ordered, Snapshot
  <1>. QED
    BY <1>1, <1>2 DEF Snapshot

\* The ends of a set of snapshots
LEMMA Ends ==
    ASSUME NEW T, Ordered(T), T # {}
    PROVE  /\ Oldest(T) \in T /\ Newest(T) \in T
           /\ \A t \in T : /\ Oldest(T).num <= t.num /\ t.num <= Newest(T).num
                           /\ Oldest(T).state <= t.state /\ t.state <= Newest(T).state
  <1>. DEFINE N == {t.num : t \in T}
  <1>1. MaxNum \in Nat /\ N \subseteq 0 .. MaxNum /\ N \subseteq Nat /\ N # {}
    BY UserStreamAssumption DEF Ordered, Snapshot
  <1>. HIDE DEF N
  <1>2. \E a \in N : \A b \in N : a <= b
    BY <1>1, LeastNum
  <1>3. \E a \in N : \A b \in N : b <= a
    BY <1>1, GreatestNum
  <1>4. \E s \in T : \A t \in T : s.num <= t.num
    BY <1>2 DEF N
  <1>5. \E s \in T : \A t \in T : t.num <= s.num
    BY <1>3 DEF N
  <1>6. Oldest(T) \in T /\ \A t \in T : Oldest(T).num <= t.num
    BY <1>4 DEF Oldest
  <1>7. Newest(T) \in T /\ \A t \in T : t.num <= Newest(T).num
    BY <1>5 DEF Newest
  <1>. QED
    BY <1>6, <1>7 DEF Ordered

\* An end of the list is the copy of the end of the set.
LEMMA EndCopies ==
    ASSUME NEW T, Ordered(T), T # {}, NEW cut
    PROVE  /\ Oldest(Copies(T, cut)) = Copy(Oldest(T), cut)
           /\ Newest(Copies(T, cut)) = Copy(Newest(T), cut)
  <1>. DEFINE L == Copies(T, cut)
  <1>1. /\ Oldest(T) \in T /\ Newest(T) \in T
        /\ \A t \in T : Oldest(T).num <= t.num /\ t.num <= Newest(T).num
    BY Ends
  <1>2. \A t \in T : t.num \in Nat
    BY DEF Ordered, Snapshot
  <1>3. \A s \in L : \E t \in T : s = Copy(t, cut) /\ s.num = t.num
    BY DEF Copies, Copy
  <1>4. \A t \in T : Copy(t, cut) \in L /\ Copy(t, cut).num = t.num
    BY DEF Copies, Copy
  <1>. HIDE DEF L
  <1>5. Oldest(L) \in L /\ \A s \in L : Oldest(L).num <= s.num
    <2>1. \E s \in L : \A u \in L : s.num <= u.num
      <3>1. Copy(Oldest(T), cut) \in L /\ \A u \in L : Copy(Oldest(T), cut).num <= u.num
        BY <1>1, <1>3, <1>4
      <3>. QED
        BY <3>1
    <2>. QED
      BY <2>1 DEF Oldest
  <1>6. Newest(L) \in L /\ \A s \in L : s.num <= Newest(L).num
    <2>1. \E s \in L : \A u \in L : u.num <= s.num
      <3>1. Copy(Newest(T), cut) \in L /\ \A u \in L : u.num <= Copy(Newest(T), cut).num
        BY <1>1, <1>3, <1>4
      <3>. QED
        BY <3>1
    <2>. QED
      BY <2>1 DEF Newest
  <1>7. Oldest(L) = Copy(Oldest(T), cut)
    <2>1. PICK t \in T : Oldest(L) = Copy(t, cut) /\ Oldest(L).num = t.num
      BY <1>3, <1>5
    <2>2. t.num <= Oldest(T).num /\ Oldest(T).num <= t.num
      BY <1>1, <1>4, <1>5, <2>1
    <2>3. t = Oldest(T)
      BY <1>1, <1>2, <2>2, Distinct
    <2>. QED
      BY <2>1, <2>3
  <1>8. Newest(L) = Copy(Newest(T), cut)
    <2>1. PICK t \in T : Newest(L) = Copy(t, cut) /\ Newest(L).num = t.num
      BY <1>3, <1>6
    <2>2. t.num <= Newest(T).num /\ Newest(T).num <= t.num
      BY <1>1, <1>4, <1>6, <2>1
    <2>3. t = Newest(T)
      BY <1>1, <1>2, <2>2, Distinct
    <2>. QED
      BY <2>1, <2>3
  <1>. QED
    BY <1>7, <1>8 DEF L

\* A list is the copies of one set of snapshots only.
LEMMA HeldInCopies ==
    ASSUME NEW S, Ordered(S), NEW T, T \subseteq S, NEW cut
    PROVE  HeldIn(Copies(T, cut), S) = T
  <1>1. ASSUME NEW t \in S PROVE HasNum(Copies(T, cut), t.num) <=> t \in T
    <2>1. HasNum(Copies(T, cut), t.num) <=> \E u \in T : Copy(u, cut).num = t.num
      BY DEF HasNum, Copies
    <2>2. \A u : Copy(u, cut).num = u.num
      BY DEF Copy
    <2>3. HasNum(Copies(T, cut), t.num) <=> \E u \in T : u.num = t.num
      BY <2>1, <2>2
    <2>. QED
      BY <2>3, Distinct
  <1>. QED
    BY <1>1 DEF HeldIn

\* Cutting the oldest state off all of a list
LEMMA CutList ==
    ASSUME NEW cut \in Nat, NEW list, NEW T, Ordered(T), Holds(list, T, cut)
    PROVE  /\ Oldest(list) = Copy(Oldest(T), cut) /\ Newest(list) = Copy(Newest(T), cut)
           /\ Oldest(T) \in T /\ Newest(T) \in T /\ Oldest(T) \in Snapshot
           /\ \A s \in list : Subtractable(s.state, Oldest(list).state)
           /\ Holds(CutOff(list, Oldest(list).state), T, Oldest(T).state)
           /\ cut + Len(Oldest(list).state) = Oldest(T).state
  <1>. DEFINE o == Oldest(T)
  <1>1. T # {} /\ (\A t \in T : cut <= t.state) /\ list = Copies(T, cut)
    BY DEF Holds
  <1>2. /\ o \in T /\ Newest(T) \in T /\ \A t \in T : o.state <= t.state
    BY <1>1, Ends
  <1>3. Oldest(list) = Copy(o, cut) /\ Newest(list) = Copy(Newest(T), cut)
    BY <1>1, EndCopies
  <1>4. \A t \in T : t \in Snapshot /\ t.state \in Nat
    BY <1>1 DEF Ordered, Snapshot
  <1>. HIDE DEF o
  <1>5. Oldest(list).state = Piece(cut, o.state)
    BY <1>3 DEF Copy
  <1>6. ASSUME NEW t \in T
        PROVE  /\ Subtractable(Copy(t, cut).state, Oldest(list).state)
               /\ [Copy(t, cut) EXCEPT !.state = Subtract(@, Oldest(list).state)] = Copy(t, o.state)
    <2>1. /\ Subtractable(Piece(cut, t.state), Piece(cut, o.state))
          /\ Subtract(Piece(cut, t.state), Piece(cut, o.state)) = Piece(o.state, t.state)
      BY <1>1, <1>2, <1>4, CutPiece
    <2>. QED
      BY <1>5, <2>1 DEF Copy
  <1>7. CutOff(list, Oldest(list).state) = Copies(T, o.state)
    <2>. DEFINE prefix == Oldest(list).state
                Cut(s) == [s EXCEPT !.state = Subtract(@, prefix)]
    <2>1. \A t \in T : Cut(Copy(t, cut)) = Copy(t, o.state)
      BY <1>6
    <2>2. CutOff(list, prefix) = {Cut(s) : s \in Copies(T, cut)}
      BY <1>1 DEF CutOff
    <2>. HIDE DEF Cut, prefix
    <2>3. {Cut(s) : s \in {Copy(t, cut) : t \in T}} = {Copy(t, o.state) : t \in T}
      BY <2>1
    <2>. QED
      BY <2>2, <2>3 DEF Copies, prefix
  <1>8. \A s \in list : Subtractable(s.state, Oldest(list).state)
    BY <1>1, <1>6 DEF Copies
  <1>9. cut + Len(Oldest(list).state) = o.state
    <2>1. o.state \in Nat /\ cut <= o.state
      BY <1>1, <1>2, <1>4
    <2>2. Len(Piece(cut, o.state)) = o.state - cut
      BY <2>1, PieceFacts
    <2>. QED
      BY <1>5, <2>1, <2>2
  <1>. QED
    BY <1>1, <1>2, <1>3, <1>4, <1>7, <1>8, <1>9 DEF Holds, o

-----------------------------------------------------------------------------
(* The actions *)

LEMMA HeldFacts ==
    ASSUME IInv
    PROVE  /\ Ordered(snapshots) /\ Ordered(InSent) /\ Ordered(InReceived)
           /\ InSent \subseteq snapshots /\ InReceived \subseteq snapshots
           /\ \A t \in snapshots : /\ t \in Snapshot /\ t.num \in Nat /\ t.state \in Nat
                                  /\ t.state <= typed
           /\ typed \in Nat /\ sender_cut \in Nat /\ receiver_cut \in Nat
           /\ MaxTyped \in Nat /\ MaxNum \in Nat /\ typed <= MaxTyped
  <1>1. Ordered(snapshots) /\ \A s \in snapshots : s.state <= typed
    BY DEF IInv, Stream
  <1>2. InSent \subseteq snapshots /\ InReceived \subseteq snapshots
    BY DEF InSent, InReceived, HeldIn
  <1>3. \A t \in snapshots : t \in Snapshot /\ t.num \in Nat /\ t.state \in Nat
    BY <1>1 DEF Ordered, Snapshot
  <1>4. Ordered(InSent) /\ Ordered(InReceived)
    BY <1>1, <1>2 DEF Ordered
  <1>. QED
    BY <1>1, <1>2, <1>3, <1>4, UserStreamAssumption DEF IInv, Stream

\* After a cut of the sender's states, also of the current one
LEMMA SenderCut ==
    ASSUME IInv
    PROVE  LET o == Oldest(InSent)
               n == Newest(InSent)
           IN  /\ RationalizeHolds /\ o \in InSent /\ n \in InSent
               /\ Oldest(sent) = Copy(o, sender_cut) /\ Newest(sent) = Copy(n, sender_cut)
               /\ Subtract(current, Known) = Piece(o.state, typed)
               /\ sender_cut + Len(Known) = o.state
               /\ Holds(Rationalized, InSent, o.state)
  <1>. DEFINE o == Oldest(InSent)
              n == Newest(InSent)
  <1>1. Holds(sent, InSent, sender_cut) /\ current = Piece(sender_cut, typed)
    BY DEF IInv, Sender, Stream
  <1>2. /\ Oldest(sent) = Copy(o, sender_cut) /\ Newest(sent) = Copy(n, sender_cut)
        /\ o \in InSent /\ n \in InSent
        /\ \A s \in sent : Subtractable(s.state, Known)
        /\ Holds(Rationalized, InSent, o.state)
        /\ sender_cut + Len(Known) = o.state
    BY <1>1, HeldFacts, CutList DEF Known, Rationalized
  <1>3. /\ o.state \in Nat /\ typed \in Nat /\ sender_cut \in Nat
        /\ sender_cut <= o.state /\ o.state <= typed
    BY <1>1, <1>2, HeldFacts DEF Holds
  <1>. HIDE DEF o, n
  <1>4. Known = Piece(sender_cut, o.state)
    BY <1>2 DEF Known, Copy
  <1>5. /\ Subtractable(current, Known) /\ Subtract(current, Known) = Piece(o.state, typed)
    BY <1>1, <1>3, <1>4, CutPiece
  <1>6. RationalizeHolds
    BY <1>2, <1>5 DEF RationalizeHolds
  <1>. QED
    BY <1>2, <1>5, <1>6 DEF o, n

LEMMA TypeKeeps == ASSUME IInv, Type PROVE IInv'
  <1>1. /\ typed < MaxTyped /\ typed' = typed + 1 /\ current' = Append(current, typed')
        /\ UNCHANGED <<sent, received, last_receiver_state, net, acks, aborted, sender_cut,
                       receiver_cut, output, snapshots>>
    BY DEF Type
  <1>2. Stream'
    <2>1. typed \in Nat /\ sender_cut \in Nat /\ sender_cut <= typed
      BY HeldFacts DEF IInv, Stream
    <2>2. current' = Piece(sender_cut, typed')
      BY <1>1, <2>1, GrownPiece DEF IInv, Stream
    <2>3. \A s \in snapshots : s.state <= typed'
      BY <1>1, HeldFacts
    <2>4. typed' \in 0 .. MaxTyped /\ sender_cut <= typed'
      BY <1>1, <2>1, HeldFacts
    <2>. QED
      BY <1>1, <2>2, <2>3, <2>4 DEF IInv, Stream
  <1>3. Sender' /\ Receiver' /\ Messages'
    BY <1>1 DEF IInv, Sender, Receiver, Messages, InSent, InReceived
  <1>. QED
    BY <1>2, <1>3 DEF IInv

LEMMA WaitKeeps == ASSUME IInv, Wait PROVE IInv'
  <1>. DEFINE o == Oldest(InSent)
  <1>1. /\ aborted' = ~RationalizeHolds /\ current' = Subtract(current, Known)
        /\ sent' = Rationalized /\ sender_cut' = sender_cut + Len(Known)
        /\ UNCHANGED <<received, last_receiver_state, net, acks, typed, receiver_cut, output,
                       snapshots>>
    BY DEF Wait
  <1>2. /\ RationalizeHolds /\ o \in InSent
        /\ Subtract(current, Known) = Piece(o.state, typed)
        /\ sender_cut + Len(Known) = o.state /\ Holds(Rationalized, InSent, o.state)
    BY SenderCut
  <1>3. o.state \in Nat /\ o.state <= typed
    BY <1>2, HeldFacts
  <1>4. InSent' = InSent /\ InReceived' = InReceived
    <2>1. sent' = Copies(InSent, o.state)
      BY <1>1, <1>2 DEF Holds
    <2>2. HeldIn(sent', snapshots) = InSent
      BY <2>1, HeldFacts, HeldInCopies
    <2>. QED
      BY <1>1, <2>2 DEF InSent, InReceived
  <1>5. Stream'
    BY <1>1, <1>2, <1>3 DEF IInv, Stream
  <1>6. Sender'
    BY <1>1, <1>2, <1>4 DEF IInv, Sender
  <1>7. Receiver' /\ Messages'
    BY <1>1, <1>4 DEF IInv, Receiver, Messages
  <1>. QED
    BY <1>5, <1>6, <1>7 DEF IInv

LEMMA AckKeeps == ASSUME IInv, ProcessAcknowledgment PROVE IInv'
  <1>1. PICK ack \in acks : (\E s \in sent : s.num = ack) /\ sent' = {s \in sent : s.num >= ack}
    BY DEF ProcessAcknowledgment
  <1>2. UNCHANGED <<current, received, last_receiver_state, net, acks, aborted, typed, sender_cut,
                    receiver_cut, output, snapshots>>
    BY DEF ProcessAcknowledgment
  <1>. DEFINE T == {t \in InSent : t.num >= ack}
  <1>3. Holds(sent, InSent, sender_cut) /\ T \subseteq snapshots
    BY HeldFacts DEF IInv, Sender
  <1>4. sent' = Copies(T, sender_cut)
    <2>1. \A t : Copy(t, sender_cut).num = t.num
      BY DEF Copy
    <2>2. sent = {Copy(t, sender_cut) : t \in InSent}
      BY <1>3 DEF Holds, Copies
    <2>3. \A s \in sent : \E t \in InSent : s = Copy(t, sender_cut)
      BY <2>2
    <2>4. \A t \in InSent : Copy(t, sender_cut) \in sent
      BY <2>2
    <2>5. \A s \in sent : s.num >= ack => s \in {Copy(t, sender_cut) : t \in T}
      BY <2>1, <2>3
    <2>6. \A t \in T : Copy(t, sender_cut) \in sent /\ Copy(t, sender_cut).num >= ack
      BY <2>1, <2>4
    <2>. QED
      BY <1>1, <2>5, <2>6 DEF Copies
  <1>5. PICK a \in InSent : a.num = ack
    BY <1>1, <1>3 DEF Holds, Copies, Copy
  <1>6. a \in T /\ T # {} /\ a.num \in Nat
    BY <1>5, HeldFacts
  <1>7. Newest(T) = Newest(InSent)
    <2>1. /\ Newest(InSent) \in InSent /\ \A t \in InSent : t.num <= Newest(InSent).num
      BY HeldFacts, Ends, <1>6
    <2>2. Newest(InSent) \in T
      BY <1>5, <2>1, HeldFacts
    <2>3. Ordered(T)
      BY HeldFacts DEF Ordered
    <2>4. /\ Newest(T) \in T /\ \A t \in T : t.num <= Newest(T).num
      BY <1>6, <2>3, Ends
    <2>5. Newest(T).num = Newest(InSent).num
      BY <2>1, <2>2, <2>4, HeldFacts
    <2>. QED
      BY <2>1, <2>4, <2>5, HeldFacts, Distinct
  <1>. HIDE DEF T
  <1>8. InSent' = T /\ InReceived' = InReceived
    BY <1>2, <1>3, <1>4, HeldFacts, HeldInCopies DEF InSent, InReceived
  <1>9. Sender'
    <2>1. Holds(sent', T, sender_cut)
      BY <1>3, <1>4, <1>6 DEF Holds, T
    <2>. QED
      BY <1>2, <1>7, <1>8, <2>1 DEF IInv, Sender
  <1>10. Stream' /\ Receiver' /\ Messages'
    BY <1>2, <1>8 DEF IInv, Stream, Receiver, Messages
  <1>. QED
    BY <1>9, <1>10 DEF IInv

\* A send takes a snapshot, or sends the newest again.
LEMMA SendFacts ==
    ASSUME IInv, Send
    PROVE  LET o == Oldest(InSent)
               n == Newest(InSent)
           IN  \E new \in Snapshot, b \in InSent :
                   /\ new.state = typed /\ (new = n \/ new.num = n.num + 1)
                   /\ snapshots' = snapshots \cup {new}
                   /\ net' = net \cup {[old |-> b.num, new |-> new.num,
                                        diff |-> Piece(b.state, typed), throwaway |-> o.num]}
                   /\ sent' = Copies(InSent \cup {new}, o.state)
                   /\ sender_cut' = o.state /\ current' = Piece(o.state, typed) /\ ~aborted'
                   /\ UNCHANGED <<received, last_receiver_state, acks, typed, receiver_cut,
                                  output>>
  <1>. DEFINE o == Oldest(InSent)
              n == Newest(InSent)
              c == o.state
              state == Subtract(current, Known)
              list == Rationalized
  <1>1. /\ RationalizeHolds /\ o \in InSent /\ n \in InSent
        /\ state = Piece(c, typed) /\ sender_cut + Len(Known) = c /\ Holds(list, InSent, c)
    BY SenderCut
  <1>2. /\ o \in Snapshot /\ n \in Snapshot /\ c \in Nat /\ n.num \in Nat
        /\ n.num <= MaxNum /\ typed \in Nat /\ c <= typed
    BY <1>1, HeldFacts DEF Snapshot
  <1>3. Oldest(list) = Copy(o, c) /\ Newest(list) = Copy(n, c)
    BY <1>1, <1>2, HeldFacts, CutList
  <1>4. \A b \in InSent : b.state \in Nat /\ c <= b.state /\ b.state <= typed
    BY <1>1, HeldFacts DEF Holds
  <1>5. PICK base \in Bases(list, state) :
          LET diff == DiffFrom(state, base.state)
              new_num == NewNum(list, state, diff)
          IN  /\ aborted' = ~(RationalizeHolds /\ Subtractable(state, base.state))
              /\ new_num <= MaxNum
              /\ current' = state
              /\ sender_cut' = sender_cut + Len(Known)
              /\ sent' = IF new_num = Newest(list).num THEN list
                         ELSE list \cup {[num |-> new_num, state |-> state]}
              /\ net' = net \cup {[old |-> base.num, new |-> new_num, diff |-> diff,
                                   throwaway |-> Oldest(list).num]}
              /\ snapshots' = snapshots \cup
                                {[num |-> new_num, state |-> sender_cut' + Len(state)]}
              /\ UNCHANGED <<received, last_receiver_state, acks, typed, receiver_cut, output>>
    BY DEF Send
  <1>6. PICK b \in {o, n} : base = Copy(b, c)
    BY <1>3 DEF Bases
  <1>. DEFINE diff == DiffFrom(state, base.state)
              new_num == NewNum(list, state, diff)
              new == [num |-> new_num, state |-> typed]
  <1>7. /\ Subtractable(state, base.state) /\ diff = Piece(b.state, typed)
    <2>1. b \in InSent /\ base.state = Piece(c, b.state)
      BY <1>1, <1>6 DEF Copy
    <2>2. c \in Nat /\ b.state \in Nat /\ typed \in Nat /\ c <= b.state /\ b.state <= typed
      BY <1>2, <1>4, <2>1
    <2>. HIDE DEF c, state
    <2>. QED
      BY <1>1, <2>1, <2>2, CutPiece
  <1>8. new_num \in {n.num, n.num + 1} /\ (new_num = n.num => n.state = typed)
    <2>1. Newest(list).num = n.num /\ Newest(list).state = Piece(c, n.state)
      BY <1>3 DEF Copy
    <2>2. state = Newest(list).state => n.state = typed
      <3>1. n.state \in Nat /\ c <= n.state
        BY <1>1, <1>4
      <3>. HIDE DEF c, state, list, n
      <3>2. Piece(c, typed) = Piece(c, n.state) <=> typed = n.state
        BY <1>2, <3>1, SamePiece
      <3>. QED
        BY <1>1, <2>1, <3>2
    <2>. HIDE DEF c, state, list, diff, n
    <2>. QED
      BY <1>2, <2>1, <2>2 DEF NewNum
  <1>. HIDE DEF new_num, diff
  <1>9. new \in Snapshot /\ (new = n \/ new.num = n.num + 1)
    <2>1. new_num \in 0 .. MaxNum
      BY <1>2, <1>5, <1>8, HeldFacts DEF new_num, diff
    <2>2. typed \in 0 .. MaxTyped
      BY HeldFacts
    <2>3. new_num = n.num => new = n
      BY <1>2, <1>8 DEF Snapshot
    <2>. QED
      BY <1>8, <2>1, <2>2, <2>3 DEF Snapshot
  <1>10. snapshots' = snapshots \cup {new}
    <2>1. c + Len(state) = typed
      <3>. HIDE DEF c, state
      <3>1. Len(state) = typed - c
        BY <1>1, <1>2, PieceFacts
      <3>. QED
        BY <1>2, <3>1
    <2>. QED
      BY <1>1, <1>5, <2>1 DEF new_num, diff
  <1>11. sent' = Copies(InSent \cup {new}, c)
    <2>1. list = Copies(InSent, c) /\ Newest(list).num = n.num
      BY <1>1, <1>3 DEF Holds, Copy
    <2>2. Copies(InSent \cup {new}, c) = list \cup {Copy(new, c)}
      BY <2>1 DEF Copies
    <2>3. Copy(new, c) = [num |-> new_num, state |-> state]
      BY <1>1 DEF Copy
    <2>4. CASE new_num = n.num
      <3>1. new = n
        BY <1>9, <1>2, <2>4
      <3>2. InSent \cup {new} = InSent
        BY <1>1, <3>1
      <3>. QED
        BY <1>5, <2>1, <2>4, <3>2 DEF new_num, diff
    <2>5. CASE new_num # n.num
      BY <1>5, <2>1, <2>2, <2>3, <2>5 DEF new_num, diff
    <2>. QED
      BY <2>4, <2>5
  <1>12. net' = net \cup {[old |-> b.num, new |-> new.num,
                           diff |-> Piece(b.state, typed), throwaway |-> o.num]}
    <2>1. base.num = b.num /\ Oldest(list).num = o.num
      BY <1>3, <1>6 DEF Copy
    <2>. QED
      BY <1>5, <1>7, <2>1 DEF new_num, diff
  <1>13. /\ sender_cut' = c /\ current' = Piece(c, typed) /\ ~aborted'
         /\ UNCHANGED <<received, last_receiver_state, acks, typed, receiver_cut, output>>
    BY <1>1, <1>5, <1>7 DEF new_num, diff
  <1>14. b \in InSent /\ new.state = typed
    BY <1>1
  <1>. HIDE DEF new
  <1>. QED
    BY <1>9, <1>10, <1>11, <1>12, <1>13, <1>14

LEMMA SendKeeps == ASSUME IInv, Send PROVE IInv'
  <1>. DEFINE o == Oldest(InSent)
              n == Newest(InSent)
  <1>1. PICK new \in Snapshot, b \in InSent :
            /\ new.state = typed /\ (new = n \/ new.num = n.num + 1)
            /\ snapshots' = snapshots \cup {new}
            /\ net' = net \cup {[old |-> b.num, new |-> new.num,
                                 diff |-> Piece(b.state, typed), throwaway |-> o.num]}
            /\ sent' = Copies(InSent \cup {new}, o.state)
            /\ sender_cut' = o.state /\ current' = Piece(o.state, typed) /\ ~aborted'
            /\ UNCHANGED <<received, last_receiver_state, acks, typed, receiver_cut, output>>
    BY SendFacts
  <1>. DEFINE T == InSent \cup {new}
  <1>2. /\ o \in InSent /\ n \in InSent /\ Holds(Rationalized, InSent, o.state)
    BY SenderCut
  <1>3. /\ new.num \in Nat /\ new.state \in Nat /\ n.num \in Nat /\ n.num <= new.num
        /\ \A t \in snapshots : t.num <= n.num
        /\ \A t \in InSent : o.num <= t.num
    <2>1. n.num \in Nat /\ new.num \in Nat /\ new.state \in Nat
      BY <1>2, HeldFacts DEF Snapshot
    <2>. QED
      BY <1>1, <1>2, <2>1, HeldFacts, Ends DEF IInv, Sender
  <1>4. Ordered(snapshots') /\ \A s \in snapshots' : s.state <= typed
    <2>1. \A s \in snapshots' : s \in Snapshot /\ s.state <= typed
      BY <1>1, <1>3, HeldFacts
    <2>2. ASSUME NEW s \in snapshots', NEW t \in snapshots', s.num <= t.num
          PROVE  s.state <= t.state
      <3>1. CASE t = new
        BY <1>1, <2>1, <3>1
      <3>2. CASE t \in snapshots /\ s \in snapshots
        BY <2>2, <3>2, HeldFacts DEF Ordered
      <3>3. CASE t \in snapshots /\ s = new
        <4>1. new.num = n.num /\ t.num = n.num /\ t.num \in Nat
          BY <1>1, <1>3, <2>2, <3>3, HeldFacts
        <4>2. new = n /\ t = n
          BY <1>1, <1>2, <1>3, <3>3, <4>1, HeldFacts, Distinct
        <4>. QED
          BY <1>3, <3>3, <4>2
      <3>. QED
        BY <1>1, <3>1, <3>2, <3>3
    <2>. QED
      BY <2>1, <2>2 DEF Ordered
  <1>5. T \subseteq snapshots' /\ InSent' = T
    <2>1. T \subseteq snapshots'
      BY <1>1, HeldFacts
    <2>2. HeldIn(sent', snapshots') = T
      BY <1>1, <1>4, <2>1, HeldInCopies
    <2>. QED
      BY <2>1, <2>2 DEF InSent
  <1>6. InReceived' = InReceived
    <2>1. received = Copies(InReceived, receiver_cut) /\ InReceived \subseteq snapshots'
      BY <1>1, HeldFacts DEF IInv, Receiver, Holds
    <2>2. HeldIn(received, snapshots') = InReceived
      BY <1>4, <2>1, HeldInCopies
    <2>. QED
      BY <1>1, <2>2 DEF InReceived
  <1>7. Newest(T) = new
    <2>1. Ordered(T) /\ T # {}
      BY <1>4, <1>5 DEF Ordered
    <2>2. Newest(T) \in T /\ \A t \in T : t.num <= Newest(T).num
      BY <2>1, Ends
    <2>3. Newest(T).num <= new.num /\ new.num <= Newest(T).num /\ Newest(T).num \in Nat
      <3>1. Newest(T) = new \/ Newest(T) \in InSent
        BY <2>2
      <3>2. Newest(T).num \in Nat /\ Newest(T).num <= new.num
        <4>1. CASE Newest(T) = new
          BY <1>3, <4>1
        <4>2. CASE Newest(T) \in InSent
          <5>1. Newest(T).num \in Nat /\ Newest(T).num <= n.num
            BY <1>3, <4>2, HeldFacts
          <5>. QED
            BY <1>3, <5>1
        <4>. QED
          BY <3>1, <4>1, <4>2
      <3>3. new.num <= Newest(T).num
        BY <2>2
      <3>. QED
        BY <3>2, <3>3
    <2>. QED
      BY <1>3, <2>1, <2>2, <2>3, Distinct
  <1>8. Stream'
    BY <1>1, <1>2, <1>4, HeldFacts DEF IInv, Stream
  <1>9. Sender'
    <2>1. \A t \in T : o.state <= t.state
      BY <1>1, <1>2, HeldFacts DEF Holds
    <2>2. Holds(sent', T, sender_cut')
      BY <1>1, <2>1 DEF Holds
    <2>3. \A t \in snapshots' : t.num <= new.num
      BY <1>1, <1>3, HeldFacts
    <2>. QED
      BY <1>5, <1>7, <2>2, <2>3 DEF Sender
  <1>10. Receiver'
    BY <1>1, <1>6 DEF IInv, Receiver
  <1>11. Messages'
    <2>. DEFINE sending == [old |-> b.num, new |-> new.num,
                            diff |-> Piece(b.state, typed), throwaway |-> o.num]
    <2>1. Takes(sending, b, new) /\ sending.throwaway \in Nat
      BY <1>1, <1>2, <1>3, HeldFacts DEF Takes
    <2>2. b \in snapshots' /\ new \in snapshots'
      BY <1>1, HeldFacts
    <2>3. \A m \in net : \E s, t \in snapshots' : Takes(m, s, t) /\ m.throwaway \in Nat
      BY <1>1 DEF IInv, Messages
    <2>. HIDE DEF sending
    <2>4. net' = net \cup {sending}
      BY <1>1 DEF sending
    <2>5. ASSUME NEW m \in net'
          PROVE  \E s, t \in snapshots' : Takes(m, s, t) /\ m.throwaway \in Nat
      BY <2>1, <2>2, <2>3, <2>4
    <2>. QED
      BY <2>5 DEF Messages
  <1>. QED
    BY <1>8, <1>9, <1>10, <1>11 DEF IInv

\* A packet that is not ignored adds the snapshot it brings.
LEMMA RecvFacts ==
    ASSUME IInv, Recv
    PROVE  \E T \in SUBSET InReceived, t \in snapshots :
               /\ Newest(InReceived) \in T
               /\ received' = Copies(T \cup {t}, receiver_cut) /\ receiver_cut <= t.state
               /\ UNCHANGED <<current, sent, last_receiver_state, net, aborted, typed,
                              sender_cut, receiver_cut, output, snapshots>>
  <1>1. PICK m \in net :
          /\ HasNum(received, m.old)
          /\ LET kept == {r \in received : r.num >= m.throwaway}
                 reference == WithNum(received, m.old)
                 new == [num |-> m.new, state |-> ApplyString(reference.state, m.diff)]
             IN  received' = kept \cup {new}
          /\ UNCHANGED <<current, sent, last_receiver_state, net, aborted, typed,
                         sender_cut, receiver_cut, output, snapshots>>
    BY DEF Recv
  <1>. DEFINE kept == {r \in received : r.num >= m.throwaway}
              reference == WithNum(received, m.old)
              new == [num |-> m.new, state |-> ApplyString(reference.state, m.diff)]
              T == {t \in InReceived : t.num >= m.throwaway}
  <1>2. PICK s \in snapshots, t \in snapshots : Takes(m, s, t) /\ m.throwaway \in Nat
    BY DEF IInv, Messages
  <1>3. /\ m.old = s.num /\ m.new = t.num /\ s.num <= t.num
        /\ m.diff = Piece(s.state, t.state) /\ m.throwaway <= s.num
    BY <1>2 DEF Takes
  <1>4. /\ received = Copies(InReceived, receiver_cut) /\ InReceived # {}
        /\ \A r \in InReceived : receiver_cut <= r.state
    BY DEF IInv, Receiver, Holds
  <1>5. s \in InReceived /\ reference = Copy(s, receiver_cut)
    <2>1. reference \in received /\ reference.num = s.num
      BY <1>1, <1>3 DEF HasNum, WithNum
    <2>2. PICK r \in InReceived : reference = Copy(r, receiver_cut)
      BY <1>4, <2>1 DEF Copies
    <2>3. r.num = s.num
      BY <2>1, <2>2 DEF Copy
    <2>4. r = s
      BY <2>2, <2>3, HeldFacts, Distinct
    <2>. QED
      BY <2>2, <2>4
  <1>6. s.state \in Nat /\ t.state \in Nat /\ s.state <= t.state /\ receiver_cut <= s.state
    BY <1>3, <1>4, <1>5, HeldFacts DEF Ordered
  <1>7. new = Copy(t, receiver_cut)
    <2>1. reference.state = Piece(receiver_cut, s.state)
      BY <1>5 DEF Copy
    <2>2. Piece(receiver_cut, s.state) \o Piece(s.state, t.state) = Piece(receiver_cut, t.state)
      BY <1>6, HeldFacts, JoinPieces
    <2>. QED
      BY <1>3, <2>1, <2>2 DEF ApplyString, Copy
  <1>8. kept = Copies(T, receiver_cut)
    <2>1. \A u : Copy(u, receiver_cut).num = u.num
      BY DEF Copy
    <2>2. \A r \in received : \E u \in InReceived : r = Copy(u, receiver_cut)
      BY <1>4 DEF Copies
    <2>3. \A u \in InReceived : Copy(u, receiver_cut) \in received
      BY <1>4 DEF Copies
    <2>4. \A r \in kept : r \in {Copy(u, receiver_cut) : u \in T}
      BY <2>1, <2>2
    <2>5. \A u \in T : Copy(u, receiver_cut) \in kept
      BY <2>1, <2>3
    <2>. QED
      BY <2>4, <2>5 DEF Copies
  <1>9. received' = Copies(T \cup {t}, receiver_cut)
    <2>1. received' = kept \cup {new}
      BY <1>1
    <2>. HIDE DEF kept, new, T
    <2>. QED
      BY <1>7, <1>8, <2>1 DEF Copies
  <1>10. Newest(InReceived) \in T
    <2>1. Newest(InReceived) \in InReceived /\ s.num <= Newest(InReceived).num
      BY <1>4, <1>5, HeldFacts, Ends
    <2>. QED
      BY <1>2, <1>3, <2>1, HeldFacts
  <1>11. receiver_cut <= t.state
    BY <1>6, HeldFacts
  <1>12. T \subseteq InReceived
    OBVIOUS
  <1>. HIDE DEF T
  <1>. QED
    BY <1>1, <1>9, <1>10, <1>11, <1>12

\* The newest snapshot held, when one is added
LEMMA NewestOf ==
    ASSUME NEW S, Ordered(S), NEW T, T \subseteq S, NEW n \in T, NEW t \in S,
           \A u \in T : u.num <= n.num
    PROVE  Newest(T \cup {t}) = IF t.num > n.num THEN t ELSE n
  <1>. DEFINE U == T \cup {t}
              x == IF t.num > n.num THEN t ELSE n
  <1>1. Ordered(U) /\ U # {} /\ x \in U
    BY DEF Ordered
  <1>2. \A u \in U : u.num \in Nat
    BY <1>1 DEF Ordered, Snapshot
  <1>3. \A u \in U : u.num <= x.num
    BY <1>2
  <1>4. Newest(U) \in U /\ \A u \in U : u.num <= Newest(U).num
    BY <1>1, Ends
  <1>5. Newest(U).num = x.num
    BY <1>1, <1>2, <1>3, <1>4
  <1>. QED
    BY <1>1, <1>4, <1>5, Distinct

LEMMA RecvKeeps == ASSUME IInv, Recv PROVE IInv'
  <1>1. PICK T \in SUBSET InReceived, t \in snapshots :
            /\ Newest(InReceived) \in T
            /\ received' = Copies(T \cup {t}, receiver_cut) /\ receiver_cut <= t.state
            /\ UNCHANGED <<current, sent, last_receiver_state, net, aborted, typed,
                           sender_cut, receiver_cut, output, snapshots>>
    BY RecvFacts
  <1>. DEFINE n == Newest(InReceived)
              U == T \cup {t}
  <1>2. InSent' = InSent /\ InReceived' = U
    BY <1>1, HeldFacts, HeldInCopies DEF InSent, InReceived
  <1>3. Newest(U) = (IF t.num > n.num THEN t ELSE n) /\ n.state <= Newest(U).state
    <2>1. \A u \in T : u.num <= n.num
      BY <1>1, HeldFacts, Ends
    <2>2. Newest(U) = IF t.num > n.num THEN t ELSE n
      BY <1>1, <2>1, HeldFacts, NewestOf
    <2>. QED
      BY <1>1, <2>2, HeldFacts DEF Ordered
  <1>4. Receiver'
    <2>1. Holds(received', U, receiver_cut)
      BY <1>1 DEF IInv, Receiver, Holds
    <2>2. Len(output) <= Newest(U).state
      <3>1. n \in snapshots /\ Newest(U) \in snapshots
        BY <1>1, <1>3, HeldFacts
      <3>2. receiver_cut <= Len(output) /\ Len(output) <= n.state
        BY DEF IInv, Receiver
      <3>3. Len(output) \in Nat
        <4>1. output = Piece(0, Len(output))
          BY DEF IInv, Receiver
        <4>2. output = [i \in 1 .. Len(output) - 0 |-> 0 + i]
          BY <4>1 DEF Piece
        <4>. QED
          BY <4>2
      <3>. QED
        BY <1>3, <3>1, <3>2, <3>3, HeldFacts
    <2>. HIDE DEF U
    <2>. QED
      BY <1>1, <1>2, <2>1, <2>2 DEF IInv, Receiver
  <1>5. Stream' /\ Sender' /\ Messages'
    BY <1>1, <1>2 DEF IInv, Stream, Sender, Messages
  <1>. QED
    BY <1>4, <1>5 DEF IInv

LEMMA GetRemoteDiffKeeps == ASSUME IInv, GetRemoteDiff PROVE IInv'
  <1>. DEFINE o == Oldest(InReceived)
              n == Newest(InReceived)
              given == Len(output)
              oldest == Oldest(received).state
  <1>1. /\ aborted' = ~GetRemoteDiffHolds
        /\ output' = output \o DiffFrom(Newest(received).state, last_receiver_state)
        /\ received' = CutOff(received, oldest)
        /\ last_receiver_state' = Newest(CutOff(received, oldest)).state
        /\ receiver_cut' = receiver_cut + Len(oldest)
        /\ UNCHANGED <<current, sent, net, acks, typed, sender_cut, snapshots>>
    BY DEF GetRemoteDiff, LastReceiverState
  <1>2. /\ Holds(received, InReceived, receiver_cut) /\ output = Piece(0, given)
        /\ receiver_cut <= given /\ given <= n.state
        /\ last_receiver_state = Piece(receiver_cut, given) /\ receiver_cut \in Nat
    BY HeldFacts DEF IInv, Receiver
  <1>3. /\ Oldest(received) = Copy(o, receiver_cut) /\ Newest(received) = Copy(n, receiver_cut)
        /\ o \in InReceived /\ n \in InReceived
        /\ \A s \in received : Subtractable(s.state, oldest)
        /\ Holds(CutOff(received, oldest), InReceived, o.state)
        /\ receiver_cut + Len(oldest) = o.state
    BY <1>2, HeldFacts, CutList
  <1>4. o.state \in Nat /\ n.state \in Nat /\ o.state <= n.state
    BY <1>3, HeldFacts, Ends
  <1>5. given \in Nat
    <2>1. output = [i \in 1 .. given - 0 |-> 0 + i]
      BY <1>2 DEF Piece
    <2>. QED
      BY <2>1
  <1>. HIDE DEF given, oldest
  <1>6. /\ Subtractable(Newest(received).state, last_receiver_state)
        /\ DiffFrom(Newest(received).state, last_receiver_state) = Piece(given, n.state)
    <2>1. Newest(received).state = Piece(receiver_cut, n.state)
      BY <1>3 DEF Copy
    <2>. HIDE DEF n
    <2>. QED
      BY <1>2, <1>4, <1>5, <2>1, CutPiece
  <1>7. GetRemoteDiffHolds
    BY <1>3, <1>6 DEF GetRemoteDiffHolds, oldest
  <1>8. output' = Piece(0, n.state) /\ Len(output') = n.state
    <2>1. 0 \in Nat /\ 0 <= given /\ 0 <= n.state
      BY <1>4, <1>5
    <2>. HIDE DEF n
    <2>2. Piece(0, given) \o Piece(given, n.state) = Piece(0, n.state)
      BY <1>2, <1>4, <1>5, <2>1, JoinPieces
    <2>3. Len(Piece(0, n.state)) = n.state - 0
      BY <1>4, <2>1, PieceFacts
    <2>. QED
      <3>1. output' = output \o Piece(given, n.state) /\ output = Piece(0, given)
        BY <1>1, <1>2, <1>6
      <3>2. output' = Piece(0, n.state)
        BY <2>2, <3>1
      <3>. QED
        BY <1>4, <2>3, <3>2
  <1>9. InReceived' = InReceived /\ InSent' = InSent
    <2>1. received' = Copies(InReceived, o.state)
      BY <1>1, <1>3 DEF Holds
    <2>2. HeldIn(received', snapshots) = InReceived
      BY <2>1, HeldFacts, HeldInCopies
    <2>. QED
      BY <1>1, <2>2 DEF InReceived, InSent
  <1>10. last_receiver_state' = Piece(o.state, n.state)
    <2>1. CutOff(received, oldest) = Copies(InReceived, o.state) /\ InReceived # {}
      BY <1>3 DEF Holds
    <2>2. Newest(CutOff(received, oldest)) = Copy(n, o.state)
      BY <2>1, HeldFacts, EndCopies
    <2>. QED
      BY <1>1, <2>2 DEF Copy
  <1>11. Receiver'
    <2>1. receiver_cut' = o.state /\ Holds(received', InReceived, o.state)
      BY <1>1, <1>3
    <2>. HIDE DEF o
    <2>. QED
      BY <1>4, <1>8, <1>9, <1>10, <2>1 DEF Receiver, n
  <1>12. Stream'
    <2>1. receiver_cut' \in Nat
      BY <1>1, <1>3, <1>4
    <2>. QED
      BY <1>1, <1>7, <2>1 DEF IInv, Stream
  <1>13. Sender' /\ Messages'
    BY <1>1, <1>9 DEF IInv, Sender, Messages
  <1>. QED
    BY <1>11, <1>12, <1>13 DEF IInv

-----------------------------------------------------------------------------
(* The theorems *)

LEMMA Start == Init => IInv
  <1>. SUFFICES ASSUME Init PROVE IInv
    OBVIOUS
  <1>. DEFINE zero == [num |-> 0, state |-> 0]
  <1>1. /\ current = <<>> /\ sent = {Blank} /\ received = {Blank} /\ last_receiver_state = <<>>
        /\ net = {} /\ aborted = FALSE /\ typed = 0 /\ sender_cut = 0 /\ receiver_cut = 0
        /\ output = <<>> /\ snapshots = {zero}
    BY DEF Init
  <1>2. 0 \in Nat /\ 0 <= 0
    OBVIOUS
  <1>3. Piece(0, 0) = <<>>
    <2>1. Piece(0, 0) \in Seq(Nat) /\ Len(Piece(0, 0)) = 0
      BY <1>2, PieceFacts
    <2>. QED
      BY <2>1
  <1>4. zero \in Snapshot /\ Ordered({zero})
    BY UserStreamAssumption DEF Snapshot, Ordered
  <1>5. Copies({zero}, 0) = {Blank}
    BY <1>3 DEF Copies, Copy, Blank
  <1>6. InSent = {zero} /\ InReceived = {zero}
    <2>1. HeldIn(Copies({zero}, 0), snapshots) = {zero}
      BY <1>1, <1>4, HeldInCopies
    <2>. QED
      BY <1>1, <1>5, <2>1 DEF InSent, InReceived
  <1>7. Newest({zero}) = zero
    BY DEF Newest
  <1>8. Holds({Blank}, {zero}, 0)
    BY <1>5 DEF Holds
  <1>9. Stream
    BY <1>1, <1>2, <1>3, <1>4, UserStreamAssumption DEF Stream
  <1>10. Sender
    BY <1>1, <1>6, <1>7, <1>8 DEF Sender
  <1>11. Receiver
    BY <1>1, <1>3, <1>6, <1>7, <1>8 DEF Receiver
  <1>12. Messages
    BY <1>1 DEF Messages
  <1>. QED
    BY <1>9, <1>10, <1>11, <1>12 DEF IInv

LEMMA Unchanged == ASSUME IInv, UNCHANGED vars PROVE IInv'
  BY DEF IInv, vars, Stream, Sender, Receiver, Messages, InSent, InReceived

LEMMA Invariant == Spec => []IInv
  <1>1. IInv /\ [Next]_vars => IInv'
    BY TypeKeeps, WaitKeeps, SendKeeps, AckKeeps, RecvKeeps, GetRemoteDiffKeeps, Unchanged
       DEF Next
  <1>. QED
    BY Start, <1>1, PTL DEF Spec

(***************************************************************************)
(* What get_remote_diff gives the server is a prefix of what was typed,    *)
(* and the assertions of subtract and diff_from never fail: each end may   *)
(* rationalize when it likes.                                              *)
(***************************************************************************)
THEOREM KeystrokesInOrder == Spec => []OutputIsTyped
  <1>1. IInv => OutputIsTyped
    <2>. SUFFICES ASSUME IInv PROVE OutputIsTyped
      OBVIOUS
    <2>. DEFINE n == Newest(InReceived)
    <2>1. /\ output = Piece(0, Len(output)) /\ Len(output) <= n.state /\ ~aborted
          /\ Holds(received, InReceived, receiver_cut)
      BY DEF IInv, Receiver, Stream
    <2>2. output = [i \in 1 .. Len(output) - 0 |-> 0 + i]
      BY <2>1 DEF Piece
    <2>3. Len(output) \in Nat /\ output = [i \in 1 .. Len(output) |-> i]
      BY <2>2
    <2>4. n.state \in Nat /\ n.state <= typed /\ typed \in Nat
      <3>1. n \in InReceived
        BY <2>1, HeldFacts, Ends DEF Holds
      <3>. QED
        BY <3>1, HeldFacts
    <2>5. Len(output) <= typed
      BY <2>1, <2>3, <2>4
    <2>. QED
      BY <2>1, <2>3, <2>5 DEF OutputIsTyped, NoAbort
  <1>. QED
    BY Invariant, <1>1, PTL

\* What the receiver looks at is the newest snapshot it holds.
View == [num |-> Newest(received).num,
         state |-> receiver_cut + Len(Newest(received).state)]

LEMMA ViewIsNewest == IInv => View = Newest(InReceived)
  <1>. SUFFICES ASSUME IInv PROVE View = Newest(InReceived)
    OBVIOUS
  <1>. DEFINE n == Newest(InReceived)
  <1>1. Holds(received, InReceived, receiver_cut) /\ receiver_cut \in Nat
    BY HeldFacts DEF IInv, Receiver
  <1>2. Newest(received) = Copy(n, receiver_cut) /\ n \in InReceived
    BY <1>1, HeldFacts, CutList
  <1>3. n \in Snapshot /\ n.state \in Nat /\ receiver_cut <= n.state
    BY <1>1, <1>2, HeldFacts DEF Holds
  <1>. HIDE DEF n
  <1>4. receiver_cut + Len(Piece(receiver_cut, n.state)) = n.state
    <2>1. Len(Piece(receiver_cut, n.state)) = n.state - receiver_cut
      BY <1>1, <1>3, PieceFacts
    <2>. QED
      BY <1>1, <1>3, <2>1
  <1>5. n = [num |-> n.num, state |-> n.state]
    BY <1>3 DEF Snapshot
  <1>. QED
    BY <1>2, <1>4, <1>5 DEF Copy, View, n

\* A step publishes a snapshot, shows a later one, or does neither.
LEMMA StepMaps ==
    ASSUME IInv, IInv', [Next]_vars
    PROVE  \/ /\ Newest(InReceived)' = Newest(InReceived)
              /\ \E s \in Snapshot : /\ \A t \in snapshots : t.num < s.num
                                     /\ snapshots' = snapshots \cup {s}
           \/ /\ snapshots' = snapshots
              /\ \E s \in snapshots : s.num > Newest(InReceived).num /\ Newest(InReceived)' = s
           \/ UNCHANGED snapshots /\ Newest(InReceived)' = Newest(InReceived)
  <1>. DEFINE n == Newest(InReceived)
  <1>1. CASE Type \/ Wait \/ ProcessAcknowledgment \/ UNCHANGED vars
    <2>1. UNCHANGED <<snapshots, received>>
      BY <1>1 DEF Type, Wait, ProcessAcknowledgment, vars
    <2>. QED
      BY <2>1 DEF InReceived
  <1>2. CASE Send
    <2>1. PICK new \in Snapshot :
              /\ new = Newest(InSent) \/ new.num = Newest(InSent).num + 1
              /\ snapshots' = snapshots \cup {new} /\ received' = received
      BY <1>2, SendFacts
    <2>2. InReceived' = InReceived
      <3>1. received = Copies(InReceived, receiver_cut) /\ InReceived \subseteq snapshots'
        BY <2>1, HeldFacts DEF IInv, Receiver, Holds
      <3>2. Ordered(snapshots')
        BY DEF IInv, Stream
      <3>3. HeldIn(received, snapshots') = InReceived
        BY <3>1, <3>2, HeldInCopies
      <3>. QED
        BY <2>1, <3>3 DEF InReceived
    <2>3. CASE new = Newest(InSent)
      <3>1. new \in snapshots
        BY <2>3, SenderCut, HeldFacts
      <3>. QED
        BY <2>1, <2>2, <3>1
    <2>4. CASE new.num = Newest(InSent).num + 1
      <3>1. \A t \in snapshots : t.num < new.num
        BY <2>4, SenderCut, HeldFacts DEF IInv, Sender
      <3>. QED
        BY <2>1, <2>2, <3>1
    <2>. QED
      BY <2>1, <2>3, <2>4
  <1>3. CASE Recv
    <2>1. PICK T \in SUBSET InReceived, t \in snapshots :
              /\ n \in T /\ received' = Copies(T \cup {t}, receiver_cut)
              /\ snapshots' = snapshots
      BY <1>3, RecvFacts
    <2>2. InReceived' = T \cup {t}
      BY <2>1, HeldFacts, HeldInCopies DEF InReceived
    <2>3. Newest(T \cup {t}) = IF t.num > n.num THEN t ELSE n
      <3>1. \A u \in T : u.num <= n.num
        BY <2>1, HeldFacts, Ends
      <3>. QED
        BY <2>1, <3>1, HeldFacts, NewestOf
    <2>. QED
      BY <2>1, <2>2, <2>3
  <1>4. CASE GetRemoteDiff
    <2>. DEFINE o == Oldest(InReceived)
    <2>1. Holds(received, InReceived, receiver_cut) /\ receiver_cut \in Nat
      BY HeldFacts DEF IInv, Receiver
    <2>2. received' = CutOff(received, Oldest(received).state) /\ snapshots' = snapshots
      BY <1>4 DEF GetRemoteDiff
    <2>3. received' = Copies(InReceived, o.state)
      <3>1. Holds(CutOff(received, Oldest(received).state), InReceived, o.state)
        BY <2>1, HeldFacts, CutList
      <3>. QED
        BY <2>2, <3>1 DEF Holds
    <2>4. InReceived' = InReceived
      BY <2>2, <2>3, HeldFacts, HeldInCopies DEF InReceived
    <2>. QED
      BY <2>2, <2>4
  <1>. QED
    BY <1>1, <1>2, <1>3, <1>4 DEF Next

(***************************************************************************)
(* The keystrokes implement StateSync: the server looks at one of the      *)
(* streams the client sent, ever later ones, although neither end keeps    *)
(* a whole stream.                                                         *)
(***************************************************************************)
THEOREM KeystrokesImplementStateSync == Spec => ImplementsStateSync
  <1>1. Init => Sync!Init
    <2>. SUFFICES ASSUME Init PROVE Sync!Init
      OBVIOUS
    <2>1. received = {Blank} /\ receiver_cut = 0 /\ snapshots = {[num |-> 0, state |-> 0]}
      BY DEF Init
    <2>2. Newest({Blank}) = Blank /\ Blank.num = 0 /\ Len(Blank.state) = 0
      BY DEF Newest, Blank
    <2>. QED
      BY <2>1, <2>2 DEF Sync!Init
  <1>2. (IInv => View = Newest(InReceived))'
    BY ViewIsNewest, PTL
  <1>3. IInv /\ IInv' /\ [Next]_vars => [Sync!Next]_(Sync!vars)
    <2>. SUFFICES ASSUME IInv, IInv', [Next]_vars PROVE [Sync!Next]_(Sync!vars)
      OBVIOUS
    <2>1. View = Newest(InReceived)
      BY ViewIsNewest
    <2>2. View' = Newest(InReceived)'
      BY <1>2
    <2>. QED
      BY <2>1, <2>2, StepMaps
         DEF View, Sync!Next, Sync!Publish, Sync!Advance, Sync!vars, Sync!Snapshot, Snapshot
  <1>. QED
    BY <1>1, <1>3, Invariant, PTL DEF Spec, ImplementsStateSync, Sync!Spec

-----------------------------------------------------------------------------
(* EchoAck *)

\* Frames are registered in the order of their numbers.
InOrder ==
    /\ \A r, s \in registered : r.num = s.num => r = s
    /\ \A r, s \in registered : r.num < s.num => r.time <= s.time
    /\ \A r \in registered : r.time <= now

HistoryKept == input_history = {r \in registered : r.num >= echo_ack}

\* Asleep, nothing is due but what was acknowledged.
NothingMissed == ~awake => \A r \in registered : Due(r) => r.num <= echo_ack

AckIInv == TypeOK /\ InOrder /\ HistoryKept /\ NothingMissed /\ AckedAreOld /\ AckedInTime

-----------------------------------------------------------------------------
LEMMA AckStart == EchoAckInit => AckIInv
  BY EchoAckAssumption
     DEF EchoAckInit, AckIInv, TypeOK, InOrder, HistoryKept, NothingMissed, AckedAreOld, AckedInTime

LEMMA RegisterKeeps ==
    ASSUME AckIInv, NEW n \in 1 .. MaxFrame, RegisterInputFrame(n) PROVE AckIInv'
  <1>. DEFINE new == Stamp(n)
  <1>. USE EchoAckAssumption DEF Stamp
  <1>1. new \in Entry /\ n > echo_ack
    <2>1. new \in Entry
      BY DEF AckIInv, TypeOK, Entry
    <2>2. echo_ack = 0 \/ \E r \in registered : r.num = echo_ack
      BY DEF AckIInv, AckedAreOld
    <2>. QED
      BY <2>1, <2>2 DEF RegisterInputFrame, AckIInv, TypeOK, Entry
  <1>2. TypeOK'
    BY <1>1 DEF AckIInv, TypeOK, RegisterInputFrame
  <1>3. InOrder'
    BY <1>1 DEF AckIInv, InOrder, TypeOK, Entry, RegisterInputFrame
  <1>4. HistoryKept'
    BY <1>1 DEF AckIInv, HistoryKept, TypeOK, Entry, RegisterInputFrame
  <1>5. NothingMissed' /\ AckedAreOld'
    BY DEF AckIInv, NothingMissed, AckedAreOld, RegisterInputFrame
  <1>6. AckedInTime'
    BY <1>1 DEF AckIInv, AckedInTime, TypeOK, Entry, RegisterInputFrame
  <1>. QED
    BY <1>2, <1>3, <1>4, <1>5, <1>6 DEF AckIInv

\* The frame last acknowledged is still there, and due: the next is no older.
LEMMA NewestIsNotOlder ==
    ASSUME AckIInv, NEW n \in 0 .. MaxFrame, IsNewestDue(n) PROVE n >= echo_ack
  <1>1. CASE echo_ack = 0
    BY <1>1
  <1>2. CASE echo_ack # 0
    <2>1. PICK r \in registered : r.num = echo_ack /\ Due(r)
      BY <1>2 DEF AckIInv, AckedAreOld, Due
    <2>2. r \in input_history
      BY <2>1 DEF AckIInv, HistoryKept, TypeOK, Entry
    <2>. QED
      BY <2>1, <2>2 DEF IsNewestDue
  <1>. QED
    BY <1>1, <1>2

LEMMA SetEchoAckKeeps == ASSUME AckIInv, SetEchoAck PROVE AckIInv'
  <1>. USE EchoAckAssumption
  <1>1. PICK n \in 0 .. MaxFrame : IsNewestDue(n) /\ echo_ack' = n /\ input_history' = Kept(n)
    BY DEF SetEchoAck
  <1>2. n >= echo_ack
    BY <1>1, NewestIsNotOlder
  <1>3. UNCHANGED <<now, registered>> /\ awake' = FALSE
    BY DEF SetEchoAck
  <1>4. TypeOK' /\ InOrder'
    BY <1>1, <1>3 DEF AckIInv, TypeOK, InOrder, Kept
  <1>5. HistoryKept'
    BY <1>1, <1>2, <1>3 DEF AckIInv, HistoryKept, Kept, TypeOK, Entry
  <1>6. NothingMissed'
    <2>. SUFFICES ASSUME NEW r \in registered, Due(r) PROVE r.num <= n
      BY <1>1, <1>3 DEF NothingMissed, Due
    <2>1. CASE r.num < echo_ack
      BY <2>1, <1>2 DEF AckIInv, TypeOK, Entry
    <2>2. CASE r.num >= echo_ack
      BY <2>2, <1>1 DEF AckIInv, HistoryKept, IsNewestDue
    <2>. QED
      BY <2>1, <2>2 DEF AckIInv, TypeOK, Entry
  <1>7. AckedAreOld'
    BY <1>1, <1>3 DEF AckIInv, AckedAreOld, IsNewestDue, HistoryKept, Due
  <1>8. AckedInTime'
    BY <1>1, <1>2, <1>3 DEF AckIInv, AckedInTime, TypeOK, Entry
  <1>. QED
    BY <1>4, <1>5, <1>6, <1>7, <1>8 DEF AckIInv

\* If an entry has one before it, the second entry exists and is no newer.
LEMMA SecondExists ==
    ASSUME AckIInv, NEW r \in input_history, NEW s \in input_history, s.num < r.num
    PROVE  \E second \in input_history : IsSecond(second) /\ second.num <= r.num
  <1>. input_history \subseteq Entry
    BY DEF AckIInv, TypeOK
  <1>. DEFINE Nums == {i.num : i \in input_history}
  <1>1. PICK a \in Nums : \A b \in Nums : a <= b
    BY LeastNum, Nums \subseteq Nat, s.num \in Nums DEF Entry
  <1>. DEFINE Later == {b \in Nums : b > a}
  <1>2. r.num \in Later
    BY <1>1 DEF Entry
  <1>3. PICK b \in Later : \A c \in Later : b <= c
    BY <1>2, LeastNum, Later \subseteq Nat DEF Entry
  <1>4. PICK first \in input_history, second \in input_history :
            first.num = a /\ second.num = b
    BY <1>1, <1>3
  <1>5. IsSecond(second)
    <2>1. ASSUME NEW j \in input_history
          PROVE  j.num \in {first.num, second.num} \/ j.num > second.num
      <3>1. j.num \in Nums /\ a \in Nat /\ b \in Nat /\ j.num \in Nat
        BY DEF Entry
      <3>2. a <= j.num
        BY <1>1, <3>1
      <3>3. CASE j.num = a
        BY <3>3, <1>4
      <3>4. CASE j.num > a
        BY <3>1, <3>4, <1>3, <1>4
      <3>. QED
        BY <3>1, <3>2, <3>3, <3>4
    <2>. QED
      BY <2>1, <1>3, <1>4 DEF IsSecond
  <1>. QED
    BY <1>2, <1>3, <1>4, <1>5

LEMMA SleepKeeps == ASSUME AckIInv, Sleep PROVE AckIInv'
  <1>. USE EchoAckAssumption
  <1>1. PICK until \in now .. MaxTime : MayWait(until) /\ now' = until
    BY DEF Sleep
  <1>2. UNCHANGED <<input_history, echo_ack, registered>> /\ awake' = TRUE
    BY DEF Sleep
  <1>3. now \in Nat /\ until \in Nat /\ until >= now /\ now' \in 0 .. MaxTime
    BY <1>1 DEF AckIInv, TypeOK
  <1>4. TypeOK' /\ InOrder'
    BY <1>1, <1>2, <1>3 DEF AckIInv, TypeOK, InOrder, Entry
  <1>5. HistoryKept' /\ NothingMissed'
    BY <1>2 DEF AckIInv, HistoryKept, NothingMissed
  <1>6. AckedAreOld'
    BY <1>1, <1>2, <1>3 DEF AckIInv, AckedAreOld, TypeOK, Entry
  <1>7. AckedInTime'
    <2>. SUFFICES ASSUME NEW r \in registered, NEW s \in registered,
                         s.num < r.num, r.num > echo_ack
                  PROVE  until <= r.time + ECHO_TIMEOUT
      BY <1>1, <1>2 DEF AckedInTime
    <2>1. now <= r.time + ECHO_TIMEOUT
      BY DEF AckIInv, AckedInTime
    <2>2. PICK q \in input_history : q.num < r.num
      \* the frame last acknowledged, or s
      <3>1. CASE echo_ack = 0
        BY <3>1 DEF AckIInv, HistoryKept, TypeOK, Entry
      <3>2. CASE echo_ack # 0
        BY <3>2 DEF AckIInv, HistoryKept, AckedAreOld, TypeOK, Entry
      <3>. QED
        BY <3>1, <3>2
    <2>3. r \in input_history
      BY DEF AckIInv, HistoryKept, TypeOK, Entry
    <2>4. PICK second \in input_history : IsSecond(second) /\ second.num <= r.num
      BY <2>2, <2>3, SecondExists
    <2>5. second \in Entry /\ r \in Entry /\ second.time <= r.time
      BY <2>4 DEF AckIInv, InOrder, HistoryKept, TypeOK, Entry
    <2>. QED
      BY <1>1, <1>3, <2>1, <2>4, <2>5 DEF MayWait, Entry
  <1>. QED
    BY <1>4, <1>5, <1>6, <1>7 DEF AckIInv

LEMMA AckNextKeeps == AckIInv /\ [EchoAckNext]_echo_ack_vars => AckIInv'
  <1>. SUFFICES ASSUME AckIInv, [EchoAckNext]_echo_ack_vars PROVE AckIInv'
    OBVIOUS
  <1>1. CASE \E n \in 1 .. MaxFrame : RegisterInputFrame(n)
    BY <1>1, RegisterKeeps
  <1>2. CASE SetEchoAck
    BY <1>2, SetEchoAckKeeps
  <1>3. CASE Sleep
    BY <1>3, SleepKeeps
  <1>4. CASE UNCHANGED echo_ack_vars
    BY <1>4 DEF echo_ack_vars, AckIInv, TypeOK, InOrder, HistoryKept, NothingMissed, AckedAreOld,
                AckedInTime, Due
  <1>. QED
    BY <1>1, <1>2, <1>3, <1>4 DEF EchoAckNext

THEOREM AckInvariance == EchoAckSpec => []AckIInv
  BY AckStart, AckNextKeeps, PTL DEF EchoAckSpec

-----------------------------------------------------------------------------
\* Every variable keeps its type: of set_echo_ack, register_input_frame and their caller.
THEOREM EchoAckTypeCorrect == EchoAckSpec => []TypeOK
  BY AckInvariance, PTL DEF AckIInv

\* A frame is acknowledged only when the host has had it for ECHO_TIMEOUT.
THEOREM NotTooEarly == EchoAckSpec => []AckedAreOld
  BY AckInvariance, PTL DEF AckIInv

\* Every frame but the first is acknowledged when it is due: wait_time is early enough.
THEOREM InTime == EchoAckSpec => []AckedInTime
  BY AckInvariance, PTL DEF AckIInv

\* The echo ack never goes back, as diff_from and apply_string assert.
THEOREM Monotone == EchoAckSpec => NeverDecreases
  <1>1. AckIInv /\ [EchoAckNext]_echo_ack_vars => [echo_ack' >= echo_ack]_echo_ack
    <2>. SUFFICES ASSUME AckIInv, [EchoAckNext]_echo_ack_vars PROVE [echo_ack' >= echo_ack]_echo_ack
      OBVIOUS
    <2>1. CASE SetEchoAck
      BY <2>1, NewestIsNotOlder DEF SetEchoAck
    <2>2. CASE ~SetEchoAck
      BY <2>2 DEF EchoAckNext, echo_ack_vars, RegisterInputFrame, Sleep
    <2>. QED
      BY <2>1, <2>2
  <1>. QED
    BY <1>1, AckInvariance, PTL DEF EchoAckSpec, NeverDecreases

-----------------------------------------------------------------------------
(* Screens: sequences *)

\* A sequence, of whatever values: put_row's cells and a frame's functions have no one type.
IsSeq(s) == s \in Seq(Range(s))

LEMMA SeqFacts ==
    ASSUME NEW s, IsSeq(s)
    PROVE  Len(s) \in Nat /\ DOMAIN s = 1 .. Len(s) /\ s = [i \in 1 .. Len(s) |-> s[i]]
  BY DEF IsSeq

LEMMA SeqIsSeq == ASSUME NEW S, NEW s \in Seq(S) PROVE IsSeq(s)
  <1>1. Len(s) \in Nat /\ DOMAIN s = 1 .. Len(s)
    OBVIOUS
  <1>2. \A i \in 1 .. Len(s) : s[i] \in Range(s)
    BY <1>1 DEF Range
  <1>. QED
    BY <1>1, <1>2 DEF IsSeq

LEMMA FilledFacts ==
    ASSUME NEW n \in Nat, NEW v
    PROVE  IsSeq(Filled(n, v)) /\ Len(Filled(n, v)) = n /\ \A i \in 1 .. n : Filled(n, v)[i] = v
  <1>. DEFINE s == [i \in 1 .. n |-> v]
  <1>1. s \in Seq({v}) /\ Len(s) = n /\ <<>> \in Seq({v})
    OBVIOUS
  <1>2. <<>> \o s = s
    BY <1>1, ConcatEmptySeq
  <1>. QED
    BY <1>1, <1>2, SeqIsSeq DEF Filled

LEMMA ConcatFacts ==
    ASSUME NEW s, NEW t, IsSeq(s), IsSeq(t)
    PROVE  /\ IsSeq(s \o t) /\ Len(s \o t) = Len(s) + Len(t)
           /\ \A i \in 1 .. Len(s) + Len(t) :
                 (s \o t)[i] = IF i <= Len(s) THEN s[i] ELSE t[i - Len(s)]
  <1>. DEFINE S == Range(s) \cup Range(t)
  <1>1. s \in Seq(S) /\ t \in Seq(S)
    BY SeqMonotonic DEF IsSeq
  <1>. HIDE DEF S
  <1>. QED
    BY <1>1, ConcatProperties, SeqIsSeq

LEMMA SubFacts ==
    ASSUME NEW s, IsSeq(s), NEW m \in 1 .. Len(s) + 1, NEW n \in m - 1 .. Len(s)
    PROVE  /\ IsSeq(SubSeq(s, m, n)) /\ Len(SubSeq(s, m, n)) = n - m + 1
           /\ \A i \in 1 .. n - m + 1 : SubSeq(s, m, n)[i] = s[m + i - 1]
  <1>1. Len(s) \in Nat /\ m \in Int /\ n \in Int
    BY SeqFacts
  <1>2. \A i \in m .. n : s[i] \in Range(s)
    BY <1>1, SeqFacts DEF IsSeq
  <1>3. /\ SubSeq(s, m, n) \in Seq(Range(s))
        /\ Len(SubSeq(s, m, n)) = IF m <= n THEN n - m + 1 ELSE 0
        /\ \A i \in 1 .. n - m + 1 : SubSeq(s, m, n)[i] = s[m + i - 1]
    <2>. DEFINE S == Range(s)
    <2>1. s \in Seq(S) /\ \A i \in m .. n : s[i] \in S
      BY <1>2 DEF IsSeq
    <2>2. \A i \in m .. n : i \in 1 .. Len(s)
      BY <1>1
    <2>. HIDE DEF S
    <2>3. SubSeq(s, m, n) \in Seq(S) /\ Len(SubSeq(s, m, n)) = IF m <= n THEN n - m + 1 ELSE 0
      BY <1>1, <2>1, <2>2, SubSeqProperties
    <2>4. \A i \in 1 .. n - m + 1 : SubSeq(s, m, n)[i] = s[m + i - 1]
      BY <1>1, <2>1, <2>2, SubSeqProperties
    <2>. QED
      BY <2>3, <2>4 DEF S
  <1>4. IsSeq(SubSeq(s, m, n))
    BY <1>3, SeqIsSeq
  <1>5. (IF m <= n THEN n - m + 1 ELSE 0) = n - m + 1
    BY <1>1
  <1>. QED
    BY <1>3, <1>4, <1>5

LEMMA MinOfTwo ==
    ASSUME NEW a \in Int, NEW b \in Int PROVE Min({a, b}) = IF a <= b THEN a ELSE b
  BY DEF Min

LEMMA MaxOfTwo ==
    ASSUME NEW a \in Int, NEW b \in Int PROVE Max({a, b}) = IF a >= b THEN a ELSE b
  BY DEF Max

-----------------------------------------------------------------------------
(* Shape *)

Fields ==
    {"width", "height", "cursor_col", "cursor_row", "default_tabs", "tabs", "top", "bottom",
     "renditions", "save", "next_print_will_wrap", "mouse", "modes", "rows", "icon_name",
     "window_title", "clipboard", "bell_count", "title_initialized"}
ModeNames ==
    {"origin_mode", "auto_wrap_mode", "insert_mode", "cursor_visible", "reverse_video",
     "bracketed_paste", "mouse_focus_event", "mouse_alternate_scroll",
     "application_mode_cursor_keys"}

Grid(rows, width, height) ==
    /\ IsSeq(rows) /\ Len(rows) = height
    /\ \A y \in 1 .. height : IsSeq(rows[y]) /\ Len(rows[y]) = width

\* The modes are all there.
AllModes(modes) == modes = [k \in ModeNames |-> modes[k]]

MouseModes == [reporting : {0, 9, 1000, 1001, 1002, 1003}, encoding : {0, 1005, 1006, 1015}]

\* All of a screen but its contents, wherever the cursor is.
Loose(fb) ==
    /\ fb = [k \in Fields |-> fb[k]] /\ fb.modes = [k \in ModeNames |-> fb.modes[k]]
    /\ fb.width \in Nat \ {0} /\ fb.height \in Nat \ {0}
    /\ fb.cursor_col \in Int /\ fb.cursor_row \in Int
    /\ fb.top \in 0 .. fb.bottom /\ fb.bottom \in 0 .. fb.height - 1
    /\ fb.tabs \subseteq 0 .. fb.width - 1
    /\ fb.save.cursor_col \in Int /\ fb.save.cursor_row \in Int
    /\ fb.mouse \in MouseModes

Within(fb) == fb.cursor_col \in 0 .. fb.width - 1 /\ fb.cursor_row \in 0 .. fb.height - 1

Shape(fb) == Loose(fb) /\ Within(fb) /\ Grid(fb.rows, fb.width, fb.height)

SameSizes(fb, q) == q.width = fb.width /\ q.height = fb.height
Keeps(fb, q) == Shape(q) /\ SameSizes(fb, q)

\* q is fb but for the fields K.
Touches(fb, q, K) == q = [k \in Fields |-> q[k]] /\ \A k \in Fields \ K : q[k] = fb[k]

Position == {"cursor_row", "cursor_col"}
CursorFields == {"cursor_row", "cursor_col", "next_print_will_wrap"}
Painting == {"cursor_row", "cursor_col", "next_print_will_wrap", "rows"}

LEMMA FieldNames ==
    /\ {"width", "height", "cursor_col", "cursor_row", "default_tabs", "tabs"} \subseteq Fields
    /\ {"top", "bottom", "renditions", "save", "next_print_will_wrap", "mouse"} \subseteq Fields
    /\ {"modes", "rows", "icon_name", "window_title", "clipboard", "bell_count"} \subseteq Fields
    /\ "title_initialized" \in Fields
  BY DEF Fields

LEMMA TouchesMore ==
    ASSUME NEW fb, NEW q, NEW K, NEW L, Touches(fb, q, K), K \subseteq L
    PROVE  Touches(fb, q, L)
  BY DEF Touches

LEMMA TouchesBoth ==
    ASSUME NEW fb, NEW g, NEW q, NEW K, NEW L, NEW M, Touches(fb, g, K), Touches(g, q, L),
           K \subseteq M, L \subseteq M
    PROVE  Touches(fb, q, M)
  BY DEF Touches

\* A field that is not touched.
LEMMA Untouched ==
    ASSUME NEW fb, NEW q, NEW K, Touches(fb, q, K), NEW k \in Fields, k \notin K
    PROVE  q[k] = fb[k]
  BY DEF Touches

LEMMA LooseMoved ==
    ASSUME NEW fb, Loose(fb), NEW q, Touches(fb, q, CursorFields),
           q.cursor_row \in Int, q.cursor_col \in Int
    PROVE  Loose(q)
  BY FieldNames DEF Loose, Touches, CursorFields

LEMMA ShapeMoved ==
    ASSUME NEW fb, Shape(fb), NEW q, Touches(fb, q, CursorFields), Within(q)
    PROVE  Keeps(fb, q)
  <1>1. /\ q.width = fb.width /\ q.height = fb.height /\ q.rows = fb.rows
        /\ fb.width \in Nat /\ fb.height \in Nat
    BY FieldNames DEF Shape, Loose, Touches, CursorFields
  <1>2. q.cursor_row \in Int /\ q.cursor_col \in Int
    BY <1>1 DEF Within
  <1>3. Loose(q)
    BY <1>2, LooseMoved DEF Shape
  <1>. QED
    BY <1>1, <1>3 DEF Shape, Keeps, SameSizes

LEMMA ShapePainted ==
    ASSUME NEW fb, Shape(fb), NEW q, Touches(fb, q, {"rows"}),
           Grid(q.rows, fb.width, fb.height)
    PROVE  Keeps(fb, q)
  <1>1. /\ q.width = fb.width /\ q.height = fb.height
        /\ q.cursor_row = fb.cursor_row /\ q.cursor_col = fb.cursor_col
    BY FieldNames DEF Touches
  <1>2. Loose(q)
    BY FieldNames DEF Shape, Loose, Touches
  <1>. QED
    BY <1>1, <1>2 DEF Shape, Keeps, SameSizes, Within

LEMMA KeepsBoth ==
    ASSUME NEW fb, NEW g, NEW q, Keeps(fb, g), Keeps(g, q) PROVE Keeps(fb, q)
  BY DEF Keeps, SameSizes

LEMMA ClampFacts ==
    ASSUME NEW n \in Int, NEW low \in Int, NEW high \in Int, low <= high
    PROVE  /\ Clamp(n, low, high) \in low .. high
           /\ n \in low .. high => Clamp(n, low, high) = n
  BY DEF Clamp

LEMMA Limits ==
    ASSUME NEW fb, Loose(fb)
    PROVE  /\ LimitTop(fb) \in Nat /\ LimitBottom(fb) \in Nat /\ LimitTop(fb) <= LimitBottom(fb)
           /\ LimitBottom(fb) <= fb.height - 1
           /\ ~fb.modes.origin_mode => LimitTop(fb) = 0 /\ LimitBottom(fb) = fb.height - 1
  BY DEF LimitTop, LimitBottom, Loose

\* snap_cursor_to_border puts the cursor inside the screen, wherever it was.
LEMMA SnapFacts ==
    ASSUME NEW fb, Loose(fb), NEW q, q = SnapCursor(fb)
    PROVE  /\ Loose(q) /\ Within(q) /\ Touches(fb, q, Position)
           /\ q.cursor_row = Clamp(fb.cursor_row, LimitTop(fb), LimitBottom(fb))
           /\ q.cursor_col = Clamp(fb.cursor_col, 0, fb.width - 1)
  <1>1. /\ Touches(fb, q, Position)
        /\ q.cursor_row = Clamp(fb.cursor_row, LimitTop(fb), LimitBottom(fb))
        /\ q.cursor_col = Clamp(fb.cursor_col, 0, fb.width - 1)
    <2>1. fb = [k \in Fields |-> fb[k]]
      BY DEF Loose
    <2>2. "cursor_row" \in Fields /\ "cursor_col" \in Fields
      BY FieldNames
    <2>3. q = [fb EXCEPT !.cursor_row = Clamp(@, LimitTop(fb), LimitBottom(fb)),
                         !.cursor_col = Clamp(@, 0, fb.width - 1)]
      BY DEF SnapCursor
    <2>. QED
      BY <2>1, <2>2, <2>3 DEF Touches, Position
  <1>2. /\ fb.cursor_row \in Int /\ fb.cursor_col \in Int /\ fb.width \in Nat \ {0}
        /\ fb.height \in Nat \ {0}
    BY DEF Loose
  <1>3. /\ q.cursor_row \in LimitTop(fb) .. LimitBottom(fb) /\ q.cursor_col \in 0 .. fb.width - 1
        /\ q.cursor_row \in 0 .. fb.height - 1
    <2>1. q.cursor_row \in LimitTop(fb) .. LimitBottom(fb)
      BY <1>1, <1>2, Limits DEF Clamp
    <2>2. q.cursor_col \in 0 .. fb.width - 1
      BY <1>1, <1>2 DEF Clamp
    <2>. QED
      BY <1>2, <2>1, <2>2, Limits
  <1>4. q.width = fb.width /\ q.height = fb.height
    BY <1>1, FieldNames DEF Touches, Position
  <1>5. Touches(fb, q, CursorFields)
    BY <1>1, TouchesMore DEF Position, CursorFields
  <1>6. Loose(q)
    BY <1>3, <1>5, LooseMoved, <1>2
  <1>. QED
    BY <1>1, <1>3, <1>4, <1>6 DEF Within

\* The four ways of moving: to g, and back onto the screen.
LEMMA Moved ==
    ASSUME NEW fb, Shape(fb), NEW g, Touches(fb, g, Position),
           g.cursor_row \in Int, g.cursor_col \in Int, NEW q, q = Unwrapped(SnapCursor(g))
    PROVE  /\ Keeps(fb, q) /\ Touches(fb, q, CursorFields) /\ q.next_print_will_wrap = FALSE
           /\ q.cursor_row = Clamp(g.cursor_row, LimitTop(fb), LimitBottom(fb))
           /\ q.cursor_col = Clamp(g.cursor_col, 0, fb.width - 1)
  <1>. DEFINE r == SnapCursor(g)
  <1>1. Touches(fb, g, CursorFields)
    BY TouchesMore DEF Position, CursorFields
  <1>2. Loose(g)
    BY <1>1, LooseMoved DEF Shape
  <1>3. /\ Loose(r) /\ Within(r) /\ Touches(g, r, Position)
        /\ r.cursor_row = Clamp(g.cursor_row, LimitTop(g), LimitBottom(g))
        /\ r.cursor_col = Clamp(g.cursor_col, 0, g.width - 1)
    BY <1>2, SnapFacts
  <1>. HIDE DEF r
  <1>4. /\ g.width = fb.width /\ g.height = fb.height /\ g.modes = fb.modes /\ g.top = fb.top
        /\ g.bottom = fb.bottom
    BY FieldNames DEF Touches, Position
  <1>5. LimitTop(g) = LimitTop(fb) /\ LimitBottom(g) = LimitBottom(fb)
    BY <1>4 DEF LimitTop, LimitBottom
  <1>6. /\ Touches(r, q, {"next_print_will_wrap"}) /\ q.next_print_will_wrap = FALSE
        /\ q.cursor_row = r.cursor_row /\ q.cursor_col = r.cursor_col
    <2>1. r = [k \in Fields |-> r[k]]
      BY <1>3 DEF Touches
    <2>2. q = [r EXCEPT !.next_print_will_wrap = FALSE]
      BY DEF Unwrapped, r
    <2>. QED
      BY <2>1, <2>2, FieldNames DEF Touches
  <1>7. Touches(fb, q, CursorFields)
    BY <1>1, <1>3, <1>6, TouchesBoth DEF Touches, CursorFields, Position
  <1>8. q.width = r.width /\ q.height = r.height
    BY <1>6, FieldNames DEF Touches
  <1>9. Within(q)
    BY <1>3, <1>6, <1>8 DEF Within
  <1>. QED
    BY <1>3, <1>4, <1>5, <1>6, <1>7, <1>9, ShapeMoved

LEMMA CursorTypes ==
    ASSUME NEW fb, Shape(fb)
    PROVE  /\ fb = [k \in Fields |-> fb[k]] /\ fb.cursor_row \in Nat /\ fb.cursor_col \in Nat
           /\ fb.width \in Nat \ {0} /\ fb.height \in Nat \ {0}
           /\ fb.cursor_row < fb.height /\ fb.cursor_col < fb.width
           /\ LimitTop(fb) \in Nat /\ LimitBottom(fb) \in Nat
           /\ fb.top \in Nat /\ fb.bottom \in Nat /\ fb.top <= fb.bottom /\ fb.bottom < fb.height
  <1>1. fb = [k \in Fields |-> fb[k]] /\ fb.width \in Nat \ {0} /\ fb.height \in Nat \ {0}
    BY DEF Shape, Loose
  <1>2. fb.cursor_row \in 0 .. fb.height - 1 /\ fb.cursor_col \in 0 .. fb.width - 1
    BY DEF Shape, Within
  <1>3. fb.top \in 0 .. fb.bottom /\ fb.bottom \in 0 .. fb.height - 1
    BY DEF Shape, Loose
  <1>. QED
    BY <1>1, <1>2, <1>3, Limits DEF Shape

\* DrawState::move_row, and its kind: the cursor stays inside, and no wrap is pending.
LEMMA MoveRow ==
    ASSUME NEW fb, Shape(fb), NEW n \in Int, NEW q, q = move_row(fb, n)
    PROVE  /\ Keeps(fb, q) /\ Touches(fb, q, CursorFields) /\ q.next_print_will_wrap = FALSE
           /\ q.cursor_row = Clamp(n + LimitTop(fb), LimitTop(fb), LimitBottom(fb))
           /\ q.cursor_col = fb.cursor_col
  <1>. DEFINE g == [fb EXCEPT !.cursor_row = n + LimitTop(fb)]
  <1>1. /\ Touches(fb, g, Position) /\ g.cursor_row = n + LimitTop(fb)
        /\ g.cursor_col = fb.cursor_col /\ g.cursor_row \in Int /\ g.cursor_col \in Int
    BY CursorTypes, FieldNames DEF Touches, Position
  <1>2. q = Unwrapped(SnapCursor(g))
    BY DEF move_row
  <1>. HIDE DEF g
  <1>3. /\ Keeps(fb, q) /\ Touches(fb, q, CursorFields) /\ q.next_print_will_wrap = FALSE
        /\ q.cursor_row = Clamp(g.cursor_row, LimitTop(fb), LimitBottom(fb))
        /\ q.cursor_col = Clamp(g.cursor_col, 0, fb.width - 1)
    BY <1>1, <1>2, Moved
  <1>. QED
    BY <1>1, <1>3, CursorTypes DEF Clamp

LEMMA MoveRowBy ==
    ASSUME NEW fb, Shape(fb), NEW n \in Int, NEW q, q = move_row_by(fb, n)
    PROVE  /\ Keeps(fb, q) /\ Touches(fb, q, CursorFields) /\ q.next_print_will_wrap = FALSE
           /\ q.cursor_row = Clamp(fb.cursor_row + n, LimitTop(fb), LimitBottom(fb))
           /\ q.cursor_col = fb.cursor_col
  <1>. DEFINE g == [fb EXCEPT !.cursor_row = @ + n]
  <1>1. /\ Touches(fb, g, Position) /\ g.cursor_row = fb.cursor_row + n
        /\ g.cursor_col = fb.cursor_col /\ g.cursor_row \in Int /\ g.cursor_col \in Int
    BY CursorTypes, FieldNames DEF Touches, Position
  <1>2. q = Unwrapped(SnapCursor(g))
    BY DEF move_row_by
  <1>. HIDE DEF g
  <1>3. /\ Keeps(fb, q) /\ Touches(fb, q, CursorFields) /\ q.next_print_will_wrap = FALSE
        /\ q.cursor_row = Clamp(g.cursor_row, LimitTop(fb), LimitBottom(fb))
        /\ q.cursor_col = Clamp(g.cursor_col, 0, fb.width - 1)
    BY <1>1, <1>2, Moved
  <1>. QED
    BY <1>1, <1>3, CursorTypes DEF Clamp

\* A move along the row leaves the row, unless the cursor was above or below the margins.
LEMMA MoveCol ==
    ASSUME NEW fb, Shape(fb), NEW n \in Int, NEW q, q = move_col(fb, n)
    PROVE  /\ Keeps(fb, q) /\ Touches(fb, q, CursorFields) /\ q.next_print_will_wrap = FALSE
           /\ q.cursor_row = Clamp(fb.cursor_row, LimitTop(fb), LimitBottom(fb))
           /\ q.cursor_col = Clamp(n, 0, fb.width - 1)
  <1>. DEFINE g == [fb EXCEPT !.cursor_col = n]
  <1>1. /\ Touches(fb, g, Position) /\ g.cursor_row = fb.cursor_row
        /\ g.cursor_col = n /\ g.cursor_row \in Int /\ g.cursor_col \in Int
    BY CursorTypes, FieldNames DEF Touches, Position
  <1>2. q = Unwrapped(SnapCursor(g))
    BY DEF move_col
  <1>. HIDE DEF g
  <1>. QED
    BY <1>1, <1>2, Moved

LEMMA MoveColBy ==
    ASSUME NEW fb, Shape(fb), NEW n \in Int, NEW q, q = move_col_by(fb, n)
    PROVE  /\ Keeps(fb, q) /\ Touches(fb, q, CursorFields) /\ q.next_print_will_wrap = FALSE
           /\ q.cursor_row = Clamp(fb.cursor_row, LimitTop(fb), LimitBottom(fb))
           /\ q.cursor_col = Clamp(fb.cursor_col + n, 0, fb.width - 1)
  <1>. DEFINE g == [fb EXCEPT !.cursor_col = @ + n]
  <1>1. /\ Touches(fb, g, Position) /\ g.cursor_row = fb.cursor_row
        /\ g.cursor_col = fb.cursor_col + n /\ g.cursor_row \in Int /\ g.cursor_col \in Int
    BY CursorTypes, FieldNames DEF Touches, Position
  <1>2. q = Unwrapped(SnapCursor(g))
    BY DEF move_col_by
  <1>. HIDE DEF g
  <1>. QED
    BY <1>1, <1>2, Moved

\* The cursor after a character: a wrap is pending when it would leave the line.
LEMMA AdvanceCol ==
    ASSUME NEW fb, Shape(fb), NEW n \in Int, NEW q, q = advance_col(fb, n)
    PROVE  /\ Keeps(fb, q) /\ Touches(fb, q, CursorFields)
           /\ q.next_print_will_wrap = (fb.cursor_col + n >= fb.width)
           /\ q.cursor_row = Clamp(fb.cursor_row, LimitTop(fb), LimitBottom(fb))
           /\ q.cursor_col = Clamp(fb.cursor_col + n, 0, fb.width - 1)
  <1>. DEFINE w == fb.cursor_col + n >= fb.width
              g == [fb EXCEPT !.cursor_col = @ + n, !.next_print_will_wrap = w]
  <1>. HIDE DEF w
  <1>1. /\ Touches(fb, g, CursorFields) /\ g.cursor_row = fb.cursor_row
        /\ g.cursor_col = fb.cursor_col + n /\ g.cursor_row \in Int /\ g.cursor_col \in Int
        /\ g.next_print_will_wrap = w
    <2>1. fb = [k \in Fields |-> fb[k]] /\ fb.cursor_row \in Int /\ fb.cursor_col \in Int
      BY CursorTypes
    <2>2. g = [k \in Fields |-> g[k]] /\ \A k \in Fields \ CursorFields : g[k] = fb[k]
      BY <2>1 DEF CursorFields
    <2>3. g.cursor_row = fb.cursor_row /\ g.cursor_col = fb.cursor_col + n
      BY <2>1, FieldNames
    <2>4. g.next_print_will_wrap = w
      BY <2>1, FieldNames
    <2>. HIDE DEF g
    <2>. QED
      BY <2>1, <2>2, <2>3, <2>4 DEF Touches
  <1>2. q = SnapCursor(g)
    BY DEF advance_col, w
  <1>. HIDE DEF g
  <1>3. Loose(g)
    BY <1>1, LooseMoved DEF Shape
  <1>4. /\ Within(q) /\ Touches(g, q, Position)
        /\ q.cursor_row = Clamp(g.cursor_row, LimitTop(g), LimitBottom(g))
        /\ q.cursor_col = Clamp(g.cursor_col, 0, g.width - 1)
    BY <1>2, <1>3, SnapFacts
  <1>5. /\ g.width = fb.width /\ g.height = fb.height /\ g.modes = fb.modes /\ g.top = fb.top
        /\ g.bottom = fb.bottom
    BY <1>1, FieldNames DEF Touches, CursorFields
  <1>6. LimitTop(g) = LimitTop(fb) /\ LimitBottom(g) = LimitBottom(fb)
    BY <1>5 DEF LimitTop, LimitBottom
  <1>7. Touches(fb, q, CursorFields)
    BY <1>1, <1>4, TouchesBoth DEF CursorFields, Position
  <1>8. q.next_print_will_wrap = g.next_print_will_wrap
    BY <1>4, FieldNames DEF Touches, Position
  <1>9. Keeps(fb, q)
    BY <1>4, <1>7, ShapeMoved
  <1>. QED
    BY <1>1, <1>4, <1>5, <1>6, <1>7, <1>8, <1>9 DEF w

-----------------------------------------------------------------------------
(* Rows *)

LEMMA FunIsSeq ==
    ASSUME NEW n \in Nat, NEW s, s = [i \in 1 .. n |-> s[i]]
    PROVE  IsSeq(s) /\ Len(s) = n
  <1>1. s \in Seq({s[i] : i \in 1 .. n}) /\ Len(s) = n
    OBVIOUS
  <1>. QED
    BY <1>1, SeqIsSeq

\* Rows of a width.
Lines(s, width) == IsSeq(s) /\ \A i \in 1 .. Len(s) : IsSeq(s[i]) /\ Len(s[i]) = width

LEMMA GridIsLines ==
    ASSUME NEW s, NEW width, NEW height
    PROVE  Grid(s, width, height) <=> Lines(s, width) /\ Len(s) = height
  BY DEF Grid, Lines

LEMMA RowFacts ==
    ASSUME NEW width \in Nat, NEW background
    PROVE  IsSeq(Row(width, background)) /\ Len(Row(width, background)) = width
  BY FilledFacts DEF Row

LEMMA BlankLines ==
    ASSUME NEW n \in Nat, NEW width \in Nat, NEW background
    PROVE  Lines(Filled(n, Row(width, background)), width)
           /\ Len(Filled(n, Row(width, background))) = n
  <1>. DEFINE row == Row(width, background)
  <1>1. IsSeq(row) /\ Len(row) = width
    BY RowFacts
  <1>. HIDE DEF row
  <1>2. IsSeq(Filled(n, row)) /\ Len(Filled(n, row)) = n /\ \A i \in 1 .. n : Filled(n, row)[i] = row
    BY FilledFacts
  <1>. QED
    BY <1>1, <1>2 DEF Lines, row

LEMMA ConcatLines ==
    ASSUME NEW s, NEW t, NEW width, Lines(s, width), Lines(t, width)
    PROVE  Lines(s \o t, width) /\ Len(s \o t) = Len(s) + Len(t)
  <1>1. /\ IsSeq(s \o t) /\ Len(s \o t) = Len(s) + Len(t)
        /\ \A i \in 1 .. Len(s) + Len(t) :
              (s \o t)[i] = IF i <= Len(s) THEN s[i] ELSE t[i - Len(s)]
    BY ConcatFacts DEF Lines
  <1>2. Len(s) \in Nat /\ Len(t) \in Nat
    BY SeqFacts DEF Lines
  <1>3. ASSUME NEW i \in 1 .. Len(s) + Len(t)
        PROVE  IsSeq((s \o t)[i]) /\ Len((s \o t)[i]) = width
    <2>1. CASE i <= Len(s)
      BY <1>1, <1>2, <2>1 DEF Lines
    <2>2. CASE i > Len(s)
      <3>1. i - Len(s) \in 1 .. Len(t) /\ (s \o t)[i] = t[i - Len(s)]
        BY <1>1, <1>2, <2>2
      <3>. QED
        BY <3>1 DEF Lines
    <2>. QED
      BY <1>2, <2>1, <2>2
  <1>. QED
    BY <1>1, <1>3 DEF Lines

LEMMA SubLines ==
    ASSUME NEW s, NEW width, Lines(s, width), NEW m \in 1 .. Len(s) + 1, NEW n \in m - 1 .. Len(s)
    PROVE  Lines(SubSeq(s, m, n), width) /\ Len(SubSeq(s, m, n)) = n - m + 1
  <1>1. /\ IsSeq(SubSeq(s, m, n)) /\ Len(SubSeq(s, m, n)) = n - m + 1
        /\ \A i \in 1 .. n - m + 1 : SubSeq(s, m, n)[i] = s[m + i - 1]
    BY SubFacts DEF Lines
  <1>2. Len(s) \in Nat
    BY SeqFacts DEF Lines
  <1>3. \A i \in 1 .. n - m + 1 : m + i - 1 \in 1 .. Len(s)
    BY <1>2
  <1>. QED
    BY <1>1, <1>3 DEF Lines

LEMMA NewRowFacts == ASSUME NEW fb, Shape(fb) PROVE IsSeq(NewRow(fb)) /\ Len(NewRow(fb)) = fb.width
  BY RowFacts, CursorTypes DEF NewRow

LEMMA RowsAre ==
    ASSUME NEW fb, Shape(fb)
    PROVE  /\ fb.rows = [i \in 1 .. fb.height |-> fb.rows[i]] /\ Len(fb.rows) = fb.height
           /\ DOMAIN fb.rows = 1 .. fb.height
           /\ Lines(fb.rows, fb.width)
           /\ \A y \in 0 .. fb.height - 1 : IsSeq(RowAt(fb, y)) /\ Len(RowAt(fb, y)) = fb.width
  <1>1. Grid(fb.rows, fb.width, fb.height) /\ fb.height \in Nat
    BY CursorTypes DEF Shape
  <1>2. \A y \in 0 .. fb.height - 1 : y + 1 \in 1 .. fb.height
    BY <1>1
  <1>3. IsSeq(fb.rows) /\ Len(fb.rows) = fb.height
    BY <1>1 DEF Grid
  <1>4. fb.rows = [i \in 1 .. fb.height |-> fb.rows[i]] /\ DOMAIN fb.rows = 1 .. fb.height
    BY <1>3, SeqFacts
  <1>. QED
    BY <1>1, <1>2, <1>3, <1>4, GridIsLines DEF Grid, RowAt

\* Whatever is done to the rows that leaves them as many and as wide.
LEMMA Painted ==
    ASSUME NEW fb, Shape(fb), NEW lines, Lines(lines, fb.width), Len(lines) = fb.height,
           NEW q, q = [fb EXCEPT !.rows = lines]
    PROVE  Keeps(fb, q) /\ Touches(fb, q, {"rows"})
  <1>1. fb = [k \in Fields |-> fb[k]] /\ "rows" \in Fields
    BY CursorTypes, FieldNames
  <1>2. Touches(fb, q, {"rows"}) /\ q.rows = lines
    BY <1>1 DEF Touches
  <1>. QED
    BY <1>2, ShapePainted, GridIsLines

\* A row replaced by one as wide.
LEMMA PaintedRow ==
    ASSUME NEW fb, Shape(fb), NEW y \in 0 .. fb.height - 1, NEW cells, IsSeq(cells),
           Len(cells) = fb.width, NEW q, q = WithRow(fb, y, cells)
    PROVE  Keeps(fb, q) /\ Touches(fb, q, {"rows"})
  <1>. DEFINE lines == [fb.rows EXCEPT ![y + 1] = cells]
  <1>1. /\ fb.rows = [i \in 1 .. fb.height |-> fb.rows[i]] /\ fb.height \in Nat
        /\ Lines(fb.rows, fb.width) /\ Len(fb.rows) = fb.height
    BY RowsAre, CursorTypes
  <1>2. lines = [i \in 1 .. fb.height |-> lines[i]]
    BY <1>1
  <1>3. \A i \in 1 .. fb.height : lines[i] = IF i = y + 1 THEN cells ELSE fb.rows[i]
    BY <1>1
  <1>4. q = [fb EXCEPT !.rows = lines]
    BY DEF WithRow
  <1>. HIDE DEF lines
  <1>5. IsSeq(lines) /\ Len(lines) = fb.height
    BY <1>1, <1>2, FunIsSeq
  <1>6. Lines(lines, fb.width)
    BY <1>1, <1>3, <1>5 DEF Lines
  <1>. QED
    BY <1>4, <1>5, <1>6, Painted

\* The same, of one cell.
LEMMA PaintedCell ==
    ASSUME NEW fb, Shape(fb), NEW y \in 0 .. fb.height - 1, NEW x, NEW cell,
           NEW q, q = [fb EXCEPT !.rows[y + 1][x] = cell]
    PROVE  Keeps(fb, q) /\ Touches(fb, q, {"rows"})
  <1>. DEFINE cells == [RowAt(fb, y) EXCEPT ![x] = cell]
  <1>1. /\ IsSeq(RowAt(fb, y)) /\ Len(RowAt(fb, y)) = fb.width /\ fb.width \in Nat
    BY RowsAre, CursorTypes
  <1>2. RowAt(fb, y) = [i \in 1 .. fb.width |-> RowAt(fb, y)[i]]
    BY <1>1, SeqFacts
  <1>3. cells = [i \in 1 .. fb.width |-> cells[i]]
    BY <1>2
  <1>4. q = WithRow(fb, y, cells)
    BY DEF WithRow, RowAt
  <1>. HIDE DEF cells
  <1>5. IsSeq(cells) /\ Len(cells) = fb.width
    BY <1>1, <1>3, FunIsSeq
  <1>. QED
    BY <1>4, <1>5, PaintedRow

LEMMA ResetRowFacts ==
    ASSUME NEW fb, Shape(fb), NEW y \in 0 .. fb.height - 1, NEW q, q = ResetRow(fb, y)
    PROVE  Keeps(fb, q) /\ Touches(fb, q, {"rows"})
  BY NewRowFacts, PaintedRow DEF ResetRow

LEMMA ResetRowsFacts ==
    ASSUME NEW fb, Shape(fb), NEW Y, NEW q, q = ResetRows(fb, Y)
    PROVE  Keeps(fb, q) /\ Touches(fb, q, {"rows"})
  <1>. DEFINE lines == [i \in 1 .. fb.height |-> IF i - 1 \in Y THEN NewRow(fb) ELSE fb.rows[i]]
  <1>1. /\ DOMAIN fb.rows = 1 .. fb.height /\ fb.height \in Nat
        /\ Lines(fb.rows, fb.width) /\ Len(fb.rows) = fb.height
        /\ IsSeq(NewRow(fb)) /\ Len(NewRow(fb)) = fb.width
    BY RowsAre, CursorTypes, NewRowFacts
  <1>2. q = [fb EXCEPT !.rows = lines]
    BY <1>1 DEF ResetRows
  <1>3. /\ lines = [i \in 1 .. fb.height |-> lines[i]]
        /\ \A i \in 1 .. fb.height : lines[i] \in {NewRow(fb), fb.rows[i]}
    OBVIOUS
  <1>. HIDE DEF lines
  <1>4. IsSeq(lines) /\ Len(lines) = fb.height
    BY <1>1, <1>3, FunIsSeq
  <1>5. Lines(lines, fb.width)
    BY <1>1, <1>3, <1>4 DEF Lines
  <1>. QED
    BY <1>2, <1>4, <1>5, Painted

LEMMA ResetCellsFacts ==
    ASSUME NEW fb, Shape(fb), NEW y \in 0 .. fb.height - 1, NEW X, NEW q, q = ResetCells(fb, y, X)
    PROVE  Keeps(fb, q) /\ Touches(fb, q, {"rows"})
  <1>. DEFINE cells == [i \in 1 .. fb.width |->
                          IF i - 1 \in X THEN Cell(fb.renditions.bg) ELSE RowAt(fb, y)[i]]
  <1>1. cells = [i \in 1 .. fb.width |-> cells[i]] /\ fb.width \in Nat
    BY CursorTypes
  <1>2. q = WithRow(fb, y, cells)
    BY DEF ResetCells
  <1>. HIDE DEF cells
  <1>3. IsSeq(cells) /\ Len(cells) = fb.width
    BY <1>1, FunIsSeq
  <1>. QED
    BY <1>2, <1>3, PaintedRow

LEMMA Itself ==
    ASSUME NEW fb, Shape(fb), NEW K PROVE Keeps(fb, fb) /\ Touches(fb, fb, K)
  BY CursorTypes DEF Keeps, SameSizes, Touches

\* Four pieces that make up the screen again.
LEMMA FourPieces ==
    ASSUME NEW fb, Shape(fb), NEW a, NEW b, NEW c, NEW d,
           Lines(a, fb.width), Lines(b, fb.width), Lines(c, fb.width), Lines(d, fb.width),
           Len(a) + Len(b) + Len(c) + Len(d) = fb.height,
           NEW q, q = [fb EXCEPT !.rows = a \o b \o c \o d]
    PROVE  Keeps(fb, q) /\ Touches(fb, q, {"rows"})
  <1>1. Lines(a \o b, fb.width) /\ Len(a \o b) = Len(a) + Len(b)
    BY ConcatLines
  <1>2. Lines(a \o b \o c, fb.width) /\ Len(a \o b \o c) = Len(a \o b) + Len(c)
    BY <1>1, ConcatLines
  <1>3. Lines(a \o b \o c \o d, fb.width) /\ Len(a \o b \o c \o d) = Len(a \o b \o c) + Len(d)
    BY <1>2, ConcatLines
  <1>4. Len(a \o b \o c \o d) = fb.height
    BY <1>1, <1>2, <1>3
  <1>. QED
    BY <1>3, <1>4, Painted

\* Where insert_line and delete_line cut the screen.
Cuts(h, b, r, n) ==
    /\ b + 2 \in 1 .. h + 1 /\ h \in (b + 2) - 1 .. h
    /\ h - (b + 2) + 1 = h - b - 1
    /\ r + 1 \in 1 .. h + 1 /\ b + 1 - n \in (r + 1) - 1 .. h
    /\ (b + 1 - n) - (r + 1) + 1 = b + 1 - n - r
    /\ r + n + 1 \in 1 .. h + 1 /\ b + 1 \in (r + n + 1) - 1 .. h
    /\ (b + 1) - (r + n + 1) + 1 = b + 1 - n - r
    /\ r + n + (b + 1 - n - r) + (h - b - 1) = h
    /\ r + (b + 1 - n - r) + n + (h - b - 1) = h

LEMMA CutPoints ==
    ASSUME NEW h \in Nat, NEW b \in Nat, b < h, NEW r \in Nat, NEW n \in Nat, n <= b + 1 - r
    PROVE  Cuts(h, b, r, n)
  BY DEF Cuts

\* Framebuffer::insert_line and delete_line move rows between the margins: as many as before.
LEMMA InsertLine ==
    ASSUME NEW fb, Shape(fb), NEW before \in Int, NEW count \in Nat,
           NEW q, q = insert_line(fb, before, count)
    PROVE  Keeps(fb, q) /\ Touches(fb, q, {"rows"})
  <1>. DEFINE n == Min({count, fb.bottom + 1 - before})
              blank == Filled(n, NewRow(fb))
              idle == before < fb.top \/ before > fb.bottom + 1 \/ n = 0
              a == SubSeq(fb.rows, 1, before)
              c == SubSeq(fb.rows, before + 1, fb.bottom + 1 - n)
              d == SubSeq(fb.rows, fb.bottom + 2, fb.height)
  <1>1. /\ fb.height \in Nat /\ fb.width \in Nat /\ fb.top \in Nat /\ fb.bottom \in Nat
        /\ fb.bottom < fb.height /\ Lines(fb.rows, fb.width) /\ Len(fb.rows) = fb.height
    BY CursorTypes, RowsAre
  <1>2. n = IF count <= fb.bottom + 1 - before THEN count ELSE fb.bottom + 1 - before
    BY <1>1, MinOfTwo
  <1>3. q = IF idle THEN fb ELSE [fb EXCEPT !.rows = a \o blank \o c \o d]
    BY DEF insert_line
  <1>. HIDE DEF n
  <1>4. CASE idle
    BY <1>3, <1>4, Itself
  <1>5. CASE ~idle
    <2>1. before \in Nat /\ n \in Nat \ {0} /\ n <= fb.bottom + 1 - before /\ before <= fb.bottom
      BY <1>1, <1>2, <1>5
    <2>2. Lines(a, fb.width) /\ Len(a) = before
      BY <1>1, <2>1, SubLines
    <2>3. Lines(blank, fb.width) /\ Len(blank) = n
      BY <1>1, <2>1, BlankLines DEF NewRow
    <2>. DEFINE h == fb.height
                bottom == fb.bottom
    <2>0. Cuts(h, bottom, before, n)
      <3>1. h \in Nat /\ bottom \in Nat /\ bottom < h /\ n \in Nat /\ n <= bottom + 1 - before
        BY <1>1, <2>1
      <3>. HIDE DEF h, bottom
      <3>. QED
        BY <2>1, <3>1, CutPoints
    <2>4. Lines(c, fb.width) /\ Len(c) = bottom + 1 - n - before
      <3>1. before + 1 \in 1 .. Len(fb.rows) + 1 /\ bottom + 1 - n \in (before + 1) - 1 .. Len(fb.rows)
        BY <1>1, <2>0 DEF Cuts
      <3>2. Lines(c, fb.width) /\ Len(c) = (bottom + 1 - n) - (before + 1) + 1
        BY <1>1, <3>1, SubLines
      <3>. HIDE DEF h, bottom, c
      <3>. QED
        BY <2>0, <3>2 DEF Cuts
    <2>5. Lines(d, fb.width) /\ Len(d) = h - bottom - 1
      <3>1. bottom + 2 \in 1 .. Len(fb.rows) + 1 /\ h \in (bottom + 2) - 1 .. Len(fb.rows)
        BY <1>1, <2>0 DEF Cuts
      <3>2. Lines(d, fb.width) /\ Len(d) = h - (bottom + 2) + 1
        BY <1>1, <3>1, SubLines
      <3>. HIDE DEF h, bottom, d
      <3>. QED
        BY <2>0, <3>2 DEF Cuts
    <2>. HIDE DEF a, blank, c, d, idle
    <2>6. Len(a) + Len(blank) + Len(c) + Len(d) = fb.height
      <3>. HIDE DEF h, bottom
      <3>. QED
        BY <2>0, <2>2, <2>3, <2>4, <2>5 DEF Cuts, h
    <2>7. q = [fb EXCEPT !.rows = a \o blank \o c \o d]
      BY <1>3, <1>5
    <2>. QED
      BY <2>2, <2>3, <2>4, <2>5, <2>6, <2>7, FourPieces
  <1>. QED
    BY <1>4, <1>5

LEMMA DeleteLine ==
    ASSUME NEW fb, Shape(fb), NEW row \in Int, NEW count \in Nat,
           NEW q, q = delete_line(fb, row, count)
    PROVE  Keeps(fb, q) /\ Touches(fb, q, {"rows"})
  <1>. DEFINE n == Min({count, fb.bottom + 1 - row})
              blank == Filled(n, NewRow(fb))
              idle == row < fb.top \/ row > fb.bottom \/ n = 0
              a == SubSeq(fb.rows, 1, row)
              c == SubSeq(fb.rows, row + n + 1, fb.bottom + 1)
              d == SubSeq(fb.rows, fb.bottom + 2, fb.height)
  <1>1. /\ fb.height \in Nat /\ fb.width \in Nat /\ fb.top \in Nat /\ fb.bottom \in Nat
        /\ fb.bottom < fb.height /\ Lines(fb.rows, fb.width) /\ Len(fb.rows) = fb.height
    BY CursorTypes, RowsAre
  <1>2. n = IF count <= fb.bottom + 1 - row THEN count ELSE fb.bottom + 1 - row
    BY <1>1, MinOfTwo
  <1>3. q = IF idle THEN fb ELSE [fb EXCEPT !.rows = a \o c \o blank \o d]
    BY DEF delete_line
  <1>. HIDE DEF n
  <1>4. CASE idle
    BY <1>3, <1>4, Itself
  <1>5. CASE ~idle
    <2>1. row \in Nat /\ n \in Nat /\ n <= fb.bottom + 1 - row
      BY <1>1, <1>2, <1>5
    <2>2. Lines(a, fb.width) /\ Len(a) = row
      <3>1. 1 \in 1 .. Len(fb.rows) + 1 /\ row \in 1 - 1 .. Len(fb.rows)
        BY <1>1, <1>5, <2>1
      <3>2. Lines(a, fb.width) /\ Len(a) = row - 1 + 1
        BY <1>1, <3>1, SubLines
      <3>. QED
        BY <2>1, <3>2
    <2>3. Lines(blank, fb.width) /\ Len(blank) = n
      BY <1>1, <2>1, BlankLines DEF NewRow
    <2>. DEFINE h == fb.height
                bottom == fb.bottom
    <2>0. Cuts(h, bottom, row, n)
      <3>1. h \in Nat /\ bottom \in Nat /\ bottom < h /\ n <= bottom + 1 - row
        BY <1>1, <2>1
      <3>. HIDE DEF h, bottom
      <3>. QED
        BY <2>1, <3>1, CutPoints
    <2>4. Lines(c, fb.width) /\ Len(c) = bottom + 1 - n - row
      <3>1. row + n + 1 \in 1 .. Len(fb.rows) + 1 /\ bottom + 1 \in (row + n + 1) - 1 .. Len(fb.rows)
        BY <1>1, <2>0 DEF Cuts
      <3>2. Lines(c, fb.width) /\ Len(c) = (bottom + 1) - (row + n + 1) + 1
        BY <1>1, <3>1, SubLines
      <3>. HIDE DEF h, bottom, c
      <3>. QED
        BY <2>0, <3>2 DEF Cuts
    <2>5. Lines(d, fb.width) /\ Len(d) = h - bottom - 1
      <3>1. bottom + 2 \in 1 .. Len(fb.rows) + 1 /\ h \in (bottom + 2) - 1 .. Len(fb.rows)
        BY <1>1, <2>0 DEF Cuts
      <3>2. Lines(d, fb.width) /\ Len(d) = h - (bottom + 2) + 1
        BY <1>1, <3>1, SubLines
      <3>. HIDE DEF h, bottom, d
      <3>. QED
        BY <2>0, <3>2 DEF Cuts
    <2>. HIDE DEF a, blank, c, d, idle
    <2>6. Len(a) + Len(c) + Len(blank) + Len(d) = fb.height
      <3>. HIDE DEF h, bottom
      <3>. QED
        BY <2>0, <2>2, <2>3, <2>4, <2>5 DEF Cuts, h
    <2>7. q = [fb EXCEPT !.rows = a \o c \o blank \o d]
      BY <1>3, <1>5
    <2>. QED
      BY <2>2, <2>3, <2>4, <2>5, <2>6, <2>7, FourPieces
  <1>. QED
    BY <1>4, <1>5

\* Framebuffer::scroll, either way.
LEMMA ScrollFacts ==
    ASSUME NEW fb, Shape(fb), NEW n \in Int, NEW q, q = scroll(fb, n)
    PROVE  Keeps(fb, q) /\ Touches(fb, q, {"rows"})
  <1>1. fb.top \in Int
    BY CursorTypes
  <1>2. CASE n >= 0
    BY <1>1, <1>2, DeleteLine DEF scroll
  <1>3. CASE n < 0
    <2>1. -n \in Nat /\ q = insert_line(fb, fb.top, -n)
      BY <1>3 DEF scroll
    <2>. QED
      BY <1>1, <2>1, InsertLine
  <1>. QED
    BY <1>2, <1>3

\* Down or up, scrolling at the margins.
LEMMA MoveRows ==
    ASSUME NEW fb, Shape(fb), NEW n \in Int, NEW q, q = move_rows_autoscroll(fb, n)
    PROVE  /\ Keeps(fb, q) /\ Touches(fb, q, Painting) /\ q.next_print_will_wrap = FALSE
           /\ q.cursor_col = fb.cursor_col
           /\ fb.cursor_row + n \in fb.top .. fb.bottom =>
                 q.cursor_row = Clamp(fb.cursor_row + n, LimitTop(fb), LimitBottom(fb))
           /\ fb.cursor_row = fb.bottom /\ n = 1 /\ fb.bottom = fb.height - 1
                 /\ ~fb.modes.origin_mode => q.cursor_row = fb.bottom
  <1>. DEFINE to == fb.cursor_row + n
              beyond == IF to > fb.bottom THEN to - fb.bottom
                        ELSE IF to < fb.top THEN to - fb.top ELSE 0
              stay == fb.cursor_row \notin fb.top .. fb.bottom \/ beyond = 0
              s == scroll(fb, beyond)
              t == move_row_by(s, -beyond)
  <1>1. /\ fb.cursor_row \in Nat /\ fb.top \in Nat /\ fb.bottom \in Nat /\ fb.top <= fb.bottom
        /\ beyond \in Int /\ -beyond \in Int
    BY CursorTypes
  <1>2. q = IF stay THEN move_row_by(fb, n) ELSE move_row_by(t, n)
    BY DEF move_rows_autoscroll
  <1>3. to \in fb.top .. fb.bottom => beyond = 0
    BY <1>1
  <1>4. fb.cursor_row = fb.bottom /\ n = 1 => beyond = 1
    BY <1>1
  <1>. HIDE DEF beyond
  <1>5. CASE stay
    <2>1. /\ Keeps(fb, q) /\ Touches(fb, q, CursorFields) /\ q.next_print_will_wrap = FALSE
          /\ q.cursor_row = Clamp(fb.cursor_row + n, LimitTop(fb), LimitBottom(fb))
          /\ q.cursor_col = fb.cursor_col
      BY <1>2, <1>5, MoveRowBy
    <2>2. Touches(fb, q, Painting)
      BY <2>1, TouchesMore DEF CursorFields, Painting
    <2>3. ~(fb.cursor_row = fb.bottom /\ n = 1)
      BY <1>1, <1>4, <1>5
    <2>. QED
      BY <2>1, <2>2, <2>3
  <1>6. CASE ~stay
    <2>1. Keeps(fb, s) /\ Touches(fb, s, {"rows"})
      BY <1>1, ScrollFacts
    <2>. HIDE DEF s
    <2>2. /\ Keeps(s, t) /\ Touches(s, t, CursorFields)
          /\ t.cursor_row = Clamp(s.cursor_row + (-beyond), LimitTop(s), LimitBottom(s))
          /\ t.cursor_col = s.cursor_col
      BY <1>1, <2>1, MoveRowBy DEF Keeps
    <2>. HIDE DEF t
    <2>3. /\ Keeps(t, q) /\ Touches(t, q, CursorFields) /\ q.next_print_will_wrap = FALSE
          /\ q.cursor_row = Clamp(t.cursor_row + n, LimitTop(t), LimitBottom(t))
          /\ q.cursor_col = t.cursor_col
      BY <1>2, <1>6, <2>2, MoveRowBy DEF Keeps
    <2>4. Keeps(fb, q)
      BY <2>1, <2>2, <2>3, KeepsBoth
    <2>5. Touches(fb, t, Painting)
      BY <2>1, <2>2, TouchesBoth DEF CursorFields, Painting
    <2>6. Touches(fb, q, Painting)
      BY <2>3, <2>5, TouchesBoth DEF CursorFields, Painting
    <2>7. s.cursor_col = fb.cursor_col /\ s.cursor_row = fb.cursor_row
      BY <2>1, FieldNames DEF Touches
    <2>8. LimitTop(t) = LimitTop(fb) /\ LimitBottom(t) = LimitBottom(fb)
      BY <2>5, FieldNames DEF LimitTop, LimitBottom, Touches, Painting
    <2>9. LimitTop(s) = LimitTop(fb) /\ LimitBottom(s) = LimitBottom(fb)
      BY <2>1, FieldNames DEF LimitTop, LimitBottom, Touches
    <2>10. ASSUME fb.cursor_row = fb.bottom, n = 1, fb.bottom = fb.height - 1,
                  ~fb.modes.origin_mode
           PROVE  q.cursor_row = fb.bottom
      <3>1. LimitTop(fb) = 0 /\ LimitBottom(fb) = fb.bottom
        BY <2>10, Limits DEF Shape
      <3>2. t.cursor_row = Clamp(fb.bottom - 1, 0, fb.bottom)
        BY <1>1, <1>4, <2>2, <2>7, <2>9, <2>10, <3>1
      <3>3. q.cursor_row = Clamp(t.cursor_row + 1, 0, fb.bottom)
        BY <2>3, <2>8, <2>10, <3>1
      <3>. QED
        BY <1>1, <3>2, <3>3 DEF Clamp
    <2>. QED
      BY <2>3, <2>4, <2>6, <2>7, <2>2, <1>3, <1>6, <2>10
  <1>. QED
    BY <1>5, <1>6

-----------------------------------------------------------------------------
(* Numbers *)

\* From 0 up, one step at a time (the library's induction theorem takes an operator).
LEMMA Induction ==
    ASSUME NEW n \in Nat, NEW T, 0 \in T, \A m \in 0 .. n - 1 : m \in T => m + 1 \in T
    PROVE  0 .. n \subseteq T
  <1>. DEFINE U == {m \in 0 .. n : m \notin T}
  <1>. SUFFICES ASSUME U # {} PROVE FALSE
    OBVIOUS
  <1>1. U \subseteq Nat
    OBVIOUS
  <1>. HIDE DEF U
  <1>2. PICK a \in U : \A b \in U : a <= b
    BY <1>1, LeastNum
  <1>3. a \in 0 .. n /\ a \notin T /\ a # 0
    BY <1>2 DEF U
  <1>4. a - 1 \in 0 .. n - 1 /\ a - 1 \in T /\ (a - 1) + 1 = a
    BY <1>2, <1>3 DEF U
  <1>. QED
    BY <1>3, <1>4

\* g gathers the elements of S, one at a time.
Gathers(g, n, S) ==
    /\ g[0] = {} /\ g[n] = S
    /\ \A m \in 0 .. n - 1 : g[m] \subseteq S /\ \E i : g[m + 1] = g[m] \/ g[m + 1] = g[m] \cup {i}

\* A set that is gathered one element at a time has each number of them at some time.
LEMMA Gathered ==
    ASSUME NEW n \in Nat, NEW S, IsFiniteSet(S), NEW g, Gathers(g, n, S),
           NEW k \in Nat \ {0}, k <= Cardinality(S)
    PROVE  \E m \in 0 .. n - 1 : Cardinality(g[m + 1]) = k /\ g[m + 1] # g[m]
  <1>. DEFINE T == {m \in 0 .. n : Cardinality(g[m]) >= k}
  <1>1. Cardinality(g[0]) = 0
    BY FS_EmptySet DEF Gathers
  <1>2. n \in T /\ T \subseteq Nat
    <2>1. Cardinality(S) \in Nat
      BY FS_CardinalityType
    <2>. QED
      BY <2>1 DEF Gathers
  <1>3. PICK a \in T : \A b \in T : a <= b
    BY <1>2, LeastNum
  <1>4. a \in 0 .. n /\ a # 0 /\ Cardinality(g[a]) >= k
    BY <1>1, <1>3
  <1>5. PICK m \in 0 .. n - 1 : m + 1 = a
    BY <1>4
  <1>6. ~(Cardinality(g[m]) >= k)
    <2>1. m \in 0 .. n /\ ~(a <= m)
      BY <1>5
    <2>. QED
      BY <1>3, <2>1
  <1>7. PICK i : g[a] = g[m] \/ g[a] = g[m] \cup {i}
    BY <1>5 DEF Gathers
  <1>8. g[a] = g[m] \cup {i} /\ g[a] # g[m] /\ i \notin g[m]
    <2>1. g[a] # g[m]
      BY <1>4, <1>6
    <2>. QED
      BY <1>7, <2>1
  <1>9. IsFiniteSet(g[m]) /\ Cardinality(g[m]) \in Nat
    BY <1>5, FS_Subset, FS_CardinalityType DEF Gathers
  <1>10. Cardinality(g[a]) = Cardinality(g[m]) + 1
    BY <1>8, <1>9, FS_AddElement
  <1>11. Cardinality(g[a]) = k
    BY <1>4, <1>6, <1>9, <1>10
  <1>. QED
    BY <1>5, <1>8, <1>11

\* The k-th number of a set, from the lowest and from the highest.
UpTo(S, i) == {j \in S : j <= i}
DownTo(S, i) == {j \in S : j >= i}

\* The k-th tab stop from below, and from above: it exists when there are k.
LEMMA KthFromBelow ==
    ASSUME NEW w \in Nat, NEW S, S \subseteq 0 .. w - 1, NEW k \in Nat \ {0}, k <= Cardinality(S)
    PROVE  \E i \in S : Cardinality(UpTo(S, i)) = k
  <1>. DEFINE g == [m \in 0 .. w |-> {j \in S : j < m}]
  <1>1. IsFiniteSet(S)
    BY FS_Interval, FS_Subset, 0 \in Int, w - 1 \in Int
  <1>2. \A j \in S : j \in Nat /\ j < w
    OBVIOUS
  <1>3. g[0] = {} /\ g[w] = S
    <2>1. g[0] = {j \in S : j < 0} /\ g[w] = {j \in S : j < w}
      OBVIOUS
    <2>2. \A j \in S : ~(j < 0) /\ j < w
      BY <1>2
    <2>. HIDE DEF g
    <2>3. g[0] = {}
      BY <2>1, <2>2, Zenon
    <2>4. g[w] = S
      BY <2>1, <2>2, Zenon
    <2>. QED
      BY <2>3, <2>4
  <1>4. ASSUME NEW m \in 0 .. w - 1
        PROVE  /\ g[m] \subseteq S /\ m \in 0 .. w /\ m + 1 \in 0 .. w
               /\ g[m + 1] = UpTo(S, m)
               /\ g[m + 1] = IF m \in S THEN g[m] \cup {m} ELSE g[m]
    <2>1. m \in 0 .. w /\ m + 1 \in 0 .. w
      OBVIOUS
    <2>2. g[m] = {j \in S : j < m} /\ g[m + 1] = {j \in S : j < m + 1}
      BY <2>1
    <2>3. \A j \in S : (j < m + 1 <=> j <= m) /\ (j <= m <=> j < m \/ j = m)
      BY <1>2
    <2>. HIDE DEF g
    <2>. QED
      BY <2>1, <2>2, <2>3 DEF UpTo
  <1>. HIDE DEF g
  <1>5. ASSUME NEW m \in 0 .. w - 1
        PROVE  g[m] \subseteq S /\ \E i : g[m + 1] = g[m] \/ g[m + 1] = g[m] \cup {i}
    BY <1>4
  <1>6. Gathers(g, w, S)
    BY <1>3, <1>5 DEF Gathers
  <1>7. PICK m \in 0 .. w - 1 : Cardinality(g[m + 1]) = k /\ g[m + 1] # g[m]
    BY <1>1, <1>6, Gathered
  <1>. QED
    BY <1>4, <1>7

LEMMA KthFromAbove ==
    ASSUME NEW w \in Nat, NEW S, S \subseteq 0 .. w - 1, NEW k \in Nat \ {0}, k <= Cardinality(S)
    PROVE  \E i \in S : Cardinality(DownTo(S, i)) = k
  <1>. DEFINE g == [m \in 0 .. w |-> {j \in S : j >= w - m}]
  <1>1. IsFiniteSet(S)
    BY FS_Interval, FS_Subset, 0 \in Int, w - 1 \in Int
  <1>2. \A j \in S : j \in Nat /\ j < w
    OBVIOUS
  <1>3. g[0] = {} /\ g[w] = S
    <2>1. 0 \in 0 .. w /\ w \in 0 .. w
      OBVIOUS
    <2>2. g[0] = {j \in S : j >= w - 0} /\ g[w] = {j \in S : j >= w - w}
      BY <2>1
    <2>3. \A j \in S : ~(j >= w - 0) /\ j >= w - w
      BY <1>2
    <2>. HIDE DEF g
    <2>4. g[0] = {}
      BY <2>2, <2>3, Zenon
    <2>5. g[w] = S
      BY <2>2, <2>3, Zenon
    <2>. QED
      BY <2>4, <2>5
  <1>4. ASSUME NEW m \in 0 .. w - 1
        PROVE  /\ g[m] \subseteq S /\ m \in 0 .. w /\ m + 1 \in 0 .. w
               /\ g[m + 1] = DownTo(S, w - m - 1)
               /\ g[m + 1] = IF w - m - 1 \in S THEN g[m] \cup {w - m - 1} ELSE g[m]
    <2>1. m \in 0 .. w /\ m + 1 \in 0 .. w
      OBVIOUS
    <2>2. g[m] = {j \in S : j >= w - m} /\ g[m + 1] = {j \in S : j >= w - (m + 1)}
      BY <2>1
    <2>3. \A j \in S : /\ j >= w - (m + 1) <=> j >= w - m - 1
                       /\ j >= w - m - 1 <=> j >= w - m \/ j = w - m - 1
      BY <1>2
    <2>. HIDE DEF g
    <2>. QED
      BY <2>1, <2>2, <2>3 DEF DownTo
  <1>. HIDE DEF g
  <1>5. ASSUME NEW m \in 0 .. w - 1
        PROVE  g[m] \subseteq S /\ \E i : g[m + 1] = g[m] \/ g[m + 1] = g[m] \cup {i}
    BY <1>4
  <1>6. Gathers(g, w, S)
    BY <1>3, <1>5 DEF Gathers
  <1>7. PICK m \in 0 .. w - 1 : Cardinality(g[m + 1]) = k /\ g[m + 1] # g[m]
    BY <1>1, <1>6, Gathered
  <1>. QED
    BY <1>4, <1>7

-----------------------------------------------------------------------------
(* Cells in and out, tabs, margins, resets and sizes *)

LEMMA ThreePieces ==
    ASSUME NEW a, NEW b, NEW c, IsSeq(a), IsSeq(b), IsSeq(c)
    PROVE  IsSeq(a \o b \o c) /\ Len(a \o b \o c) = Len(a) + Len(b) + Len(c)
  <1>1. IsSeq(a \o b) /\ Len(a \o b) = Len(a) + Len(b)
    BY ConcatFacts
  <1>2. IsSeq(a \o b \o c) /\ Len(a \o b \o c) = Len(a \o b) + Len(c)
    BY <1>1, ConcatFacts
  <1>. QED
    BY <1>1, <1>2

\* insert_cell and delete_cell leave a row as wide.
LEMMA CellsInOut ==
    ASSUME NEW fb, Shape(fb), NEW count \in Nat,
           NEW q, q = insert_cells(fb, count) \/ q = delete_cells(fb, count)
    PROVE  Keeps(fb, q) /\ Touches(fb, q, {"rows"})
  <1>. DEFINE cells == RowAt(fb, fb.cursor_row)
              n == Min({count, fb.width - fb.cursor_col})
              blank == Row(n, fb.renditions.bg)
              a == SubSeq(cells, 1, fb.cursor_col)
              c == SubSeq(cells, fb.cursor_col + 1, fb.width - n)
              d == SubSeq(cells, fb.cursor_col + n + 1, fb.width)
  <1>1. /\ fb.width \in Nat /\ fb.cursor_col \in Nat /\ fb.cursor_col < fb.width
        /\ fb.cursor_row \in 0 .. fb.height - 1
    BY CursorTypes
  <1>2. IsSeq(cells) /\ Len(cells) = fb.width
    BY <1>1, RowsAre
  <1>3. n \in Nat /\ n <= fb.width - fb.cursor_col
    BY <1>1, MinOfTwo
  <1>4. \/ q = WithRow(fb, fb.cursor_row, a \o blank \o c)
        \/ q = WithRow(fb, fb.cursor_row, a \o d \o blank)
    BY DEF insert_cells, delete_cells
  <1>. HIDE DEF n, cells
  <1>5. IsSeq(blank) /\ Len(blank) = n
    BY <1>3, RowFacts
  <1>6. IsSeq(a) /\ Len(a) = fb.cursor_col
    <2>1. 1 \in 1 .. Len(cells) + 1 /\ fb.cursor_col \in 1 - 1 .. Len(cells)
      BY <1>1, <1>2
    <2>2. IsSeq(a) /\ Len(a) = fb.cursor_col - 1 + 1
      BY <1>2, <2>1, SubFacts
    <2>. QED
      BY <1>1, <2>2
  <1>7. IsSeq(c) /\ Len(c) = fb.width - n - fb.cursor_col
    <2>1. /\ fb.cursor_col + 1 \in 1 .. Len(cells) + 1
          /\ fb.width - n \in (fb.cursor_col + 1) - 1 .. Len(cells)
      BY <1>1, <1>2, <1>3
    <2>2. IsSeq(c) /\ Len(c) = (fb.width - n) - (fb.cursor_col + 1) + 1
      BY <1>2, <2>1, SubFacts
    <2>. QED
      BY <1>1, <1>3, <2>2
  <1>8. IsSeq(d) /\ Len(d) = fb.width - n - fb.cursor_col
    <2>1. /\ fb.cursor_col + n + 1 \in 1 .. Len(cells) + 1
          /\ fb.width \in (fb.cursor_col + n + 1) - 1 .. Len(cells)
      BY <1>1, <1>2, <1>3
    <2>2. IsSeq(d) /\ Len(d) = fb.width - (fb.cursor_col + n + 1) + 1
      BY <1>2, <2>1, SubFacts
    <2>. QED
      BY <1>1, <1>3, <2>2
  <1>. HIDE DEF a, blank, c, d
  <1>9. IsSeq(a \o blank \o c) /\ Len(a \o blank \o c) = fb.width
    BY <1>1, <1>3, <1>5, <1>6, <1>7, ThreePieces
  <1>10. IsSeq(a \o d \o blank) /\ Len(a \o d \o blank) = fb.width
    BY <1>1, <1>3, <1>5, <1>6, <1>8, ThreePieces
  <1>. QED
    BY <1>1, <1>4, <1>9, <1>10, PaintedRow

\* What HT_n looks for is found: the CHOOSE of NextTab has a witness.
LEMMA NextTabIsColumn ==
    ASSUME NEW fb, Shape(fb), NEW count \in Int \ {0}
    PROVE  NextTab(fb, count) \in Int
  <1>. DEFINE right == {i \in fb.tabs : fb.cursor_col < i}
              left == {i \in fb.tabs : 0 < i /\ i < fb.cursor_col}
  <1>1. fb.width \in Nat /\ right \subseteq 0 .. fb.width - 1 /\ left \subseteq 0 .. fb.width - 1
    BY CursorTypes DEF Shape, Loose
  <1>2. Cardinality(right) \in Nat /\ Cardinality(left) \in Nat
    BY <1>1, FS_Interval, FS_Subset, FS_CardinalityType, 0 \in Int, fb.width - 1 \in Int
  <1>3. CASE count > 0
    <2>. DEFINE nth == {i \in right : Cardinality({j \in right : j <= i}) = count}
    <2>1. NextTab(fb, count) = IF Cardinality(right) < count THEN fb.width - 1
                               ELSE CHOOSE i \in nth : TRUE
      BY <1>3 DEF NextTab
    <2>2. CASE Cardinality(right) < count
      BY <1>1, <2>1, <2>2
    <2>3. CASE ~(Cardinality(right) < count)
      <3>1. count \in Nat \ {0} /\ count <= Cardinality(right)
        BY <1>2, <1>3, <2>3
      <3>. HIDE DEF right
      <3>0. right \subseteq 0 .. fb.width - 1 /\ fb.width \in Nat
        BY <1>1
      <3>2. PICK i \in right : Cardinality(UpTo(right, i)) = count
        BY <3>0, <3>1, KthFromBelow
      <3>3. i \in nth
        BY <3>2 DEF UpTo
      <3>4. nth \subseteq 0 .. fb.width - 1
        BY <1>1
      <3>. HIDE DEF nth
      <3>5. NextTab(fb, count) \in nth
        BY <2>1, <2>3, <3>3
      <3>6. NextTab(fb, count) \in 0 .. fb.width - 1
        BY <3>4, <3>5
      <3>. QED
        BY <3>6
    <2>. QED
      BY <2>2, <2>3
  <1>4. CASE count < 0
    <2>. DEFINE nth == {i \in left : Cardinality({j \in left : j >= i}) = -count}
    <2>1. NextTab(fb, count) = IF Cardinality(left) < -count THEN 0
                               ELSE CHOOSE i \in nth : TRUE
      BY <1>4 DEF NextTab
    <2>2. CASE Cardinality(left) < -count
      BY <1>1, <2>1, <2>2
    <2>3. CASE ~(Cardinality(left) < -count)
      <3>1. -count \in Nat \ {0} /\ -count <= Cardinality(left)
        BY <1>2, <1>4, <2>3
      <3>. HIDE DEF left
      <3>0. left \subseteq 0 .. fb.width - 1 /\ fb.width \in Nat
        BY <1>1
      <3>2. PICK i \in left : Cardinality(DownTo(left, i)) = -count
        BY <3>0, <3>1, KthFromAbove
      <3>3. i \in nth
        BY <3>2 DEF DownTo
      <3>4. nth \subseteq 0 .. fb.width - 1
        BY <1>1
      <3>. HIDE DEF nth
      <3>5. NextTab(fb, count) \in nth
        BY <2>1, <2>3, <3>3
      <3>6. NextTab(fb, count) \in 0 .. fb.width - 1
        BY <3>4, <3>5
      <3>. QED
        BY <3>6
    <2>. QED
      BY <2>2, <2>3
  <1>. QED
    BY <1>3, <1>4

LEMMA TabMove ==
    ASSUME NEW fb, Shape(fb), NEW count \in Int \ {0}, NEW q, q = HT_n(fb, count)
    PROVE  Keeps(fb, q)
  <1>. DEFINE g == move_col(fb, NextTab(fb, count))
  <1>1. NextTab(fb, count) \in Int
    BY NextTabIsColumn
  <1>2. Keeps(fb, g)
    BY <1>1, MoveCol
  <1>3. q = [g EXCEPT !.next_print_will_wrap = fb.next_print_will_wrap]
    BY DEF HT_n
  <1>. HIDE DEF g
  <1>4. Shape(g) /\ g = [k \in Fields |-> g[k]]
    BY <1>2, CursorTypes DEF Keeps
  <1>5. Touches(g, q, {"next_print_will_wrap"})
    BY <1>3, <1>4, FieldNames DEF Touches
  <1>6. Touches(g, q, CursorFields)
    BY <1>5, TouchesMore DEF CursorFields
  <1>7. Within(q)
    BY <1>4, <1>5, FieldNames DEF Touches, Shape, Within
  <1>. QED
    BY <1>2, <1>4, <1>6, <1>7, ShapeMoved, KeepsBoth

\* The screen that fits other margins, modes, tabs or saved cursor.
LEMMA LooseSet ==
    ASSUME NEW fb, Shape(fb), NEW q,
           Touches(fb, q, Fields \ {"width", "height", "rows"}),
           AllModes(q.modes),
           q.cursor_col \in Int, q.cursor_row \in Int,
           q.top \in 0 .. q.bottom, q.bottom \in 0 .. fb.height - 1,
           q.tabs \subseteq 0 .. fb.width - 1,
           q.save.cursor_col \in Int, q.save.cursor_row \in Int,
           q.mouse \in MouseModes
    PROVE  /\ Loose(q) /\ SameSizes(fb, q) /\ q.rows = fb.rows
           /\ q.cursor_col \in 0 .. fb.width - 1 /\ q.cursor_row \in 0 .. fb.height - 1 => Keeps(fb, q)
  <1>1. q = [k \in Fields |-> q[k]]
    BY DEF Touches
  <1>2. SameSizes(fb, q) /\ q.rows = fb.rows
    BY FieldNames DEF SameSizes, Touches
  <1>3. fb.width \in Nat \ {0} /\ fb.height \in Nat \ {0}
    BY CursorTypes
  <1>4. Loose(q)
    BY <1>1, <1>2, <1>3 DEF Loose, SameSizes, AllModes
  <1>5. Grid(q.rows, q.width, q.height)
    BY <1>2 DEF Shape, SameSizes
  <1>. QED
    BY <1>2, <1>4, <1>5 DEF Keeps, Shape, Within, SameSizes

\* One field that is not about sizes, cells or the cursor.
LEMMA LooseParts ==
    ASSUME NEW fb, Shape(fb)
    PROVE  /\ AllModes(fb.modes)
           /\ fb.cursor_col \in 0 .. fb.width - 1 /\ fb.cursor_row \in 0 .. fb.height - 1
           /\ fb.cursor_col \in Int /\ fb.cursor_row \in Int
           /\ fb.top \in 0 .. fb.bottom /\ fb.bottom \in 0 .. fb.height - 1
           /\ fb.tabs \subseteq 0 .. fb.width - 1
           /\ fb.save.cursor_col \in Int /\ fb.save.cursor_row \in Int
           /\ fb.mouse \in MouseModes
  BY DEF Shape, Loose, Within, AllModes

LEMMA Dressed ==
    ASSUME NEW fb, Shape(fb), NEW q,
           Touches(fb, q, {"default_tabs", "renditions", "icon_name", "window_title", "clipboard",
                           "bell_count", "title_initialized"})
    PROVE  Keeps(fb, q)
  <1>1. Touches(fb, q, Fields \ {"width", "height", "rows"})
    BY TouchesMore DEF Fields
  <1>2. /\ q.modes = fb.modes /\ q.cursor_col = fb.cursor_col /\ q.cursor_row = fb.cursor_row
        /\ q.top = fb.top /\ q.bottom = fb.bottom /\ q.tabs = fb.tabs /\ q.save = fb.save
        /\ q.mouse = fb.mouse
    BY FieldNames DEF Touches
  <1>. QED
    BY <1>1, <1>2, LooseParts, LooseSet

LEMMA ModeSet ==
    ASSUME NEW fb, Shape(fb), NEW m \in ModeNames, NEW value, NEW q, q = [fb EXCEPT !.modes[m] = value]
    PROVE  /\ Keeps(fb, q) /\ Touches(fb, q, {"modes"}) /\ q.modes[m] = value
           /\ \A k \in ModeNames \ {m} : q.modes[k] = fb.modes[k]
  <1>. DEFINE modes == [fb.modes EXCEPT ![m] = value]
  <1>1. fb = [k \in Fields |-> fb[k]] /\ "modes" \in Fields
    BY CursorTypes, FieldNames
  <1>2. AllModes(modes) /\ modes[m] = value
        /\ \A k \in ModeNames \ {m} : modes[k] = fb.modes[k]
    <2>1. fb.modes = [k \in ModeNames |-> fb.modes[k]]
      BY LooseParts DEF AllModes
    <2>. QED
      BY <2>1 DEF AllModes
  <1>3. q = [fb EXCEPT !.modes = modes]
    OBVIOUS
  <1>. HIDE DEF modes
  <1>4. Touches(fb, q, {"modes"}) /\ q.modes = modes
    BY <1>1, <1>3 DEF Touches
  <1>5. Touches(fb, q, Fields \ {"width", "height", "rows"})
    BY <1>4, TouchesMore DEF Fields
  <1>6. /\ q.cursor_col = fb.cursor_col /\ q.cursor_row = fb.cursor_row
        /\ q.top = fb.top /\ q.bottom = fb.bottom /\ q.tabs = fb.tabs /\ q.save = fb.save
        /\ q.mouse = fb.mouse
    BY <1>4, FieldNames DEF Touches
  <1>7. AllModes(q.modes)
    BY <1>2, <1>4
  <1>8. Keeps(fb, q)
    BY <1>5, <1>6, <1>7, LooseParts, LooseSet
  <1>. QED
    BY <1>2, <1>4, <1>8

\* set_scrolling_region makes its margins fit.
LEMMA ScrollingRegion ==
    ASSUME NEW fb, Shape(fb), NEW top \in Int, NEW bottom \in Int, top <= fb.height - 1,
           NEW q, q = set_scrolling_region(fb, top, bottom)
    PROVE  /\ Keeps(fb, q) /\ Touches(fb, q, {"top", "bottom", "cursor_row", "cursor_col"})
           /\ top >= 0 /\ bottom \in top .. fb.height - 1 => q.top = top /\ q.bottom = bottom
           /\ ~fb.modes.origin_mode => q.cursor_row = fb.cursor_row /\ q.cursor_col = fb.cursor_col
  <1>. DEFINE t == Max({top, 0})
              m == Min({bottom, fb.height - 1})
              b == Max({m, t})
              set == [fb EXCEPT !.top = t, !.bottom = b]
  <1>1. fb = [k \in Fields |-> fb[k]] /\ fb.height \in Nat \ {0}
    BY CursorTypes
  <1>2. /\ t = IF top >= 0 THEN top ELSE 0
        /\ m = IF bottom <= fb.height - 1 THEN bottom ELSE fb.height - 1
    BY <1>1, MinOfTwo, MaxOfTwo
  <1>3. t \in Int /\ m \in Int
    BY <1>1, <1>2
  <1>4. b = IF m >= t THEN m ELSE t
    BY <1>3, MaxOfTwo
  <1>5. q = IF fb.modes.origin_mode THEN SnapCursor(set) ELSE set
    BY DEF set_scrolling_region
  <1>. HIDE DEF t, m, b
  <1>6. /\ t \in 0 .. b /\ b \in 0 .. fb.height - 1
        /\ top >= 0 /\ bottom \in top .. fb.height - 1 => t = top /\ b = bottom
    BY <1>1, <1>2, <1>3, <1>4
  <1>7. Touches(fb, set, {"top", "bottom"}) /\ set.top = t /\ set.bottom = b
    BY <1>1, FieldNames DEF Touches
  <1>. HIDE DEF set
  <1>8. Touches(fb, set, Fields \ {"width", "height", "rows"})
    BY <1>7, TouchesMore DEF Fields
  <1>9. /\ set.cursor_col = fb.cursor_col /\ set.cursor_row = fb.cursor_row
        /\ set.modes = fb.modes /\ set.tabs = fb.tabs /\ set.save = fb.save
        /\ set.mouse = fb.mouse
    BY <1>7, FieldNames DEF Touches
  <1>10. Loose(set) /\ Keeps(fb, set)
    BY <1>6, <1>7, <1>8, <1>9, LooseParts, LooseSet
  <1>11. CASE ~fb.modes.origin_mode
    <2>1. q = set
      BY <1>5, <1>11
    <2>2. Touches(fb, set, {"top", "bottom", "cursor_row", "cursor_col"})
      BY <1>7, TouchesMore
    <2>. QED
      BY <2>1, <2>2, <1>6, <1>7, <1>9, <1>10
  <1>12. CASE fb.modes.origin_mode
    <2>1. q = SnapCursor(set)
      BY <1>5, <1>12
    <2>2. Loose(q) /\ Within(q) /\ Touches(set, q, Position)
      BY <1>10, <2>1, SnapFacts
    <2>3. Touches(set, q, CursorFields)
      BY <2>2, TouchesMore DEF Position, CursorFields
    <2>4. Keeps(set, q)
      BY <1>10, <2>2, <2>3, ShapeMoved DEF Keeps
    <2>5. Keeps(fb, q)
      BY <1>10, <2>4, KeepsBoth
    <2>6. Touches(fb, q, {"top", "bottom", "cursor_row", "cursor_col"})
      BY <1>7, <2>2, TouchesBoth DEF Position
    <2>7. q.top = set.top /\ q.bottom = set.bottom
      BY <2>2, FieldNames DEF Touches, Position
    <2>. QED
      BY <2>5, <2>6, <2>7, <1>6, <1>7, <1>12
  <1>. QED
    BY <1>11, <1>12

LEMMA SavedCursor ==
    ASSUME NEW fb, Shape(fb), NEW q, q = save_cursor(fb)
    PROVE  Keeps(fb, q)
  <1>. DEFINE saved == [cursor_col |-> fb.cursor_col, cursor_row |-> fb.cursor_row,
                        renditions |-> fb.renditions,
                        auto_wrap_mode |-> fb.modes.auto_wrap_mode,
                        origin_mode |-> fb.modes.origin_mode]
  <1>1. fb = [k \in Fields |-> fb[k]] /\ q = [fb EXCEPT !.save = saved]
    BY CursorTypes DEF save_cursor
  <1>2. saved.cursor_col = fb.cursor_col /\ saved.cursor_row = fb.cursor_row
    OBVIOUS
  <1>. HIDE DEF saved
  <1>3. Touches(fb, q, {"save"}) /\ q.save = saved
    BY <1>1, FieldNames DEF Touches
  <1>4. Touches(fb, q, Fields \ {"width", "height", "rows"})
    BY <1>3, TouchesMore DEF Fields
  <1>5. /\ q.cursor_col = fb.cursor_col /\ q.cursor_row = fb.cursor_row
        /\ q.modes = fb.modes /\ q.tabs = fb.tabs /\ q.top = fb.top /\ q.bottom = fb.bottom
        /\ q.mouse = fb.mouse
    BY <1>3, FieldNames DEF Touches
  <1>. QED
    BY <1>2, <1>3, <1>4, <1>5, LooseParts, LooseSet

\* A saved cursor may lie outside a screen made smaller since: it is put inside.
LEMMA RestoredCursor ==
    ASSUME NEW fb, Shape(fb), NEW q, q = restore_cursor(fb)
    PROVE  Keeps(fb, q)
  <1>. DEFINE modes == [fb.modes EXCEPT !.auto_wrap_mode = fb.save.auto_wrap_mode,
                                        !.origin_mode = fb.save.origin_mode]
              g == [fb EXCEPT !.cursor_col = fb.save.cursor_col, !.cursor_row = fb.save.cursor_row,
                              !.renditions = fb.save.renditions, !.modes = modes]
  <1>1. fb = [k \in Fields |-> fb[k]]
    BY CursorTypes
  <1>2. q = SnapCursor(g)
    <2>1. g = [fb EXCEPT !.cursor_col = fb.save.cursor_col, !.cursor_row = fb.save.cursor_row,
                         !.renditions = fb.save.renditions,
                         !.modes.auto_wrap_mode = fb.save.auto_wrap_mode,
                         !.modes.origin_mode = fb.save.origin_mode]
      BY <1>1, FieldNames
    <2>. QED
      BY <2>1 DEF restore_cursor
  <1>3. AllModes(modes)
    <2>1. fb.modes = [k \in ModeNames |-> fb.modes[k]]
      BY LooseParts DEF AllModes
    <2>. QED
      BY <2>1 DEF AllModes
  <1>. HIDE DEF modes
  <1>4. /\ Touches(fb, g, {"cursor_col", "cursor_row", "renditions", "modes"})
        /\ g.cursor_col = fb.save.cursor_col /\ g.cursor_row = fb.save.cursor_row
        /\ g.modes = modes
    BY <1>1, FieldNames DEF Touches
  <1>. HIDE DEF g
  <1>5. Touches(fb, g, Fields \ {"width", "height", "rows"})
    BY <1>4, TouchesMore DEF Fields
  <1>6. /\ g.tabs = fb.tabs /\ g.top = fb.top /\ g.bottom = fb.bottom /\ g.mouse = fb.mouse
        /\ g.save = fb.save
    BY <1>4, FieldNames DEF Touches
  <1>7. Loose(g) /\ SameSizes(fb, g) /\ g.rows = fb.rows
    BY <1>3, <1>4, <1>5, <1>6, LooseParts, LooseSet
  <1>8. Loose(q) /\ Within(q) /\ Touches(g, q, Position)
    BY <1>2, <1>7, SnapFacts
  <1>9. SameSizes(fb, q) /\ q.rows = fb.rows
    BY <1>7, <1>8, FieldNames DEF SameSizes, Touches, Position
  <1>. QED
    BY <1>8, <1>9 DEF Keeps, Shape, SameSizes

\* A new screen.
Fresh(q, width, height) ==
    /\ Shape(q) /\ q.width = width /\ q.height = height
    /\ q.cursor_col = 0 /\ q.cursor_row = 0 /\ q.top = 0 /\ q.bottom = height - 1
    /\ q.next_print_will_wrap = FALSE /\ q.modes.insert_mode = FALSE
    /\ q.modes.origin_mode = FALSE /\ q.modes.auto_wrap_mode = TRUE

\* What the constructor makes has the shape.
LEMMA NewScreen ==
    ASSUME NEW width \in Nat \ {0}, NEW height \in Nat \ {0},
           NEW q, q = NewFramebuffer(width, height)
    PROVE  Fresh(q, width, height)
  <1>1. DOMAIN q = Fields /\ q = [k \in Fields |-> q[k]]
    BY DEF NewFramebuffer, Fields
  <1>2. /\ q.width = width /\ q.height = height /\ q.cursor_col = 0 /\ q.cursor_row = 0
        /\ q.top = 0 /\ q.bottom = height - 1 /\ q.tabs = DefaultTabs(0, width)
        /\ q.save = Unsaved /\ q.mouse = NoMouse /\ q.next_print_will_wrap = FALSE
        /\ q.rows = Filled(height, Row(width, 0))
    BY DEF NewFramebuffer
  <1>3. /\ AllModes(q.modes)
        /\ q.modes.insert_mode = FALSE /\ q.modes.origin_mode = FALSE
        /\ q.modes.auto_wrap_mode = TRUE
    BY DEF NewFramebuffer, AllModes, ModeNames
  <1>4. q.save.cursor_col \in Int /\ q.save.cursor_row \in Int
    BY <1>2 DEF Unsaved
  <1>5. q.mouse \in MouseModes
    BY <1>2 DEF NoMouse, MouseModes
  <1>6. q.tabs \subseteq 0 .. width - 1
    BY <1>2 DEF DefaultTabs
  <1>7. Loose(q) /\ Within(q)
    BY <1>1, <1>2, <1>3, <1>4, <1>5, <1>6 DEF Loose, Within, AllModes
  <1>8. Grid(q.rows, q.width, q.height)
    <2>1. Lines(q.rows, width) /\ Len(q.rows) = height
      BY <1>2, BlankLines
    <2>. QED
      BY <1>2, <2>1, GridIsLines
  <1>. QED
    BY <1>2, <1>3, <1>7, <1>8 DEF Shape, Fresh

LEMMA Reset ==
    ASSUME NEW fb, Shape(fb), NEW q, q = reset(fb) PROVE Keeps(fb, q)
  <1>. DEFINE g == NewFramebuffer(fb.width, fb.height)
  <1>0. fb.width \in Nat \ {0} /\ fb.height \in Nat \ {0}
    BY CursorTypes
  <1>1. g = NewFramebuffer(fb.width, fb.height)
    OBVIOUS
  <1>2. q = [g EXCEPT !.icon_name = fb.icon_name, !.bell_count = fb.bell_count,
                      !.title_initialized = fb.title_initialized]
    BY DEF reset
  <1>. HIDE DEF g
  <1>7. Shape(g) /\ g.width = fb.width /\ g.height = fb.height
    <2>1. Fresh(g, fb.width, fb.height)
      BY <1>0, <1>1, NewScreen
    <2>. QED
      BY <2>1 DEF Fresh
  <1>3. g = [k \in Fields |-> g[k]]
    BY <1>7, CursorTypes
  <1>4. Touches(g, q, {"icon_name", "bell_count", "title_initialized"})
    BY <1>2, <1>3, FieldNames DEF Touches
  <1>5. Touches(g, q, {"default_tabs", "renditions", "icon_name", "window_title", "clipboard",
                       "bell_count", "title_initialized"})
    BY <1>4, TouchesMore
  <1>6. Keeps(g, q)
    BY <1>7, <1>5, Dressed
  <1>. QED
    BY <1>7, <1>6 DEF Keeps, SameSizes

LEMMA SoftReset ==
    ASSUME NEW fb, Shape(fb), NEW q, q = soft_reset(fb) PROVE Keeps(fb, q)
  <1>. DEFINE a == [fb EXCEPT !.modes["insert_mode"] = FALSE]
              b == [a EXCEPT !.modes["origin_mode"] = FALSE]
              c == [b EXCEPT !.modes["cursor_visible"] = TRUE]
              d == [c EXCEPT !.modes["application_mode_cursor_keys"] = FALSE]
              e == set_scrolling_region(d, 0, fb.height - 1)
              r == set_rendition(e.renditions, 0)
  <1>1. /\ fb = [k \in Fields |-> fb[k]] /\ fb.modes = [k \in ModeNames |-> fb.modes[k]]
        /\ fb.height \in Nat \ {0}
    BY CursorTypes, LooseParts DEF AllModes
  <1>2. /\ "insert_mode" \in ModeNames /\ "origin_mode" \in ModeNames
        /\ "cursor_visible" \in ModeNames /\ "application_mode_cursor_keys" \in ModeNames
    BY DEF ModeNames
  <1>3. d = [fb EXCEPT !.modes.insert_mode = FALSE, !.modes.origin_mode = FALSE,
                       !.modes.cursor_visible = TRUE,
                       !.modes.application_mode_cursor_keys = FALSE]
    OBVIOUS
  <1>4. q = [e EXCEPT !.renditions = r, !.save = Unsaved]
    BY <1>3 DEF soft_reset
  <1>5. Keeps(fb, a)
    BY <1>2, ModeSet
  <1>. HIDE DEF a
  <1>6. Keeps(a, b)
    BY <1>2, <1>5, ModeSet DEF Keeps
  <1>. HIDE DEF b
  <1>7. Keeps(b, c)
    BY <1>2, <1>6, ModeSet DEF Keeps
  <1>. HIDE DEF c
  <1>8. Keeps(c, d)
    BY <1>2, <1>7, ModeSet DEF Keeps
  <1>. HIDE DEF d
  <1>9. Keeps(fb, d)
    BY <1>5, <1>6, <1>7, <1>8, KeepsBoth
  <1>10. d.height = fb.height /\ Shape(d)
    BY <1>9 DEF Keeps, SameSizes
  <1>11. Keeps(d, e)
    <2>1. 0 \in Int /\ fb.height - 1 \in Int /\ 0 <= d.height - 1
      BY <1>1, <1>10
    <2>. QED
      BY <1>10, <2>1, ScrollingRegion
  <1>. HIDE DEF e, r
  <1>12. Shape(e) /\ e = [k \in Fields |-> e[k]]
    BY <1>11, CursorTypes DEF Keeps
  <1>13. Touches(e, q, {"renditions", "save"}) /\ q.save = Unsaved
    BY <1>4, <1>12, FieldNames DEF Touches
  <1>14. Touches(e, q, Fields \ {"width", "height", "rows"})
    BY <1>13, TouchesMore DEF Fields
  <1>15. /\ q.cursor_col = e.cursor_col /\ q.cursor_row = e.cursor_row
         /\ q.modes = e.modes /\ q.tabs = e.tabs /\ q.top = e.top /\ q.bottom = e.bottom
         /\ q.mouse = e.mouse
    BY <1>13, FieldNames DEF Touches
  <1>16. q.save.cursor_col \in Int /\ q.save.cursor_row \in Int
    BY <1>13 DEF Unsaved
  <1>17. Keeps(e, q)
    BY <1>12, <1>14, <1>15, <1>16, LooseParts, LooseSet
  <1>. QED
    BY <1>9, <1>11, <1>17, KeepsBoth

\* Framebuffer::resize: rows and cells cut or filled, cursor and margins put inside.
LEMMA ResizeFacts ==
    ASSUME NEW fb, Shape(fb), NEW width \in Nat \ {0}, NEW height \in Nat \ {0},
           NEW q, q = resize(fb, width, height)
    PROVE  /\ Shape(q) /\ q.width = width /\ q.height = height
           /\ q.modes = fb.modes /\ q.next_print_will_wrap = fb.next_print_will_wrap
           /\ ~(fb.width = width /\ fb.height = height) => q.top = 0 /\ q.bottom = height - 1
  <1>. DEFINE same == fb.width = width /\ fb.height = height
              top == IF same THEN fb.top ELSE 0
              bottom == IF same THEN fb.bottom ELSE height - 1
              tabs == {i \in fb.tabs : i < width}
                         \cup (IF fb.default_tabs THEN DefaultTabs(fb.width, width) ELSE {})
              g == [fb EXCEPT !.top = top, !.bottom = bottom, !.tabs = tabs,
                              !.width = width, !.height = height]
              ds == SnapCursor(g)
              resized(cells) ==
                  IF fb.width = width THEN cells
                  ELSE [i \in 1 .. width |->
                          IF i > fb.width THEN Cell(fb.renditions.bg)
                          ELSE IF i = fb.width THEN [cells[i] EXCEPT !.wrap = FALSE] ELSE cells[i]]
              rows == [y \in 1 .. height |->
                          IF y <= fb.height THEN resized(fb.rows[y]) ELSE NewRow(ds)]
  <1>1. /\ fb = [k \in Fields |-> fb[k]] /\ fb.width \in Nat \ {0} /\ fb.height \in Nat \ {0}
    BY CursorTypes
  <1>2. q = [ds EXCEPT !.rows = rows]
    BY DEF resize
  <1>3. top \in 0 .. bottom /\ bottom \in 0 .. height - 1
    BY LooseParts
  <1>4. ~same => top = 0 /\ bottom = height - 1
    OBVIOUS
  <1>5. tabs \subseteq 0 .. width - 1
    <2>1. fb.tabs \subseteq 0 .. fb.width - 1
      BY LooseParts
    <2>2. {i \in fb.tabs : i < width} \subseteq 0 .. width - 1
      BY <1>1, <2>1
    <2>3. DefaultTabs(fb.width, width) \subseteq 0 .. width - 1
      BY <1>1 DEF DefaultTabs
    <2>. QED
      BY <2>2, <2>3
  <1>6. ASSUME NEW y \in 1 .. height, y <= fb.height
        PROVE  IsSeq(resized(fb.rows[y])) /\ Len(resized(fb.rows[y])) = width
    <2>1. IsSeq(fb.rows[y]) /\ Len(fb.rows[y]) = fb.width
      <3>1. y \in 1 .. fb.height
        BY <1>1, <1>6
      <3>. QED
        BY <3>1 DEF Shape, Grid
    <2>2. CASE fb.width = width
      BY <2>1, <2>2
    <2>3. CASE fb.width # width
      <3>. DEFINE cells == resized(fb.rows[y])
      <3>1. cells = [i \in 1 .. width |-> cells[i]]
        BY <2>3
      <3>. HIDE DEF cells
      <3>. QED
        BY <3>1, FunIsSeq DEF cells
    <2>. QED
      BY <2>2, <2>3
  <1>. HIDE DEF top, bottom, tabs, same, resized
  <1>7. /\ Touches(fb, g, {"top", "bottom", "tabs", "width", "height"})
        /\ g.top = top /\ g.bottom = bottom /\ g.tabs = tabs /\ g.width = width /\ g.height = height
    <2>1. \A k \in Fields \ {"top", "bottom", "tabs", "width", "height"} : g[k] = fb[k]
      BY <1>1
    <2>2. g = [k \in Fields |-> g[k]]
      BY <1>1
    <2>3. g.top = top /\ g.bottom = bottom /\ g.tabs = tabs /\ g.width = width /\ g.height = height
      BY <1>1, FieldNames
    <2>. HIDE DEF g
    <2>. QED
      BY <2>1, <2>2, <2>3 DEF Touches
  <1>. HIDE DEF g
  <1>8. /\ g.modes = fb.modes /\ g.next_print_will_wrap = fb.next_print_will_wrap
        /\ g.cursor_col = fb.cursor_col /\ g.cursor_row = fb.cursor_row /\ g.save = fb.save
        /\ g.mouse = fb.mouse /\ g = [k \in Fields |-> g[k]]
    BY <1>7, FieldNames DEF Touches
  <1>9. Loose(g)
    BY <1>3, <1>5, <1>7, <1>8, LooseParts DEF Loose, AllModes
  <1>10. Loose(ds) /\ Within(ds) /\ Touches(g, ds, Position)
    BY <1>9, SnapFacts
  <1>11. /\ ds.modes = fb.modes /\ ds.next_print_will_wrap = fb.next_print_will_wrap
         /\ ds.top = top /\ ds.bottom = bottom /\ ds.width = width /\ ds.height = height
    BY <1>7, <1>8, <1>10, FieldNames DEF Touches, Position
  <1>12. ds = [k \in Fields |-> ds[k]]
    BY <1>10 DEF Touches
  <1>. HIDE DEF ds
  <1>13. IsSeq(NewRow(ds)) /\ Len(NewRow(ds)) = width
    BY <1>11, RowFacts DEF NewRow
  <1>14. /\ rows = [y \in 1 .. height |-> rows[y]]
         /\ \A y \in 1 .. height : IsSeq(rows[y]) /\ Len(rows[y]) = width
    <2>1. ASSUME NEW y \in 1 .. height PROVE IsSeq(rows[y]) /\ Len(rows[y]) = width
      <3>1. rows[y] = IF y <= fb.height THEN resized(fb.rows[y]) ELSE NewRow(ds)
        OBVIOUS
      <3>2. CASE y <= fb.height
        BY <1>6, <3>1, <3>2
      <3>3. CASE ~(y <= fb.height)
        BY <1>13, <3>1, <3>3
      <3>. QED
        BY <3>2, <3>3
    <2>. QED
      BY <2>1
  <1>. HIDE DEF rows
  <1>15. Grid(rows, width, height)
    BY <1>14, FunIsSeq DEF Grid
  <1>16. Touches(ds, q, {"rows"}) /\ q.rows = rows
    BY <1>2, <1>12, FieldNames DEF Touches
  <1>17. /\ q.modes = ds.modes /\ q.next_print_will_wrap = ds.next_print_will_wrap
         /\ q.top = ds.top /\ q.bottom = ds.bottom /\ q.width = ds.width /\ q.height = ds.height
         /\ q.cursor_col = ds.cursor_col /\ q.cursor_row = ds.cursor_row /\ q.save = ds.save
         /\ q.mouse = ds.mouse /\ q.tabs = ds.tabs /\ q = [k \in Fields |-> q[k]]
    BY <1>16, FieldNames DEF Touches
  <1>18. Loose(q) /\ Within(q)
    BY <1>10, <1>17 DEF Loose, Within
  <1>. QED
    BY <1>4, <1>11, <1>15, <1>16, <1>17, <1>18 DEF Shape, same

-----------------------------------------------------------------------------
(* The emulator keeps the shape *)

\* The screen as a frame expects it, but for its margins, and with them.
Modest(fb) == ~fb.modes.insert_mode /\ ~fb.modes.origin_mode /\ fb.modes.auto_wrap_mode
Plain(fb) == fb.top = 0 /\ fb.bottom = fb.height - 1 /\ Modest(fb)

LEMMA UnwrappedFacts ==
    ASSUME NEW fb, Shape(fb), NEW q, q = Unwrapped(fb)
    PROVE  /\ Keeps(fb, q) /\ Touches(fb, q, {"next_print_will_wrap"})
           /\ q.next_print_will_wrap = FALSE
           /\ q.cursor_row = fb.cursor_row /\ q.cursor_col = fb.cursor_col
  <1>1. fb = [k \in Fields |-> fb[k]] /\ q = [fb EXCEPT !.next_print_will_wrap = FALSE]
    BY CursorTypes DEF Unwrapped
  <1>2. Touches(fb, q, {"next_print_will_wrap"}) /\ q.next_print_will_wrap = FALSE
    BY <1>1, FieldNames DEF Touches
  <1>3. /\ q.cursor_row = fb.cursor_row /\ q.cursor_col = fb.cursor_col
        /\ q.width = fb.width /\ q.height = fb.height
    BY <1>2, FieldNames DEF Touches
  <1>4. Touches(fb, q, CursorFields)
    BY <1>2, TouchesMore DEF CursorFields
  <1>5. Within(q)
    BY <1>3 DEF Within, Shape
  <1>. QED
    BY <1>2, <1>3, <1>4, <1>5, ShapeMoved

\* What painting and moving leave alone.
LEMMA StillPlain ==
    ASSUME NEW fb, NEW q, Touches(fb, q, Painting)
    PROVE  /\ q.modes = fb.modes /\ q.top = fb.top /\ q.bottom = fb.bottom /\ q.height = fb.height
           /\ q.width = fb.width /\ q.mouse = fb.mouse
           /\ Plain(fb) => Plain(q)
           /\ Modest(fb) => Modest(q)
           /\ LimitTop(q) = LimitTop(fb) /\ LimitBottom(q) = LimitBottom(fb)
  <1>1. /\ q.modes = fb.modes /\ q.top = fb.top /\ q.bottom = fb.bottom /\ q.height = fb.height
        /\ q.width = fb.width /\ q.mouse = fb.mouse
    BY FieldNames DEF Touches, Painting
  <1>. QED
    BY <1>1 DEF Plain, Modest, LimitTop, LimitBottom

LEMMA PlainLimits ==
    ASSUME NEW fb, Shape(fb), Modest(fb)
    PROVE  LimitTop(fb) = 0 /\ LimitBottom(fb) = fb.height - 1
  BY Limits DEF Shape, Modest

\* Emulator::print: wraps first when a wrap is pending, then writes one cell.
LEMMA PrintFacts ==
    ASSUME NEW fb, Shape(fb), NEW ch, NEW q, q = print(fb, ch)
    PROVE  /\ Keeps(fb, q) /\ Touches(fb, q, Painting)
           /\ Plain(fb) /\ ~fb.next_print_will_wrap =>
                 /\ q.cursor_row = fb.cursor_row
                 /\ q.cursor_col = Clamp(fb.cursor_col + 1, 0, fb.width - 1)
                 /\ q.next_print_will_wrap = (fb.cursor_col + 1 >= fb.width)
           /\ Plain(fb) /\ fb.next_print_will_wrap /\ fb.cursor_row < fb.height - 1 =>
                 /\ q.cursor_row = fb.cursor_row + 1
                 /\ q.cursor_col = Clamp(1, 0, fb.width - 1)
                 /\ q.next_print_will_wrap = (1 >= fb.width)
  <1>. DEFINE wraps == fb.modes.auto_wrap_mode /\ fb.next_print_will_wrap
              p == [fb EXCEPT !.rows[fb.cursor_row + 1][fb.width].wrap = TRUE]
              m == move_col(p, 0)
              w == IF wraps THEN move_rows_autoscroll(m, 1) ELSE fb
              o == IF w.modes.insert_mode THEN insert_cells(w, 1) ELSE w
              cell == [contents |-> ch, renditions |-> o.renditions, wrap |-> FALSE]
              c == [o EXCEPT !.rows[o.cursor_row + 1][o.cursor_col + 1] = cell]
  <1>1. q = advance_col(c, 1)
    BY DEF print
  <1>2. /\ fb.cursor_row \in 0 .. fb.height - 1 /\ fb.cursor_row \in Nat /\ fb.cursor_col \in Nat
        /\ fb.width \in Nat \ {0} /\ fb.height \in Nat \ {0}
    BY CursorTypes
  <1>3. Keeps(fb, p) /\ Touches(fb, p, {"rows"})
    <2>1. p = [fb EXCEPT !.rows[fb.cursor_row + 1][fb.width] =
                  [fb.rows[fb.cursor_row + 1][fb.width] EXCEPT !.wrap = TRUE]]
      OBVIOUS
    <2>. HIDE DEF p
    <2>. QED
      BY <1>2, <2>1, PaintedCell
  <1>. HIDE DEF p
  <1>4. /\ Keeps(p, m) /\ Touches(p, m, CursorFields)
        /\ m.cursor_row = Clamp(p.cursor_row, LimitTop(p), LimitBottom(p))
        /\ m.cursor_col = Clamp(0, 0, p.width - 1)
    <2>1. Shape(p) /\ 0 \in Int
      BY <1>3 DEF Keeps
    <2>. QED
      BY <2>1, MoveCol
  <1>5. /\ p.cursor_row = fb.cursor_row /\ Touches(fb, p, Painting)
    BY <1>3, FieldNames, TouchesMore DEF Touches, Painting
  <1>6. Keeps(fb, m) /\ Touches(fb, m, Painting) /\ m.cursor_col = 0
    <2>1. Touches(p, m, Painting)
      BY <1>4, TouchesMore DEF CursorFields, Painting
    <2>2. Touches(fb, m, Painting)
      BY <1>5, <2>1, TouchesBoth
    <2>3. p.width = fb.width
      BY <1>5, StillPlain
    <2>4. Keeps(fb, m)
      BY <1>3, <1>4, KeepsBoth
    <2>5. Clamp(0, 0, p.width - 1) = 0
      BY <1>2, <2>3 DEF Clamp
    <2>. QED
      BY <1>4, <2>2, <2>4, <2>5
  <1>7. Plain(fb) => m.cursor_row = fb.cursor_row
    <2>. SUFFICES ASSUME Plain(fb) PROVE m.cursor_row = fb.cursor_row
      OBVIOUS
    <2>1. LimitTop(fb) = 0 /\ LimitBottom(fb) = fb.height - 1
      BY PlainLimits DEF Plain
    <2>2. LimitTop(p) = 0 /\ LimitBottom(p) = fb.height - 1
      BY <1>5, <2>1, StillPlain
    <2>. QED
      BY <1>2, <1>4, <1>5, <2>2 DEF Clamp
  <1>. HIDE DEF m
  <1>8. /\ Keeps(fb, w) /\ Touches(fb, w, Painting)
        /\ ~wraps => w = fb
        /\ wraps /\ Plain(fb) /\ fb.cursor_row < fb.height - 1 =>
              w.cursor_row = fb.cursor_row + 1 /\ w.cursor_col = 0
    <2>1. CASE ~wraps
      BY <2>1, Itself
    <2>2. CASE wraps
      <3>1. w = move_rows_autoscroll(m, 1)
        BY <2>2
      <3>. HIDE DEF w
      <3>2. /\ Keeps(m, w) /\ Touches(m, w, Painting) /\ w.cursor_col = m.cursor_col
            /\ m.cursor_row + 1 \in m.top .. m.bottom =>
                 w.cursor_row = Clamp(m.cursor_row + 1, LimitTop(m), LimitBottom(m))
        <4>1. Shape(m) /\ 1 \in Int
          BY <1>6 DEF Keeps
        <4>. QED
          BY <3>1, <4>1, MoveRows
      <3>3. Keeps(fb, w) /\ Touches(fb, w, Painting)
        BY <1>6, <3>2, KeepsBoth, TouchesBoth
      <3>4. ASSUME Plain(fb), fb.cursor_row < fb.height - 1
            PROVE  w.cursor_row = fb.cursor_row + 1 /\ w.cursor_col = 0
        <4>1. /\ m.cursor_row = fb.cursor_row /\ m.top = 0 /\ m.bottom = fb.height - 1
              /\ LimitTop(m) = 0 /\ LimitBottom(m) = fb.height - 1
          BY <1>6, <1>7, <3>4, StillPlain, PlainLimits DEF Plain
        <4>2. m.cursor_row + 1 \in m.top .. m.bottom
          BY <1>2, <3>4, <4>1
        <4>. QED
          BY <1>2, <1>6, <3>2, <3>4, <4>1, <4>2 DEF Clamp
      <3>. QED
        BY <2>2, <3>3, <3>4
    <2>. QED
      BY <2>1, <2>2
  <1>. HIDE DEF w
  <1>9. Keeps(w, o) /\ Touches(w, o, {"rows"}) /\ (Plain(fb) => o = w)
    <2>1. CASE w.modes.insert_mode
      <3>1. o = insert_cells(w, 1)
        BY <2>1
      <3>2. Keeps(w, o) /\ Touches(w, o, {"rows"})
        BY <1>8, <3>1, CellsInOut DEF Keeps
      <3>3. ~Plain(fb)
        BY <1>8, <2>1, StillPlain DEF Plain, Modest
      <3>. QED
        BY <3>2, <3>3
    <2>2. CASE ~w.modes.insert_mode
      BY <1>8, <2>2, Itself DEF Keeps
    <2>. QED
      BY <2>1, <2>2
  <1>. HIDE DEF o, cell
  <1>10. Keeps(o, c) /\ Touches(o, c, {"rows"})
    <2>1. Shape(o) /\ o.cursor_row \in 0 .. o.height - 1
      BY <1>9, CursorTypes DEF Keeps
    <2>. QED
      BY <2>1, PaintedCell
  <1>. HIDE DEF c
  <1>11. /\ Keeps(fb, c) /\ Touches(fb, c, Painting)
         /\ c.cursor_row = o.cursor_row /\ c.cursor_col = o.cursor_col
    <2>1. Keeps(fb, c)
      BY <1>8, <1>9, <1>10, KeepsBoth
    <2>2. Touches(w, o, Painting) /\ Touches(o, c, Painting)
      BY <1>9, <1>10, TouchesMore DEF Painting
    <2>3. Touches(fb, c, Painting)
      BY <1>8, <2>2, TouchesBoth
    <2>. QED
      BY <2>1, <2>3, <1>10, FieldNames DEF Touches
  <1>12. /\ Keeps(c, q) /\ Touches(c, q, CursorFields)
         /\ q.next_print_will_wrap = (c.cursor_col + 1 >= c.width)
         /\ q.cursor_row = Clamp(c.cursor_row, LimitTop(c), LimitBottom(c))
         /\ q.cursor_col = Clamp(c.cursor_col + 1, 0, c.width - 1)
    BY <1>1, <1>11, AdvanceCol DEF Keeps
  <1>13. Keeps(fb, q) /\ Touches(fb, q, Painting)
    <2>1. Touches(c, q, Painting)
      BY <1>12, TouchesMore DEF CursorFields, Painting
    <2>. QED
      BY <1>11, <1>12, <2>1, KeepsBoth, TouchesBoth
  <1>14. ASSUME Plain(fb)
         PROVE  /\ LimitTop(c) = 0 /\ LimitBottom(c) = fb.height - 1 /\ c.width = fb.width
                /\ c.cursor_row = w.cursor_row /\ c.cursor_col = w.cursor_col
                /\ wraps <=> fb.next_print_will_wrap
    <2>1. LimitTop(fb) = 0 /\ LimitBottom(fb) = fb.height - 1
      BY <1>14, PlainLimits DEF Plain
    <2>2. LimitTop(c) = 0 /\ LimitBottom(c) = fb.height - 1 /\ c.width = fb.width
      BY <1>11, <2>1, StillPlain
    <2>3. wraps <=> fb.next_print_will_wrap
      BY <1>14 DEF Plain, Modest
    <2>. QED
      BY <1>9, <1>11, <1>14, <2>2, <2>3
  <1>15. ASSUME Plain(fb), ~fb.next_print_will_wrap
         PROVE  /\ q.cursor_row = fb.cursor_row
                /\ q.cursor_col = Clamp(fb.cursor_col + 1, 0, fb.width - 1)
                /\ q.next_print_will_wrap = (fb.cursor_col + 1 >= fb.width)
    <2>1. c.cursor_row = fb.cursor_row /\ c.cursor_col = fb.cursor_col
      BY <1>8, <1>14, <1>15
    <2>2. Clamp(fb.cursor_row, 0, fb.height - 1) = fb.cursor_row
      BY <1>2 DEF Clamp
    <2>. QED
      BY <1>12, <1>14, <1>15, <2>1, <2>2
  <1>16. ASSUME Plain(fb), fb.next_print_will_wrap, fb.cursor_row < fb.height - 1
         PROVE  /\ q.cursor_row = fb.cursor_row + 1
                /\ q.cursor_col = Clamp(1, 0, fb.width - 1)
                /\ q.next_print_will_wrap = (1 >= fb.width)
    <2>1. c.cursor_row = fb.cursor_row + 1 /\ c.cursor_col = 0
      BY <1>8, <1>14, <1>16
    <2>2. Clamp(fb.cursor_row + 1, 0, fb.height - 1) = fb.cursor_row + 1
      BY <1>2, <1>16 DEF Clamp
    <2>3. 0 + 1 = 1
      OBVIOUS
    <2>. QED
      BY <1>12, <1>14, <1>16, <2>1, <2>2, <2>3
  <1>. QED
    BY <1>13, <1>15, <1>16

LEMMA RowsKept ==
    ASSUME NEW fb, Shape(fb), NEW g, NEW q, Keeps(fb, g), Touches(fb, g, {"rows"}),
           Keeps(g, q), Touches(g, q, {"rows"})
    PROVE  Keeps(fb, q) /\ Touches(fb, q, {"rows"})
  BY KeepsBoth, TouchesBoth

LEMMA EraseLine ==
    ASSUME NEW fb, Shape(fb), NEW p, NEW q, q = CSI_EL(fb, p)
    PROVE  Keeps(fb, q) /\ Touches(fb, q, {"rows"})
  <1>. DEFINE n == getparam(p, 1, 0)
  <1>1. fb.cursor_row \in 0 .. fb.height - 1
    BY CursorTypes
  <1>2. CASE n = 0
    <2>1. q = ResetCells(fb, fb.cursor_row, fb.cursor_col .. fb.width - 1)
      BY <1>2 DEF CSI_EL
    <2>. QED
      BY <1>1, <2>1, ResetCellsFacts
  <1>3. CASE n = 1
    <2>1. q = ResetCells(fb, fb.cursor_row, 0 .. fb.cursor_col)
      BY <1>3 DEF CSI_EL
    <2>. QED
      BY <1>1, <2>1, ResetCellsFacts
  <1>4. CASE n = 2
    <2>1. q = ResetRow(fb, fb.cursor_row)
      BY <1>4 DEF CSI_EL
    <2>. QED
      BY <1>1, <2>1, ResetRowFacts
  <1>5. CASE n \notin {0, 1, 2}
    <2>1. q = fb
      BY <1>5 DEF CSI_EL
    <2>. QED
      BY <2>1, Itself
  <1>. QED
    BY <1>2, <1>3, <1>4, <1>5

LEMMA EraseDisplay ==
    ASSUME NEW fb, Shape(fb), NEW p, NEW q, q = CSI_ED(fb, p)
    PROVE  Keeps(fb, q) /\ Touches(fb, q, {"rows"})
  <1>. DEFINE n == getparam(p, 1, 0)
              a == CSI_EL(fb, <<0>>)
              b == CSI_EL(fb, <<1>>)
  <1>1. Keeps(fb, a) /\ Touches(fb, a, {"rows"}) /\ Keeps(fb, b) /\ Touches(fb, b, {"rows"})
    BY EraseLine
  <1>2. CASE n = 0
    <2>1. q = ResetRows(a, fb.cursor_row + 1 .. fb.height - 1)
      BY <1>2 DEF CSI_ED
    <2>. HIDE DEF a
    <2>2. Keeps(a, q) /\ Touches(a, q, {"rows"})
      BY <1>1, <2>1, ResetRowsFacts DEF Keeps
    <2>. QED
      BY <1>1, <2>2, RowsKept
  <1>3. CASE n = 1
    <2>1. q = ResetRows(b, 0 .. fb.cursor_row - 1)
      BY <1>3 DEF CSI_ED
    <2>. HIDE DEF b
    <2>2. Keeps(b, q) /\ Touches(b, q, {"rows"})
      BY <1>1, <2>1, ResetRowsFacts DEF Keeps
    <2>. QED
      BY <1>1, <2>2, RowsKept
  <1>4. CASE n = 2
    <2>1. q = ResetRows(fb, 0 .. fb.height - 1)
      BY <1>4 DEF CSI_ED
    <2>. QED
      BY <2>1, ResetRowsFacts
  <1>5. CASE n \notin {0, 1, 2}
    <2>1. q = fb
      BY <1>5 DEF CSI_ED
    <2>. QED
      BY <2>1, Itself
  <1>. QED
    BY <1>2, <1>3, <1>4, <1>5

LEMMA EraseCells ==
    ASSUME NEW fb, Shape(fb), NEW p, NEW q, q = CSI_ECH(fb, p)
    PROVE  Keeps(fb, q) /\ Touches(fb, q, {"rows"})
  <1>1. fb.cursor_row \in 0 .. fb.height - 1
    BY CursorTypes
  <1>2. PICK limit : q = ResetCells(fb, fb.cursor_row, fb.cursor_col .. limit)
    BY DEF CSI_ECH
  <1>. QED
    BY <1>1, <1>2, ResetCellsFacts

LEMMA Aligned ==
    ASSUME NEW fb, Shape(fb), NEW q, q = Esc_DECALN(fb) PROVE Keeps(fb, q)
  <1>. DEFINE v == [Cell(fb.renditions.bg) EXCEPT !.contents = "E"]
              row == Filled(fb.width, v)
              lines == Filled(fb.height, row)
  <1>1. fb.width \in Nat /\ fb.height \in Nat
    BY CursorTypes
  <1>2. q = [fb EXCEPT !.rows = lines]
    BY DEF Esc_DECALN
  <1>. HIDE DEF v
  <1>3. IsSeq(row) /\ Len(row) = fb.width
    BY <1>1, FilledFacts
  <1>. HIDE DEF row
  <1>4. IsSeq(lines) /\ Len(lines) = fb.height /\ \A i \in 1 .. fb.height : lines[i] = row
    BY <1>1, FilledFacts
  <1>. HIDE DEF lines
  <1>5. Lines(lines, fb.width)
    BY <1>3, <1>4 DEF Lines
  <1>. QED
    BY <1>2, <1>4, <1>5, Painted

LEMMA IntParam ==
    ASSUME NEW p \in Seq(Int), NEW n \in Nat \ {0}, NEW default \in Int
    PROVE  getparam(p, n, default) \in Int /\ (default >= 1 => getparam(p, n, default) >= 1)
  <1>1. Len(p) >= n => p[n] \in Int
    OBVIOUS
  <1>. QED
    BY <1>1 DEF getparam

\* CUP and its kind.
LEMMA CursorPosition ==
    ASSUME NEW fb, Shape(fb), NEW y \in Int, NEW x \in Int,
           NEW q, q = move_col(move_row(fb, y), x)
    PROVE  /\ Keeps(fb, q) /\ Touches(fb, q, CursorFields) /\ q.next_print_will_wrap = FALSE
           /\ Modest(fb) => /\ q.cursor_row = Clamp(y, 0, fb.height - 1)
                            /\ q.cursor_col = Clamp(x, 0, fb.width - 1)
  <1>. DEFINE m == move_row(fb, y)
  <1>1. /\ Keeps(fb, m) /\ Touches(fb, m, CursorFields)
        /\ m.cursor_row = Clamp(y + LimitTop(fb), LimitTop(fb), LimitBottom(fb))
    BY MoveRow
  <1>. HIDE DEF m
  <1>2. q = move_col(m, x) /\ Shape(m)
    BY <1>1 DEF Keeps, m
  <1>3. /\ Keeps(m, q) /\ Touches(m, q, CursorFields) /\ q.next_print_will_wrap = FALSE
        /\ q.cursor_row = Clamp(m.cursor_row, LimitTop(m), LimitBottom(m))
        /\ q.cursor_col = Clamp(x, 0, m.width - 1)
    BY <1>2, MoveCol
  <1>4. Keeps(fb, q) /\ Touches(fb, q, CursorFields)
    BY <1>1, <1>3, KeepsBoth, TouchesBoth
  <1>5. ASSUME Modest(fb)
        PROVE  /\ q.cursor_row = Clamp(y, 0, fb.height - 1)
               /\ q.cursor_col = Clamp(x, 0, fb.width - 1)
    <2>1. LimitTop(fb) = 0 /\ LimitBottom(fb) = fb.height - 1 /\ fb.height \in Nat \ {0}
      BY <1>5, PlainLimits, CursorTypes
    <2>2. Touches(fb, m, Painting)
      BY <1>1, TouchesMore DEF CursorFields, Painting
    <2>3. LimitTop(m) = 0 /\ LimitBottom(m) = fb.height - 1 /\ m.width = fb.width
      BY <2>1, <2>2, StillPlain
    <2>4. y + 0 = y /\ m.cursor_row = Clamp(y, 0, fb.height - 1)
      BY <1>1, <2>1
    <2>5. Clamp(m.cursor_row, 0, fb.height - 1) = m.cursor_row
      BY <2>1, <2>4 DEF Clamp
    <2>. QED
      BY <1>3, <2>3, <2>4, <2>5
  <1>. QED
    BY <1>3, <1>4, <1>5

\* Without origin mode that is where the rows and columns say.
CursorAt(fb, q, y, x) ==
    q.cursor_row = Clamp(y, 0, fb.height - 1) /\ q.cursor_col = Clamp(x, 0, fb.width - 1)

LEMMA CursorMoved ==
    ASSUME NEW fb, Shape(fb), NEW y \in Int, NEW x \in Int, NEW q, q = move_col(move_row(fb, y), x)
    PROVE  Keeps(fb, q) /\ Touches(fb, q, CursorFields) /\ q.next_print_will_wrap = FALSE
  BY CursorPosition

LEMMA CursorThere ==
    ASSUME NEW fb, Shape(fb), Modest(fb), NEW y \in Int, NEW x \in Int,
           NEW q, q = move_col(move_row(fb, y), x)
    PROVE  CursorAt(fb, q, y, x)
  BY CursorPosition DEF CursorAt

LEMMA TabsSet ==
    ASSUME NEW fb, Shape(fb), NEW tabs, tabs \subseteq 0 .. fb.width - 1, NEW q,
           Touches(fb, q, {"tabs", "default_tabs"}), q.tabs = tabs
    PROVE  Keeps(fb, q)
  <1>1. Touches(fb, q, Fields \ {"width", "height", "rows"})
    BY TouchesMore DEF Fields
  <1>2. /\ q.modes = fb.modes /\ q.cursor_col = fb.cursor_col /\ q.cursor_row = fb.cursor_row
        /\ q.top = fb.top /\ q.bottom = fb.bottom /\ q.save = fb.save /\ q.mouse = fb.mouse
    BY FieldNames DEF Touches
  <1>. QED
    BY <1>1, <1>2, LooseParts, LooseSet

LEMMA ClearTabs ==
    ASSUME NEW fb, Shape(fb), NEW p, NEW q,
           q = CSI_TBC(fb, p) \/ q = [fb EXCEPT !.tabs = @ \union {fb.cursor_col}]
    PROVE  Keeps(fb, q)
  <1>1. /\ fb = [k \in Fields |-> fb[k]] /\ fb.tabs \subseteq 0 .. fb.width - 1
        /\ fb.cursor_col \in 0 .. fb.width - 1
    BY CursorTypes, LooseParts
  <1>2. \/ q = fb
        \/ q = [fb EXCEPT !.tabs = @ \ {fb.cursor_col}]
        \/ q = [fb EXCEPT !.tabs = @ \union {fb.cursor_col}]
        \/ q = [fb EXCEPT !.default_tabs = FALSE, !.tabs = {}]
    BY DEF CSI_TBC
  <1>3. Touches(fb, q, {"tabs", "default_tabs"})
    BY <1>1, <1>2, FieldNames DEF Touches
  <1>4. q.tabs \in {fb.tabs, fb.tabs \ {fb.cursor_col}, fb.tabs \cup {fb.cursor_col}, {}}
    BY <1>1, <1>2, FieldNames
  <1>5. q.tabs \subseteq 0 .. fb.width - 1
    BY <1>1, <1>4
  <1>. QED
    BY <1>3, <1>5, TabsSet

\* DECSTBM; without parameters it makes the screen plain.
LEMMA Margins ==
    ASSUME NEW fb, Shape(fb), NEW p \in Seq(Int), NEW q, q = CSI_DECSTBM(fb, p)
    PROVE  /\ Keeps(fb, q)
           /\ Modest(fb) => Modest(q) /\ q.mouse = fb.mouse
           /\ Modest(fb) /\ p = <<>> /\ fb.height > 1 => Plain(q)
           /\ Plain(fb) /\ p = <<>> => Plain(q)
           /\ fb.next_print_will_wrap = FALSE => q.next_print_will_wrap = FALSE
  <1>. DEFINE top == getparam(p, 1, 1)
              bottom == getparam(p, 2, fb.height)
              r == set_scrolling_region(fb, top - 1, bottom - 1)
  <1>1. fb.height \in Nat \ {0}
    BY CursorTypes
  <1>2. top \in Int /\ bottom \in Int /\ top >= 1
    <2>1. 1 \in Nat \ {0} /\ 2 \in Nat \ {0} /\ 1 \in Int /\ 1 >= 1 /\ fb.height \in Int
      BY <1>1
    <2>2. top \in Int /\ top >= 1
      BY <2>1, IntParam
    <2>3. bottom \in Int
      BY <2>1, IntParam
    <2>. QED
      BY <2>2, <2>3
  <1>3. p = <<>> => top = 1 /\ bottom = fb.height
    BY DEF getparam
  <1>. HIDE DEF top, bottom
  <1>4. CASE bottom <= top \/ top > fb.height
    <2>1. q = fb
      BY <1>4 DEF CSI_DECSTBM, top, bottom
    <2>2. ~(p = <<>> /\ fb.height > 1)
      BY <1>1, <1>3, <1>4
    <2>. QED
      BY <2>1, <2>2, Itself
  <1>5. CASE ~(bottom <= top \/ top > fb.height)
    <2>1. q = move_col(move_row(r, 0), 0)
      BY <1>5 DEF CSI_DECSTBM, top, bottom
    <2>2. top - 1 \in Int /\ bottom - 1 \in Int /\ top - 1 <= fb.height - 1 /\ top - 1 >= 0
      BY <1>1, <1>2, <1>5
    <2>3. /\ Keeps(fb, r) /\ Touches(fb, r, {"top", "bottom", "cursor_row", "cursor_col"})
          /\ bottom - 1 \in top - 1 .. fb.height - 1 => r.top = top - 1 /\ r.bottom = bottom - 1
      BY <2>2, ScrollingRegion
    <2>. HIDE DEF r
    <2>4. Shape(r)
      BY <2>3 DEF Keeps
    <2>5. Keeps(r, q) /\ Touches(r, q, CursorFields) /\ q.next_print_will_wrap = FALSE
      BY <2>1, <2>4, 0 \in Int, CursorPosition
    <2>6. Keeps(fb, q)
      BY <2>3, <2>5, KeepsBoth
    <2>7. q.modes = fb.modes /\ q.mouse = fb.mouse
      BY <2>3, <2>5, FieldNames DEF Touches, CursorFields
    <2>8. q.top = r.top /\ q.bottom = r.bottom /\ q.height = fb.height
      BY <2>5, <2>6, FieldNames DEF Touches, CursorFields, Keeps, SameSizes
    <2>9. p = <<>> => q.top = 0 /\ q.bottom = q.height - 1
      BY <1>1, <1>3, <1>5, <2>3, <2>8
    <2>. QED
      BY <2>5, <2>6, <2>7, <2>9 DEF Modest, Plain
  <1>. QED
    BY <1>4, <1>5

-----------------------------------------------------------------------------
(* Modes *)

\* The modes a frame sets.
Harmless == {5, 9, 25, 1004, 1005, 1006, 1015, 2004} \cup 1000 .. 1003

LEMMA ModeNamed ==
    /\ \A n \in DOMAIN DECMode : DECMode[n] \in ModeNames
    /\ {1, 5, 6, 7, 25, 1004, 1007, 2004} = DOMAIN DECMode
    /\ \A n \in {5, 25, 1004, 2004} :
          DECMode[n] \notin {"insert_mode", "origin_mode", "auto_wrap_mode"}
  BY DEF DECMode, ModeNames

LEMMA MouseSet ==
    ASSUME NEW fb, Shape(fb), NEW mouse \in MouseModes, NEW q, q = [fb EXCEPT !.mouse = mouse]
    PROVE  Keeps(fb, q) /\ Touches(fb, q, {"mouse"})
  <1>1. fb = [k \in Fields |-> fb[k]]
    BY CursorTypes
  <1>2. Touches(fb, q, {"mouse"}) /\ q.mouse = mouse
    BY <1>1, FieldNames DEF Touches
  <1>3. Touches(fb, q, Fields \ {"width", "height", "rows"})
    BY <1>2, TouchesMore DEF Fields
  <1>4. /\ q.modes = fb.modes /\ q.cursor_col = fb.cursor_col /\ q.cursor_row = fb.cursor_row
        /\ q.top = fb.top /\ q.bottom = fb.bottom /\ q.save = fb.save /\ q.tabs = fb.tabs
    BY <1>2, FieldNames DEF Touches
  <1>. QED
    BY <1>2, <1>3, <1>4, LooseParts, LooseSet

LEMMA PrivateMode ==
    ASSUME NEW fb, Shape(fb), NEW n, NEW value, NEW q, q = DECPrivate(fb, n, value)
    PROVE  /\ Keeps(fb, q)
           /\ n \in Harmless => /\ Touches(fb, q, {"modes", "mouse"})
                                /\ q.modes.insert_mode = fb.modes.insert_mode
                                /\ q.modes.origin_mode = fb.modes.origin_mode
                                /\ q.modes.auto_wrap_mode = fb.modes.auto_wrap_mode
  <1>. DEFINE home == IF n \in {3, 6} THEN move_col(move_row(fb, 0), 0) ELSE fb
  <1>1. Keeps(fb, home) /\ (n \in Harmless => home = fb)
    <2>1. CASE n \in {3, 6}
      <3>1. Keeps(fb, home)
        BY <2>1, 0 \in Int, CursorPosition
      <3>. QED
        BY <2>1, <3>1 DEF Harmless
    <2>2. CASE n \notin {3, 6}
      BY <2>2, Itself
    <2>. QED
      BY <2>1, <2>2
  <1>. HIDE DEF home
  <1>2. CASE n = 9 \/ n \in 1000 .. 1003
    <2>. DEFINE mouse == [fb.mouse EXCEPT !.reporting = IF value THEN n ELSE 0]
    <2>1. q = [fb EXCEPT !.mouse = mouse]
      <3>1. n \notin {1005, 1006, 1015} /\ n # 3 /\ n \notin DOMAIN DECMode
        BY <1>2, ModeNamed
      <3>. QED
        BY <1>2, <3>1 DEF DECPrivate
    <2>2. n \in {9, 1000, 1001, 1002, 1003}
      BY <1>2
    <2>3. mouse \in MouseModes
      BY <2>2, LooseParts DEF MouseModes
    <2>. HIDE DEF mouse
    <2>4. Keeps(fb, q) /\ Touches(fb, q, {"mouse"})
      BY <2>1, <2>3, MouseSet
    <2>5. Touches(fb, q, {"modes", "mouse"}) /\ q.modes = fb.modes
      BY <2>4, FieldNames, TouchesMore DEF Touches
    <2>. QED
      BY <2>4, <2>5
  <1>3. CASE n \in {1005, 1006, 1015}
    <2>. DEFINE mouse == [fb.mouse EXCEPT !.encoding = IF value THEN n ELSE 0]
    <2>1. q = [fb EXCEPT !.mouse = mouse]
      <3>1. ~(n = 9 \/ n \in 1000 .. 1003) /\ n # 3 /\ n \notin DOMAIN DECMode
        BY <1>3, ModeNamed
      <3>. QED
        BY <1>3, <3>1 DEF DECPrivate
    <2>2. mouse \in MouseModes
      BY <1>3, LooseParts DEF MouseModes
    <2>. HIDE DEF mouse
    <2>3. Keeps(fb, q) /\ Touches(fb, q, {"mouse"})
      BY <2>1, <2>2, MouseSet
    <2>4. Touches(fb, q, {"modes", "mouse"}) /\ q.modes = fb.modes
      BY <2>3, FieldNames, TouchesMore DEF Touches
    <2>. QED
      BY <2>3, <2>4
  <1>4. CASE n = 3
    <2>1. q = ResetRows(home, 0 .. fb.height - 1)
      <3>1. /\ ~(n = 9 \/ n \in 1000 .. 1003) /\ n \notin {1005, 1006, 1015}
            /\ n \notin DOMAIN DECMode
        BY <1>4, ModeNamed
      <3>. QED
        BY <1>4, <3>1 DEF DECPrivate, home
    <2>2. Keeps(home, q)
      BY <1>1, <2>1, ResetRowsFacts DEF Keeps
    <2>. QED
      BY <1>1, <1>4, <2>2, KeepsBoth DEF Harmless
  <1>5. CASE n \in DOMAIN DECMode
    <2>. DEFINE m == DECMode[n]
    <2>1. q = [home EXCEPT !.modes[m] = value]
      <3>1. ~(n = 9 \/ n \in 1000 .. 1003) /\ n \notin {1005, 1006, 1015} /\ n # 3
        BY <1>5, ModeNamed
      <3>. QED
        BY <1>5, <3>1 DEF DECPrivate, home
    <2>2. m \in ModeNames
      BY <1>5, ModeNamed
    <2>3. n \in Harmless => m \notin {"insert_mode", "origin_mode", "auto_wrap_mode"}
      <3>1. n \in Harmless => n \in {5, 25, 1004, 2004}
        BY <1>5, ModeNamed DEF Harmless
      <3>. QED
        BY <3>1, ModeNamed
    <2>. HIDE DEF m
    <2>4. /\ Keeps(home, q) /\ Touches(home, q, {"modes"})
          /\ \A k \in ModeNames \ {m} : q.modes[k] = home.modes[k]
      BY <1>1, <2>1, <2>2, ModeSet DEF Keeps
    <2>5. Keeps(fb, q)
      BY <1>1, <2>4, KeepsBoth
    <2>6. ASSUME n \in Harmless
          PROVE  /\ Touches(fb, q, {"modes", "mouse"})
                 /\ q.modes.insert_mode = fb.modes.insert_mode
                 /\ q.modes.origin_mode = fb.modes.origin_mode
                 /\ q.modes.auto_wrap_mode = fb.modes.auto_wrap_mode
      <3>1. home = fb /\ m \notin {"insert_mode", "origin_mode", "auto_wrap_mode"}
        BY <1>1, <2>3, <2>6
      <3>2. Touches(fb, q, {"modes", "mouse"})
        BY <2>4, <3>1, TouchesMore
      <3>3. {"insert_mode", "origin_mode", "auto_wrap_mode"} \subseteq ModeNames
        BY DEF ModeNames
      <3>. QED
        BY <2>4, <3>1, <3>2, <3>3
    <2>. QED
      BY <2>5, <2>6
  <1>6. CASE /\ ~(n = 9 \/ n \in 1000 .. 1003) /\ n \notin {1005, 1006, 1015} /\ n # 3
             /\ n \notin DOMAIN DECMode
    <2>1. q = fb
      BY <1>6 DEF DECPrivate
    <2>. QED
      BY <2>1, Itself
  <1>. QED
    BY <1>2, <1>3, <1>4, <1>5, <1>6

ModesStep(q, value, r, i) == DECPrivate(r, q[i], value)

LEMMA InductionFrom ==
    ASSUME NEW from \in Int, NEW to \in Int, from <= to, NEW T, from \in T,
           \A k \in from .. to - 1 : k \in T => k + 1 \in T
    PROVE  from .. to \subseteq T
  <1>. DEFINE n == to - from
              U == {m \in 0 .. n : from + m \in T}
  <1>1. n \in Nat /\ from + 0 = from
    OBVIOUS
  <1>2. 0 \in U
    BY <1>1
  <1>3. ASSUME NEW m \in 0 .. n - 1, m \in U PROVE m + 1 \in U
    <2>1. /\ from + m \in from .. to - 1 /\ from + (m + 1) = (from + m) + 1
          /\ m + 1 \in 0 .. n
      BY <1>1
    <2>. QED
      BY <1>3, <2>1
  <1>. HIDE DEF U
  <1>4. 0 .. n \subseteq U
    <2>. HIDE DEF n
    <2>. QED
      BY <1>1, <1>2, <1>3, Induction
  <1>5. ASSUME NEW k \in from .. to PROVE k \in T
    <2>1. k - from \in 0 .. n /\ from + (k - from) = k
      OBVIOUS
    <2>2. k - from \in U
      BY <1>4, <2>1
    <2>. QED
      BY <2>1, <2>2 DEF U
  <1>. QED
    BY <1>5

\* The parameters of one sequence, one after the other.
ModesValue(q, value, b, from, r, i) == IF i = from THEN b ELSE ModesStep(q, value, r[i - 1], i)
ModesSteps(q, value, b, from, to, r) == r = [i \in from .. to |-> ModesValue(q, value, b, from, r, i)]

LEMMA ModesRuns ==
    ASSUME NEW q, NEW value, NEW b, NEW from \in Int, NEW to \in Int, from <= to
    PROVE  \E r : ModesSteps(q, value, b, from, to, r)
  <1>. DEFINE T == {k \in from .. to : \E r : ModesSteps(q, value, b, from, k, r)}
  <1>1. from \in T
    <2>. DEFINE r == [i \in from .. from |-> b]
    <2>1. r = [i \in from .. from |-> r[i]] /\ \A i \in from .. from : r[i] = b /\ i = from
      OBVIOUS
    <2>. HIDE DEF r
    <2>2. \A i \in from .. from : r[i] = ModesValue(q, value, b, from, r, i)
      BY <2>1 DEF ModesValue
    <2>3. ModesSteps(q, value, b, from, from, r)
      BY <2>1, <2>2 DEF ModesSteps
    <2>4. from \in from .. to
      OBVIOUS
    <2>. QED
      BY <2>3, <2>4
  <1>2. ASSUME NEW k \in from .. to - 1, k \in T PROVE k + 1 \in T
    <2>1. PICK p : ModesSteps(q, value, b, from, k, p)
      BY <1>2
    <2>. DEFINE r == [i \in from .. k + 1 |->
                        IF i = k + 1 THEN ModesStep(q, value, p[i - 1], i) ELSE p[i]]
    <2>2. k \in Int /\ from <= k /\ k + 1 \in from .. to
      OBVIOUS
    <2>3. \A i \in from .. k : p[i] = ModesValue(q, value, b, from, p, i)
      BY <2>1 DEF ModesSteps
    <2>4. /\ r = [i \in from .. k + 1 |-> r[i]]
          /\ \A i \in from .. k + 1 :
                r[i] = IF i = k + 1 THEN ModesStep(q, value, p[i - 1], i) ELSE p[i]
      OBVIOUS
    <2>. HIDE DEF r, T
    <2>5. ASSUME NEW i \in from .. k + 1 PROVE r[i] = ModesValue(q, value, b, from, r, i)
      <3>1. i # from => i - 1 \in from .. k + 1 /\ i - 1 # k + 1
        BY <2>2
      <3>2. i # from => r[i - 1] = p[i - 1]
        BY <2>4, <3>1
      <3>3. CASE i = k + 1
        <4>1. i # from
          BY <2>2, <3>3
        <4>. QED
          BY <2>4, <3>2, <3>3, <4>1 DEF ModesValue
      <3>4. CASE i # k + 1
        <4>1. i \in from .. k
          BY <2>2, <3>4
        <4>2. r[i] = p[i] /\ p[i] = ModesValue(q, value, b, from, p, i)
          BY <2>3, <2>4, <3>4, <4>1
        <4>. QED
          BY <3>2, <4>2 DEF ModesValue
      <3>. QED
        BY <3>3, <3>4
    <2>6. ModesSteps(q, value, b, from, k + 1, r)
      BY <2>4, <2>5 DEF ModesSteps
    <2>. QED
      BY <2>2, <2>6 DEF T
  <1>. HIDE DEF T
  <1>3. from .. to \subseteq T
    BY <1>1, <1>2, InductionFrom
  <1>4. to \in T
    BY <1>3
  <1>. QED
    BY <1>4 DEF T

LEMMA ModesUnfold ==
    ASSUME NEW q, NEW value, NEW b, NEW from \in Int, NEW to \in Int, from <= to,
           NEW R, ModesSteps(q, value, b, from, to, R)
    PROVE  /\ R[from] = b
           /\ \A i \in from + 1 .. to : R[i] = ModesStep(q, value, R[i - 1], i)
  <1>1. \A i \in from .. to : R[i] = ModesValue(q, value, b, from, R, i)
    BY DEF ModesSteps
  <1>2. from \in from .. to /\ \A i \in from + 1 .. to : i \in from .. to /\ i # from
    OBVIOUS
  <1>. QED
    BY <1>1, <1>2 DEF ModesValue

LEMMA PrivateModes ==
    ASSUME NEW fb, Shape(fb), NEW p, IsSeq(p), NEW value, NEW q, q = DECModes(fb, p, value)
    PROVE  /\ Keeps(fb, q)
           /\ \A n \in Harmless :
                 p = <<n>> => /\ Touches(fb, q, {"modes", "mouse"})
                              /\ q.modes.insert_mode = fb.modes.insert_mode
                              /\ q.modes.origin_mode = fb.modes.origin_mode
                              /\ q.modes.auto_wrap_mode = fb.modes.auto_wrap_mode
  <1>. DEFINE s == Params(p)
              n == Len(s)
              R == CHOOSE r : ModesSteps(s, value, fb, 0, n, r)
  <1>1. IsSeq(s) /\ n \in Nat
    <2>1. IsSeq(<<-1>>)
      BY <<-1>> \in Seq({-1}), SeqIsSeq
    <2>. QED
      BY <2>1, SeqFacts DEF Params
  <1>2. q = R[n]
    BY DEF DECModes, ModesSteps, ModesValue, ModesStep
  <1>3. R[0] = fb /\ \A i \in 1 .. n : R[i] = DECPrivate(R[i - 1], s[i], value)
    <2>. HIDE DEF R, n, s
    <2>1. 0 \in Int /\ n \in Int /\ 0 <= n
      BY <1>1
    <2>2. \E r : ModesSteps(s, value, fb, 0, n, r)
      BY <2>1, ModesRuns
    <2>3. ModesSteps(s, value, fb, 0, n, R)
      BY <2>2 DEF R
    <2>4. R[0] = fb /\ \A i \in 0 + 1 .. n : R[i] = ModesStep(s, value, R[i - 1], i)
      BY <2>1, <2>3, ModesUnfold
    <2>. QED
      BY <2>4 DEF ModesStep
  <1>. HIDE DEF R, n, s
  <1>. DEFINE T == {m \in 0 .. n : Keeps(fb, R[m])}
  <1>4. 0 \in T
    BY <1>1, <1>3, Itself
  <1>5. ASSUME NEW m \in 0 .. n - 1, m \in T PROVE m + 1 \in T
    <2>1. m + 1 \in 1 .. n /\ m + 1 \in 0 .. n /\ (m + 1) - 1 = m
      BY <1>1
    <2>2. R[m + 1] = DECPrivate(R[m], s[m + 1], value)
      BY <1>3, <2>1
    <2>3. Keeps(fb, R[m]) /\ Shape(R[m])
      BY <1>5 DEF Keeps
    <2>4. Keeps(R[m], R[m + 1])
      BY <2>2, <2>3, PrivateMode
    <2>5. Keeps(fb, R[m + 1])
      BY <2>3, <2>4, KeepsBoth
    <2>. QED
      BY <2>1, <2>5
  <1>6. Keeps(fb, q)
    <2>. HIDE DEF T
    <2>1. 0 .. n \subseteq T
      BY <1>1, <1>4, <1>5, Induction
    <2>2. n \in T
      BY <1>1, <2>1
    <2>. QED
      BY <1>2, <2>2 DEF T
  <1>7. ASSUME NEW k \in Harmless, p = <<k>>
        PROVE  /\ Touches(fb, q, {"modes", "mouse"})
               /\ q.modes.insert_mode = fb.modes.insert_mode
               /\ q.modes.origin_mode = fb.modes.origin_mode
               /\ q.modes.auto_wrap_mode = fb.modes.auto_wrap_mode
    <2>1. s = <<k>>
      BY <1>7 DEF s, Params
    <2>2. n = 1 /\ s[1] = k
      BY <2>1 DEF n
    <2>3. q = DECPrivate(fb, k, value)
      BY <1>2, <1>3, <2>2
    <2>. QED
      BY <2>3, PrivateMode
  <1>. QED
    BY <1>6, <1>7

LEMMA InsertModes ==
    ASSUME NEW fb, Shape(fb), NEW p, NEW value, NEW q, q = ANSIModes(fb, p, value)
    PROVE  Keeps(fb, q)
  <1>1. CASE q = fb
    BY <1>1, Itself
  <1>2. CASE q = [fb EXCEPT !.modes.insert_mode = value]
    <2>1. q = [fb EXCEPT !.modes["insert_mode"] = value] /\ "insert_mode" \in ModeNames
      BY <1>2 DEF ModeNames
    <2>. QED
      BY <2>1, ModeSet
  <1>. QED
    BY <1>1, <1>2 DEF ANSIModes

\* What is neither cells, cursor nor modes.
LEMMA RenditionSet ==
    ASSUME NEW fb, Shape(fb), NEW v, NEW q, q = [fb EXCEPT !.renditions = v]
    PROVE  Keeps(fb, q) /\ Touches(fb, q, {"renditions"})
  <1>1. fb = [k \in Fields |-> fb[k]]
    BY CursorTypes
  <1>2. Touches(fb, q, {"renditions"})
    BY <1>1, FieldNames DEF Touches
  <1>. QED
    BY <1>2, TouchesMore, Dressed

LEMMA RenditionFacts ==
    ASSUME NEW fb, Shape(fb), NEW p, NEW q, q = CSI_SGR(fb, p)
    PROVE  Keeps(fb, q) /\ Touches(fb, q, {"renditions"})
  <1>1. \E v : q = [fb EXCEPT !.renditions = v]
    BY Zenon DEF CSI_SGR
  <1>. QED
    BY <1>1, RenditionSet

LEMMA BellFacts ==
    ASSUME NEW fb, Shape(fb), NEW q, q = [fb EXCEPT !.bell_count = @ + 1]
    PROVE  Keeps(fb, q) /\ Touches(fb, q, {"bell_count"})
  <1>1. fb = [k \in Fields |-> fb[k]]
    BY CursorTypes
  <1>2. Touches(fb, q, {"bell_count"})
    BY <1>1, FieldNames DEF Touches
  <1>. QED
    BY <1>2, TouchesMore, Dressed

TitleFields == {"icon_name", "window_title", "clipboard", "title_initialized"}

LEMMA TitlesSet ==
    ASSUME NEW fb, Shape(fb), NEW cmd, NEW s, NEW q, q = OSC_dispatch(fb, cmd, s)
    PROVE  Keeps(fb, q) /\ Touches(fb, q, TitleFields)
  <1>1. fb = [k \in Fields |-> fb[k]]
    BY CursorTypes
  <1>2. Touches(fb, q, TitleFields)
    <2>1. ASSUME NEW v, q = [fb EXCEPT !.clipboard = v] PROVE Touches(fb, q, TitleFields)
      BY <1>1, <2>1, FieldNames DEF Touches, TitleFields
    <2>2. ASSUME NEW t, NEW i, NEW w,
                 q = [fb EXCEPT !.title_initialized = t, !.icon_name = i, !.window_title = w]
          PROVE  Touches(fb, q, TitleFields)
      BY <1>1, <2>2, FieldNames DEF Touches, TitleFields
    <2>3. \/ \E v : q = [fb EXCEPT !.clipboard = v]
          \/ \E t, i, w :
                q = [fb EXCEPT !.title_initialized = t, !.icon_name = i, !.window_title = w]
      BY DEF OSC_dispatch
    <2>. QED
      BY <2>1, <2>2, <2>3
  <1>. QED
    BY <1>2, TouchesMore, Dressed DEF TitleFields

LEMMA CUPFacts ==
    ASSUME NEW fb, Shape(fb), NEW p \in Seq(Int), NEW q, q = CSI_CUP(fb, p)
    PROVE  Keeps(fb, q)
  <1>1. getparam(p, 1, 1) - 1 \in Int /\ getparam(p, 2, 1) - 1 \in Int
    BY IntParam
  <1>. QED
    BY <1>1, CursorPosition DEF CSI_CUP

-----------------------------------------------------------------------------
(* Functions, and runs of them *)

\* Every function of the dispatcher's table keeps the shape.
LEMMA FunctionKeeps ==
    ASSUME NEW fb, Shape(fb), NEW name, NEW p \in Seq(Int), NEW q, q = Function(fb, name, p)
    PROVE  Keeps(fb, q)
  <1>. DEFINE n == getparam(p, 1, 1)
  <1>1. n \in Int /\ n \in Nat /\ -n \in Int /\ n - 1 \in Int /\ n \in Int \ {0} /\ -n \in Int \ {0}
    <2>1. n \in Int /\ n >= 1
      BY 1 \in Nat \ {0}, 1 \in Int, IntParam
    <2>. HIDE DEF n
    <2>. QED
      BY <2>1
  <1>2. IsSeq(p)
    BY SeqIsSeq
  <1>. HIDE DEF n
  <1>3. CASE name = "LF"
    <2>1. q = move_rows_autoscroll(fb, 1)
      BY <1>3 DEF Function, n
    <2>. QED
      BY <2>1, 1 \in Int, MoveRows
  <1>4. CASE name = "CR"
    <2>1. q = move_col(fb, 0)
      BY <1>4 DEF Function, n
    <2>. QED
      BY <2>1, 0 \in Int, MoveCol
  <1>5. CASE name = "BS"
    <2>1. q = move_col_by(fb, -1)
      BY <1>5 DEF Function, n
    <2>. QED
      BY <2>1, -1 \in Int, MoveColBy
  <1>6. CASE name = "RI"
    <2>1. q = move_rows_autoscroll(fb, -1)
      BY <1>6 DEF Function, n
    <2>. QED
      BY <2>1, -1 \in Int, MoveRows
  <1>7. CASE name = "NEL"
    <2>1. q = move_rows_autoscroll(move_col(fb, 0), 1)
      BY <1>7 DEF Function
    <2>2. Keeps(fb, move_col(fb, 0))
      BY 0 \in Int, MoveCol
    <2>3. Keeps(move_col(fb, 0), q)
      BY <2>1, <2>2, 1 \in Int, MoveRows DEF Keeps
    <2>. QED
      BY <2>2, <2>3, KeepsBoth
  <1>8. CASE name = "HT"
    <2>1. q = HT_n(fb, 1)
      BY <1>8 DEF Function, n
    <2>. QED
      BY <2>1, 1 \in Int \ {0}, TabMove
  <1>9. CASE name = "HTS"
    <2>1. q = [fb EXCEPT !.tabs = @ \union {fb.cursor_col}]
      BY <1>9 DEF Function, n
    <2>. QED
      BY <2>1, ClearTabs
  <1>10. CASE name = "BEL"
    <2>1. q = [fb EXCEPT !.bell_count = @ + 1]
      BY <1>10 DEF Function, n
    <2>. QED
      BY <2>1, BellFacts
  <1>11. CASE name = "DECSC"
    <2>1. q = save_cursor(fb)
      BY <1>11 DEF Function, n
    <2>. QED
      BY <2>1, SavedCursor
  <1>12. CASE name = "DECRC"
    <2>1. q = restore_cursor(fb)
      BY <1>12 DEF Function, n
    <2>. QED
      BY <2>1, RestoredCursor
  <1>13. CASE name = "DECALN"
    <2>1. q = Esc_DECALN(fb)
      BY <1>13 DEF Function, n
    <2>. QED
      BY <2>1, Aligned
  <1>14. CASE name = "RIS"
    <2>1. q = reset(fb)
      BY <1>14 DEF Function, n
    <2>. QED
      BY <2>1, Reset
  <1>15. CASE name = "EL"
    <2>1. q = CSI_EL(fb, p)
      BY <1>15 DEF Function, n
    <2>. QED
      BY <2>1, EraseLine
  <1>16. CASE name = "ED"
    <2>1. q = CSI_ED(fb, p)
      BY <1>16 DEF Function, n
    <2>. QED
      BY <2>1, EraseDisplay
  <1>17. CASE name = "ECH"
    <2>1. q = CSI_ECH(fb, p)
      BY <1>17 DEF Function, n
    <2>. QED
      BY <2>1, EraseCells
  <1>18. CASE name = "CUU"
    <2>1. q = move_row_by(fb, -n)
      BY <1>18 DEF Function, n
    <2>. QED
      BY <2>1, <1>1, MoveRowBy
  <1>19. CASE name = "CUD"
    <2>1. q = move_row_by(fb, n)
      BY <1>19 DEF Function, n
    <2>. QED
      BY <2>1, <1>1, MoveRowBy
  <1>20. CASE name = "CUF"
    <2>1. q = move_col_by(fb, n)
      BY <1>20 DEF Function, n
    <2>. QED
      BY <2>1, <1>1, MoveColBy
  <1>21. CASE name = "CUB"
    <2>1. q = move_col_by(fb, -n)
      BY <1>21 DEF Function, n
    <2>. QED
      BY <2>1, <1>1, MoveColBy
  <1>22. CASE name = "CUP"
    <2>1. q = CSI_CUP(fb, p)
      BY <1>22 DEF Function, n
    <2>. QED
      BY <2>1, CUPFacts
  <1>23. CASE name = "VPA"
    <2>1. q = move_row(fb, n - 1)
      BY <1>23 DEF Function, n
    <2>. QED
      BY <2>1, <1>1, MoveRow
  <1>24. CASE name = "CHA"
    <2>1. q = move_col(fb, n - 1)
      BY <1>24 DEF Function, n
    <2>. QED
      BY <2>1, <1>1, MoveCol
  <1>25. CASE name = "CHT"
    <2>1. q = HT_n(fb, n)
      BY <1>25 DEF Function, n
    <2>. QED
      BY <2>1, <1>1, TabMove
  <1>26. CASE name = "CBT"
    <2>1. q = HT_n(fb, -n)
      BY <1>26 DEF Function, n
    <2>. QED
      BY <2>1, <1>1, TabMove
  <1>27. CASE name = "TBC"
    <2>1. q = CSI_TBC(fb, p)
      BY <1>27 DEF Function, n
    <2>. QED
      BY <2>1, ClearTabs
  <1>28. CASE name = "IL"
    <2>1. q = move_col(insert_line(fb, fb.cursor_row, n), 0)
      BY <1>28 DEF Function, n
    <2>2. fb.cursor_row \in Int
      BY CursorTypes
    <2>3. Keeps(fb, insert_line(fb, fb.cursor_row, n))
      BY <1>1, <2>2, InsertLine
    <2>4. Keeps(insert_line(fb, fb.cursor_row, n), q)
      BY <2>1, <2>3, 0 \in Int, MoveCol DEF Keeps
    <2>. QED
      BY <2>3, <2>4, KeepsBoth
  <1>29. CASE name = "DL"
    <2>1. q = move_col(delete_line(fb, fb.cursor_row, n), 0)
      BY <1>29 DEF Function, n
    <2>2. fb.cursor_row \in Int
      BY CursorTypes
    <2>3. Keeps(fb, delete_line(fb, fb.cursor_row, n))
      BY <1>1, <2>2, DeleteLine
    <2>4. Keeps(delete_line(fb, fb.cursor_row, n), q)
      BY <2>1, <2>3, 0 \in Int, MoveCol DEF Keeps
    <2>. QED
      BY <2>3, <2>4, KeepsBoth
  <1>30. CASE name = "ICH"
    <2>1. q = insert_cells(fb, n)
      BY <1>30 DEF Function, n
    <2>. QED
      BY <2>1, <1>1, CellsInOut
  <1>31. CASE name = "DCH"
    <2>1. q = delete_cells(fb, n)
      BY <1>31 DEF Function, n
    <2>. QED
      BY <2>1, <1>1, CellsInOut
  <1>32. CASE name = "SD"
    <2>1. q = scroll(fb, n)
      BY <1>32 DEF Function, n
    <2>. QED
      BY <2>1, <1>1, ScrollFacts
  <1>33. CASE name = "SU"
    <2>1. q = scroll(fb, -n)
      BY <1>33 DEF Function, n
    <2>. QED
      BY <2>1, <1>1, ScrollFacts
  <1>34. CASE name = "DECSTBM"
    <2>1. q = CSI_DECSTBM(fb, p)
      BY <1>34 DEF Function, n
    <2>. QED
      BY <2>1, Margins
  <1>35. CASE name = "DECSM"
    <2>1. q = DECModes(fb, p, TRUE)
      BY <1>35 DEF Function, n
    <2>. QED
      BY <2>1, <1>2, PrivateModes
  <1>36. CASE name = "DECRM"
    <2>1. q = DECModes(fb, p, FALSE)
      BY <1>36 DEF Function, n
    <2>. QED
      BY <2>1, <1>2, PrivateModes
  <1>37. CASE name = "SM"
    <2>1. q = ANSIModes(fb, p, TRUE)
      BY <1>37 DEF Function, n
    <2>. QED
      BY <2>1, InsertModes
  <1>38. CASE name = "RM"
    <2>1. q = ANSIModes(fb, p, FALSE)
      BY <1>38 DEF Function, n
    <2>. QED
      BY <2>1, InsertModes
  <1>39. CASE name = "SGR"
    <2>1. q = CSI_SGR(fb, p)
      BY <1>39 DEF Function, n
    <2>. QED
      BY <2>1, RenditionFacts
  <1>40. CASE name = "DECSTR"
    <2>1. q = soft_reset(fb)
      BY <1>40 DEF Function, n
    <2>. QED
      BY <2>1, SoftReset
  <1>41. CASE name \notin {"LF", "CR", "BS", "RI", "NEL", "HT", "HTS", "BEL", "DECSC", "DECRC", "DECALN", "RIS", "EL", "ED", "ECH", "CUU", "CUD", "CUF", "CUB", "CUP", "VPA", "CHA", "CHT", "CBT", "TBC", "IL", "DL", "ICH", "DCH", "SD", "SU", "DECSTBM", "DECSM", "DECRM", "SM", "RM", "SGR", "DECSTR"}
    <2>1. q = fb
      BY <1>41 DEF Function
    <2>. QED
      BY <2>1, Itself
  <1>. QED
    BY <1>3, <1>4, <1>5, <1>6, <1>7, <1>8, <1>9, <1>10, <1>11, <1>12, <1>13, <1>14, <1>15, <1>16, <1>17, <1>18, <1>19, <1>20, <1>21, <1>22, <1>23, <1>24, <1>25, <1>26, <1>27, <1>28, <1>29, <1>30, <1>31, <1>32, <1>33, <1>34, <1>35, <1>36, <1>37, <1>38, <1>39, <1>40, <1>41

LEMMA ApplyKeeps ==
    ASSUME NEW fb, Shape(fb), NEW f, Delivered(f), NEW q, q = Apply(fb, f)
    PROVE  Keeps(fb, q)
  <1>1. CASE f.fn = "print"
    BY <1>1, PrintFacts DEF Apply
  <1>2. CASE f.fn = "OSC"
    BY <1>2, TitlesSet DEF Apply
  <1>3. CASE f.fn \notin {"print", "OSC"}
    <2>. DEFINE g == IF f.fn \in KeepsWrap THEN fb ELSE Unwrapped(fb)
    <2>1. q = Function(g, f.fn, f.p) /\ f.p \in Seq(Int)
      BY <1>3 DEF Apply, Delivered
    <2>2. Keeps(fb, g)
      BY Itself, UnwrappedFacts
    <2>. HIDE DEF g
    <2>3. Keeps(g, q)
      BY <2>1, <2>2, FunctionKeeps DEF Keeps
    <2>. QED
      BY <2>2, <2>3, KeepsBoth
  <1>. QED
    BY <1>1, <1>2, <1>3

ActStep(fs, r, i) == Apply(r, fs[i])

\* The functions of a run, one after the other.
ActValue(fs, b, from, r, i) == IF i = from THEN b ELSE ActStep(fs, r[i - 1], i)
ActSteps(fs, b, from, to, r) == r = [i \in from .. to |-> ActValue(fs, b, from, r, i)]

LEMMA ActRuns ==
    ASSUME NEW fs, NEW b, NEW from \in Int, NEW to \in Int, from <= to
    PROVE  \E r : ActSteps(fs, b, from, to, r)
  <1>. DEFINE T == {k \in from .. to : \E r : ActSteps(fs, b, from, k, r)}
  <1>1. from \in T
    <2>. DEFINE r == [i \in from .. from |-> b]
    <2>1. r = [i \in from .. from |-> r[i]] /\ \A i \in from .. from : r[i] = b /\ i = from
      OBVIOUS
    <2>. HIDE DEF r
    <2>2. \A i \in from .. from : r[i] = ActValue(fs, b, from, r, i)
      BY <2>1 DEF ActValue
    <2>3. ActSteps(fs, b, from, from, r)
      BY <2>1, <2>2 DEF ActSteps
    <2>4. from \in from .. to
      OBVIOUS
    <2>. QED
      BY <2>3, <2>4
  <1>2. ASSUME NEW k \in from .. to - 1, k \in T PROVE k + 1 \in T
    <2>1. PICK p : ActSteps(fs, b, from, k, p)
      BY <1>2
    <2>. DEFINE r == [i \in from .. k + 1 |->
                        IF i = k + 1 THEN ActStep(fs, p[i - 1], i) ELSE p[i]]
    <2>2. k \in Int /\ from <= k /\ k + 1 \in from .. to
      OBVIOUS
    <2>3. \A i \in from .. k : p[i] = ActValue(fs, b, from, p, i)
      BY <2>1 DEF ActSteps
    <2>4. /\ r = [i \in from .. k + 1 |-> r[i]]
          /\ \A i \in from .. k + 1 :
                r[i] = IF i = k + 1 THEN ActStep(fs, p[i - 1], i) ELSE p[i]
      OBVIOUS
    <2>. HIDE DEF r, T
    <2>5. ASSUME NEW i \in from .. k + 1 PROVE r[i] = ActValue(fs, b, from, r, i)
      <3>1. i # from => i - 1 \in from .. k + 1 /\ i - 1 # k + 1
        BY <2>2
      <3>2. i # from => r[i - 1] = p[i - 1]
        BY <2>4, <3>1
      <3>3. CASE i = k + 1
        <4>1. i # from
          BY <2>2, <3>3
        <4>. QED
          BY <2>4, <3>2, <3>3, <4>1 DEF ActValue
      <3>4. CASE i # k + 1
        <4>1. i \in from .. k
          BY <2>2, <3>4
        <4>2. r[i] = p[i] /\ p[i] = ActValue(fs, b, from, p, i)
          BY <2>3, <2>4, <3>4, <4>1
        <4>. QED
          BY <3>2, <4>2 DEF ActValue
      <3>. QED
        BY <3>3, <3>4
    <2>6. ActSteps(fs, b, from, k + 1, r)
      BY <2>4, <2>5 DEF ActSteps
    <2>. QED
      BY <2>2, <2>6 DEF T
  <1>. HIDE DEF T
  <1>3. from .. to \subseteq T
    BY <1>1, <1>2, InductionFrom
  <1>4. to \in T
    BY <1>3
  <1>. QED
    BY <1>4 DEF T

ActRan(fs, b, from, to, r) ==
    r[from] = b /\ \A i \in from + 1 .. to : r[i] = ActStep(fs, r[i - 1], i)

LEMMA ActUnfold ==
    ASSUME NEW fs, NEW b, NEW from \in Int, NEW to \in Int, from <= to,
           NEW r, ActSteps(fs, b, from, to, r)
    PROVE  ActRan(fs, b, from, to, r)
  <1>1. \A i \in from .. to : r[i] = ActValue(fs, b, from, r, i)
    BY DEF ActSteps
  <1>2. from \in from .. to /\ \A i \in from + 1 .. to : i \in from .. to /\ i # from
    OBVIOUS
  <1>. QED
    BY <1>1, <1>2 DEF ActValue, ActRan

\* r is what becomes of fb, function by function.
Run(fb, fs, r) == r[0] = fb /\ \A i \in 1 .. Len(fs) : r[i] = Apply(r[i - 1], fs[i])

LEMMA ActIsRun ==
    ASSUME NEW fb, NEW fs, IsSeq(fs)
    PROVE  \E r : Run(fb, fs, r) /\ r[Len(fs)] = Act(fb, fs)
  <1>. DEFINE n == Len(fs)
              R == CHOOSE r : ActSteps(fs, fb, 0, n, r)
  <1>1. 0 \in Int /\ n \in Int /\ 0 <= n
    BY SeqFacts
  <1>2. Act(fb, fs) = R[n]
    BY DEF Act, ActSteps, ActValue, ActStep
  <1>. HIDE DEF R, n
  <1>3. \E r : ActSteps(fs, fb, 0, n, r)
    BY <1>1, ActRuns
  <1>4. ActSteps(fs, fb, 0, n, R)
    BY <1>3 DEF R
  <1>5. ActRan(fs, fb, 0, n, R)
    BY <1>1, <1>4, ActUnfold
  <1>6. Run(fb, fs, R)
    BY <1>5 DEF Run, ActRan, ActStep, n
  <1>. QED
    BY <1>2, <1>6 DEF n

\* Runs of the same functions are the same.
LEMMA RunIsAct ==
    ASSUME NEW fb, NEW fs, IsSeq(fs), NEW r, Run(fb, fs, r)
    PROVE  r[Len(fs)] = Act(fb, fs)
  <1>. DEFINE n == Len(fs)
  <1>1. PICK s : Run(fb, fs, s) /\ s[n] = Act(fb, fs)
    BY ActIsRun
  <1>2. n \in Nat
    BY SeqFacts
  <1>. DEFINE T == {i \in 0 .. n : r[i] = s[i]}
  <1>3. 0 \in T
    BY <1>1, <1>2 DEF Run
  <1>4. ASSUME NEW m \in 0 .. n - 1, m \in T PROVE m + 1 \in T
    <2>1. m + 1 \in 1 .. n /\ m + 1 \in 0 .. n /\ (m + 1) - 1 = m
      BY <1>2
    <2>2. r[m + 1] = Apply(r[m], fs[m + 1]) /\ s[m + 1] = Apply(s[m], fs[m + 1])
      BY <1>1, <2>1 DEF Run
    <2>. QED
      BY <1>4, <2>1, <2>2
  <1>. HIDE DEF T, n
  <1>5. 0 .. n \subseteq T
    BY <1>2, <1>3, <1>4, Induction
  <1>6. n \in T
    BY <1>2, <1>5
  <1>. QED
    BY <1>1, <1>6 DEF T, n

LEMMA ActNone == ASSUME NEW fb PROVE Act(fb, <<>>) = fb
  <1>1. IsSeq(<<>>) /\ Len(<<>>) = 0
    BY <<>> \in Seq({}), SeqIsSeq
  <1>2. PICK r : Run(fb, <<>>, r) /\ r[Len(<<>>)] = Act(fb, <<>>)
    BY <1>1, ActIsRun
  <1>. QED
    BY <1>1, <1>2 DEF Run

LEMMA OneFunction == ASSUME NEW f PROVE IsSeq(<<f>>) /\ Len(<<f>>) = 1 /\ <<f>>[1] = f
  BY <<f>> \in Seq({f}), SeqIsSeq

LEMMA ActOne == ASSUME NEW fb, NEW f PROVE Act(fb, <<f>>) = Apply(fb, f)
  <1>1. PICK r : Run(fb, <<f>>, r) /\ r[Len(<<f>>)] = Act(fb, <<f>>)
    BY OneFunction, ActIsRun
  <1>2. r[1] = Apply(r[1 - 1], <<f>>[1]) /\ r[0] = fb
    BY <1>1, OneFunction DEF Run
  <1>. QED
    BY <1>1, <1>2, OneFunction

LEMMA ActConcat ==
    ASSUME NEW fb, NEW s, IsSeq(s), NEW t, IsSeq(t)
    PROVE  Act(fb, s \o t) = Act(Act(fb, s), t)
  <1>. DEFINE m == Len(s)
              n == Len(t)
              st == s \o t
  <1>1. m \in Nat /\ n \in Nat
    BY SeqFacts
  <1>2. /\ IsSeq(st) /\ Len(st) = m + n
        /\ \A i \in 1 .. m + n : st[i] = IF i <= m THEN s[i] ELSE t[i - m]
    BY ConcatFacts
  <1>. HIDE DEF m, n, st
  <1>3. PICK r : Run(fb, st, r) /\ r[m + n] = Act(fb, st)
    BY <1>2, ActIsRun
  <1>4. \A i \in 1 .. m + n : r[i] = Apply(r[i - 1], st[i])
    BY <1>2, <1>3 DEF Run
  <1>5. r[m] = Act(fb, s)
    <2>1. ASSUME NEW i \in 1 .. m PROVE r[i] = Apply(r[i - 1], s[i])
      <3>1. i \in 1 .. m + n /\ i <= m
        BY <1>1
      <3>. QED
        BY <1>2, <1>4, <3>1
    <2>2. Run(fb, s, r)
      BY <1>3, <2>1 DEF Run, m
    <2>. QED
      BY <2>2, RunIsAct DEF m
  <1>. DEFINE z == [i \in 0 .. n |-> r[m + i]]
  <1>6. z[0] = r[m] /\ z[n] = r[m + n] /\ \A i \in 1 .. n : z[i] = r[m + i] /\ z[i - 1] = r[m + i - 1]
    <2>1. /\ 0 \in 0 .. n /\ n \in 0 .. n /\ m + 0 = m
          /\ \A i \in 1 .. n : i \in 0 .. n /\ i - 1 \in 0 .. n /\ m + (i - 1) = m + i - 1
      BY <1>1
    <2>. QED
      BY <2>1
  <1>. HIDE DEF z
  <1>7. z[n] = Act(r[m], t)
    <2>1. ASSUME NEW i \in 1 .. n PROVE z[i] = Apply(z[i - 1], t[i])
      <3>1. m + i \in 1 .. m + n /\ ~(m + i <= m) /\ m + i - m = i
        BY <1>1
      <3>2. st[m + i] = t[i]
        <4>1. st[m + i] = t[m + i - m]
          BY <1>1, <1>2, <3>1
        <4>. QED
          BY <1>1, <3>1, <4>1
      <3>3. r[m + i] = Apply(r[m + i - 1], t[i])
        BY <1>1, <1>4, <3>1, <3>2
      <3>. QED
        BY <1>6, <3>3
    <2>2. Run(r[m], t, z)
      BY <1>6, <2>1 DEF Run, n
    <2>. QED
      BY <2>2, RunIsAct DEF n
  <1>. QED
    BY <1>3, <1>5, <1>6, <1>7 DEF st

LEMMA ActKeeps ==
    ASSUME NEW fb, Shape(fb), NEW fs, IsSeq(fs), \A i \in 1 .. Len(fs) : Delivered(fs[i])
    PROVE  Keeps(fb, Act(fb, fs))
  <1>. DEFINE n == Len(fs)
  <1>1. PICK r : Run(fb, fs, r) /\ r[n] = Act(fb, fs)
    BY ActIsRun
  <1>2. n \in Nat
    BY SeqFacts
  <1>. DEFINE T == {i \in 0 .. n : Keeps(fb, r[i])}
  <1>3. 0 \in T
    BY <1>1, <1>2, Itself DEF Run
  <1>4. ASSUME NEW m \in 0 .. n - 1, m \in T PROVE m + 1 \in T
    <2>1. m + 1 \in 1 .. n /\ m + 1 \in 0 .. n /\ (m + 1) - 1 = m
      BY <1>2
    <2>2. r[m + 1] = Apply(r[m], fs[m + 1]) /\ Delivered(fs[m + 1])
      BY <1>1, <2>1 DEF Run
    <2>3. Keeps(fb, r[m]) /\ Shape(r[m])
      BY <1>4 DEF Keeps
    <2>4. Keeps(r[m], r[m + 1])
      BY <2>2, <2>3, ApplyKeeps
    <2>. QED
      BY <2>1, <2>3, <2>4, KeepsBoth
  <1>. HIDE DEF T, n
  <1>5. 0 .. n \subseteq T
    BY <1>2, <1>3, <1>4, Induction
  <1>6. n \in T
    BY <1>2, <1>5
  <1>. QED
    BY <1>1, <1>6 DEF T

-----------------------------------------------------------------------------
(* What a frame's functions do to the screen *)

Pending(fb) == fb.next_print_will_wrap = TRUE
Free(fb) == fb.next_print_will_wrap = FALSE

LEMMA Applied ==
    ASSUME NEW fb, NEW p, NEW ch, NEW cmd, NEW s
    PROVE  /\ Apply(fb, Control("LF")) = move_rows_autoscroll(Unwrapped(fb), 1)
           /\ Apply(fb, Control("CR")) = move_col(Unwrapped(fb), 0)
           /\ Apply(fb, Control("BS")) = move_col_by(Unwrapped(fb), -1)
           /\ Apply(fb, Control("BEL")) = [Unwrapped(fb) EXCEPT !.bell_count = @ + 1]
           /\ Apply(fb, CSI("CUP", p)) = CSI_CUP(Unwrapped(fb), p)
           /\ Apply(fb, CSI("EL", p)) = CSI_EL(Unwrapped(fb), p)
           /\ Apply(fb, CSI("ED", p)) = CSI_ED(Unwrapped(fb), p)
           /\ Apply(fb, CSI("ECH", p)) = CSI_ECH(Unwrapped(fb), p)
           /\ Apply(fb, CSI("DECSTBM", p)) = CSI_DECSTBM(Unwrapped(fb), p)
           /\ Apply(fb, CSI("DECSM", p)) = DECModes(fb, p, TRUE)
           /\ Apply(fb, CSI("DECRM", p)) = DECModes(fb, p, FALSE)
           /\ Apply(fb, CSI("SGR", p)) = CSI_SGR(fb, p)
           /\ Apply(fb, Glyph(ch)) = print(fb, ch)
           /\ Apply(fb, OSC(cmd, s)) = OSC_dispatch(fb, cmd, s)
  <1>1. /\ Apply(fb, Control("LF")) = move_rows_autoscroll(Unwrapped(fb), 1)
        /\ Apply(fb, Control("CR")) = move_col(Unwrapped(fb), 0)
        /\ Apply(fb, Control("BS")) = move_col_by(Unwrapped(fb), -1)
        /\ Apply(fb, Control("BEL")) = [Unwrapped(fb) EXCEPT !.bell_count = @ + 1]
    BY DEF Apply, Function, Control, KeepsWrap
  <1>2. /\ Apply(fb, CSI("CUP", p)) = CSI_CUP(Unwrapped(fb), p)
        /\ Apply(fb, CSI("EL", p)) = CSI_EL(Unwrapped(fb), p)
        /\ Apply(fb, CSI("ED", p)) = CSI_ED(Unwrapped(fb), p)
        /\ Apply(fb, CSI("ECH", p)) = CSI_ECH(Unwrapped(fb), p)
        /\ Apply(fb, CSI("DECSTBM", p)) = CSI_DECSTBM(Unwrapped(fb), p)
    BY DEF Apply, Function, CSI, KeepsWrap
  <1>3. /\ Apply(fb, CSI("DECSM", p)) = DECModes(fb, p, TRUE)
        /\ Apply(fb, CSI("DECRM", p)) = DECModes(fb, p, FALSE)
        /\ Apply(fb, CSI("SGR", p)) = CSI_SGR(fb, p)
    BY DEF Apply, Function, CSI, KeepsWrap
  <1>4. Apply(fb, Glyph(ch)) = print(fb, ch)
    BY DEF Apply, Glyph
  <1>5. Apply(fb, OSC(cmd, s)) = OSC_dispatch(fb, cmd, s)
    BY DEF Apply, OSC
  <1>. QED
    BY <1>1, <1>2, <1>3, <1>4, <1>5

LEMMA UnwrappedPainting ==
    ASSUME NEW fb, Shape(fb), NEW g, g = Unwrapped(fb)
    PROVE  /\ Keeps(fb, g) /\ Shape(g) /\ Touches(fb, g, Painting) /\ Free(g)
           /\ g.cursor_row = fb.cursor_row /\ g.cursor_col = fb.cursor_col
           /\ g.width = fb.width /\ g.height = fb.height /\ g.modes = fb.modes
           /\ g.top = fb.top /\ g.bottom = fb.bottom
  <1>1. /\ Keeps(fb, g) /\ Touches(fb, g, {"next_print_will_wrap"})
        /\ g.next_print_will_wrap = FALSE
        /\ g.cursor_row = fb.cursor_row /\ g.cursor_col = fb.cursor_col
    BY UnwrappedFacts
  <1>2. Touches(fb, g, Painting)
    BY <1>1, TouchesMore DEF Painting
  <1>. QED
    BY <1>1, <1>2, StillPlain DEF Keeps, Free

LEMMA PaintingBoth ==
    ASSUME NEW fb, NEW g, NEW q, Touches(fb, g, Painting), Touches(g, q, Painting)
    PROVE  Touches(fb, q, Painting)
  BY TouchesBoth

LEMMA LineFeed ==
    ASSUME NEW fb, Shape(fb), NEW q, q = Apply(fb, Control("LF"))
    PROVE  /\ Keeps(fb, q) /\ Touches(fb, q, Painting) /\ Free(q)
           /\ q.cursor_col = fb.cursor_col
           /\ Plain(fb) => q.cursor_row = IF fb.cursor_row < fb.height - 1
                                          THEN fb.cursor_row + 1 ELSE fb.cursor_row
  <1>. DEFINE g == Unwrapped(fb)
  <1>1. q = move_rows_autoscroll(g, 1)
    BY Applied
  <1>2. /\ Keeps(fb, g) /\ Shape(g) /\ Touches(fb, g, Painting)
        /\ g.cursor_row = fb.cursor_row /\ g.cursor_col = fb.cursor_col
        /\ g.width = fb.width /\ g.height = fb.height /\ g.modes = fb.modes
        /\ g.top = fb.top /\ g.bottom = fb.bottom
    BY UnwrappedPainting
  <1>. HIDE DEF g
  <1>3. /\ Keeps(g, q) /\ Touches(g, q, Painting) /\ q.next_print_will_wrap = FALSE
        /\ q.cursor_col = g.cursor_col
        /\ g.cursor_row + 1 \in g.top .. g.bottom =>
              q.cursor_row = Clamp(g.cursor_row + 1, LimitTop(g), LimitBottom(g))
        /\ g.cursor_row = g.bottom /\ 1 = 1 /\ g.bottom = g.height - 1
              /\ ~g.modes.origin_mode => q.cursor_row = g.bottom
    BY <1>1, <1>2, 1 \in Int, MoveRows
  <1>4. Keeps(fb, q) /\ Touches(fb, q, Painting)
    BY <1>2, <1>3, KeepsBoth, PaintingBoth
  <1>5. ASSUME Plain(fb)
        PROVE  q.cursor_row = IF fb.cursor_row < fb.height - 1
                              THEN fb.cursor_row + 1 ELSE fb.cursor_row
    <2>1. Plain(g) /\ Modest(g)
      BY <1>2, <1>5 DEF Plain, Modest
    <2>2. LimitTop(g) = 0 /\ LimitBottom(g) = g.height - 1
      BY <1>2, <2>1, PlainLimits
    <2>3. /\ fb.cursor_row \in Nat /\ fb.height \in Nat /\ fb.cursor_row < fb.height
          /\ g.top = 0 /\ g.bottom = fb.height - 1 /\ ~g.modes.origin_mode
      BY <1>2, <2>1, CursorTypes DEF Plain, Modest
    <2>4. CASE fb.cursor_row < fb.height - 1
      BY <1>2, <1>3, <2>2, <2>3, <2>4 DEF Clamp
    <2>5. CASE ~(fb.cursor_row < fb.height - 1)
      BY <1>2, <1>3, <2>3, <2>5
    <2>. QED
      BY <2>4, <2>5
  <1>. QED
    BY <1>2, <1>3, <1>4, <1>5 DEF Free

LEMMA CarriageReturn ==
    ASSUME NEW fb, Shape(fb), NEW q, q = Apply(fb, Control("CR"))
    PROVE  /\ Keeps(fb, q) /\ Touches(fb, q, Painting) /\ Free(q) /\ q.cursor_col = 0
           /\ Modest(fb) => q.cursor_row = fb.cursor_row
  <1>. DEFINE g == Unwrapped(fb)
  <1>1. q = move_col(g, 0)
    BY Applied
  <1>2. /\ Keeps(fb, g) /\ Shape(g) /\ Touches(fb, g, Painting)
        /\ g.cursor_row = fb.cursor_row /\ g.modes = fb.modes
    BY UnwrappedPainting
  <1>. HIDE DEF g
  <1>3. /\ Keeps(g, q) /\ Touches(g, q, CursorFields) /\ q.next_print_will_wrap = FALSE
        /\ q.cursor_row = Clamp(g.cursor_row, LimitTop(g), LimitBottom(g))
        /\ q.cursor_col = Clamp(0, 0, g.width - 1)
    BY <1>1, <1>2, 0 \in Int, MoveCol
  <1>4. Touches(g, q, Painting)
    BY <1>3, TouchesMore DEF CursorFields, Painting
  <1>5. /\ g.width \in Nat \ {0} /\ g.cursor_row \in Nat /\ g.cursor_row < g.height
        /\ g.height \in Nat
    BY <1>2, CursorTypes
  <1>6. q.cursor_col = 0
    BY <1>3, <1>5 DEF Clamp
  <1>7. ASSUME Modest(fb) PROVE q.cursor_row = fb.cursor_row
    <2>1. LimitTop(g) = 0 /\ LimitBottom(g) = g.height - 1
      BY <1>2, <1>7, PlainLimits DEF Modest
    <2>. QED
      BY <1>2, <1>3, <1>5, <2>1 DEF Clamp
  <1>. QED
    BY <1>2, <1>3, <1>4, <1>6, <1>7, KeepsBoth, PaintingBoth DEF Free

LEMMA Backspace ==
    ASSUME NEW fb, Shape(fb), NEW q, q = Apply(fb, Control("BS"))
    PROVE  /\ Keeps(fb, q) /\ Touches(fb, q, Painting) /\ Free(q)
           /\ q.cursor_col = IF fb.cursor_col > 0 THEN fb.cursor_col - 1 ELSE 0
           /\ Modest(fb) => q.cursor_row = fb.cursor_row
  <1>. DEFINE g == Unwrapped(fb)
  <1>1. q = move_col_by(g, -1)
    BY Applied
  <1>2. /\ Keeps(fb, g) /\ Shape(g) /\ Touches(fb, g, Painting)
        /\ g.cursor_row = fb.cursor_row /\ g.cursor_col = fb.cursor_col /\ g.modes = fb.modes
    BY UnwrappedPainting
  <1>. HIDE DEF g
  <1>3. /\ Keeps(g, q) /\ Touches(g, q, CursorFields) /\ q.next_print_will_wrap = FALSE
        /\ q.cursor_row = Clamp(g.cursor_row, LimitTop(g), LimitBottom(g))
        /\ q.cursor_col = Clamp(g.cursor_col + (-1), 0, g.width - 1)
    BY <1>1, <1>2, -1 \in Int, MoveColBy
  <1>4. Touches(g, q, Painting)
    BY <1>3, TouchesMore DEF CursorFields, Painting
  <1>5. /\ g.width \in Nat \ {0} /\ g.cursor_row \in Nat /\ g.cursor_row < g.height
        /\ g.height \in Nat /\ g.cursor_col \in Nat /\ g.cursor_col < g.width
    BY <1>2, CursorTypes
  <1>6. q.cursor_col = IF fb.cursor_col > 0 THEN fb.cursor_col - 1 ELSE 0
    BY <1>2, <1>3, <1>5 DEF Clamp
  <1>7. ASSUME Modest(fb) PROVE q.cursor_row = fb.cursor_row
    <2>1. LimitTop(g) = 0 /\ LimitBottom(g) = g.height - 1
      BY <1>2, <1>7, PlainLimits DEF Modest
    <2>. QED
      BY <1>2, <1>3, <1>5, <2>1 DEF Clamp
  <1>. QED
    BY <1>2, <1>3, <1>4, <1>6, <1>7, KeepsBoth, PaintingBoth DEF Free

LEMMA MoveTo ==
    ASSUME NEW fb, Shape(fb), Modest(fb), NEW y \in 0 .. fb.height - 1, NEW x \in 0 .. fb.width - 1,
           NEW q, q = Act(fb, CUP(y, x))
    PROVE  /\ Keeps(fb, q) /\ Touches(fb, q, Painting) /\ Free(q)
           /\ q.cursor_row = y /\ q.cursor_col = x
  <1>. DEFINE g == Unwrapped(fb)
              p == <<y + 1, x + 1>>
  <1>1. y \in Int /\ x \in Int /\ y + 1 >= 1 /\ x + 1 >= 1 /\ y + 1 - 1 = y /\ x + 1 - 1 = x
    BY CursorTypes
  <1>2. getparam(p, 1, 1) = y + 1 /\ getparam(p, 2, 1) = x + 1
    <2>1. Len(p) = 2 /\ p[1] = y + 1 /\ p[2] = x + 1
      OBVIOUS
    <2>. QED
      BY <1>1, <2>1 DEF getparam
  <1>3. q = move_col(move_row(g, y), x)
    <2>1. CUP(y, x) = <<CSI("CUP", p)>>
      BY DEF CUP
    <2>2. q = Apply(fb, CSI("CUP", p))
      BY <2>1, ActOne, Zenon
    <2>3. \A r : Apply(fb, CSI("CUP", r)) = CSI_CUP(g, r)
      BY Applied
    <2>4. q = CSI_CUP(g, p)
      BY <2>2, <2>3
    <2>. HIDE DEF g, p
    <2>. QED
      BY <1>1, <1>2, <2>4 DEF CSI_CUP
  <1>4. /\ Keeps(fb, g) /\ Shape(g) /\ Touches(fb, g, Painting)
        /\ g.width = fb.width /\ g.height = fb.height /\ g.modes = fb.modes
    BY UnwrappedPainting
  <1>5. Modest(g)
    BY <1>4 DEF Modest
  <1>. HIDE DEF g, p
  <1>6. /\ Keeps(g, q) /\ Touches(g, q, CursorFields) /\ q.next_print_will_wrap = FALSE
        /\ q.cursor_row = Clamp(y, 0, g.height - 1) /\ q.cursor_col = Clamp(x, 0, g.width - 1)
    <2>1. Shape(g) /\ y \in Int /\ x \in Int /\ q = move_col(move_row(g, y), x)
      BY <1>1, <1>3, <1>4
    <2>2. Keeps(g, q) /\ Touches(g, q, CursorFields) /\ q.next_print_will_wrap = FALSE
      BY <2>1, CursorMoved
    <2>3. q.cursor_row = Clamp(y, 0, g.height - 1) /\ q.cursor_col = Clamp(x, 0, g.width - 1)
      <3>1. CursorAt(g, q, y, x)
        BY <1>5, <2>1, CursorThere
      <3>. QED
        BY <3>1 DEF CursorAt
    <2>. QED
      BY <2>2, <2>3
  <1>7. Touches(g, q, Painting)
    BY <1>6, TouchesMore DEF CursorFields, Painting
  <1>8. q.cursor_row = y /\ q.cursor_col = x
    BY <1>1, <1>4, <1>6, CursorTypes DEF Clamp
  <1>. QED
    BY <1>4, <1>6, <1>7, <1>8, KeepsBoth, PaintingBoth DEF Free

\* The same function n times.
Repeats(fb, n, f, r) == r[0] = fb /\ \A i \in 1 .. n : r[i] = Apply(r[i - 1], f)

\* A function n times over, read one at a time.
LEMMA RepeatedRun ==
    ASSUME NEW fb, NEW n \in Nat, NEW f
    PROVE  \E r : Repeats(fb, n, f, r) /\ r[n] = Act(fb, Filled(n, f))
  <1>. DEFINE s == Filled(n, f)
  <1>1. IsSeq(s) /\ Len(s) = n /\ \A i \in 1 .. n : s[i] = f
    BY FilledFacts
  <1>2. PICK r : Run(fb, s, r) /\ r[Len(s)] = Act(fb, s)
    BY <1>1, ActIsRun
  <1>3. Repeats(fb, n, f, r)
    BY <1>1, <1>2 DEF Run, Repeats
  <1>. QED
    BY <1>1, <1>2, <1>3

LEMMA LineFeeds ==
    ASSUME NEW fb, Shape(fb), NEW n \in Nat, NEW q, q = Act(fb, Repeat(n, "LF"))
    PROVE  /\ Keeps(fb, q) /\ Touches(fb, q, Painting) /\ q.cursor_col = fb.cursor_col
           /\ n > 0 \/ Free(fb) => Free(q)
           /\ Plain(fb) => q.cursor_row = IF fb.cursor_row + n < fb.height
                                          THEN fb.cursor_row + n ELSE fb.height - 1
  <1>. DEFINE Fed(i, g) ==
                /\ Keeps(fb, g) /\ Touches(fb, g, Painting) /\ g.cursor_col = fb.cursor_col
                /\ i > 0 \/ Free(fb) => Free(g)
                /\ Plain(fb) => g.cursor_row = IF fb.cursor_row + i < fb.height
                                               THEN fb.cursor_row + i ELSE fb.height - 1
  <1>1. PICK r : Repeats(fb, n, Control("LF"), r) /\ r[n] = q
    BY RepeatedRun DEF Repeat
  <1>2. fb.cursor_row \in Nat /\ fb.height \in Nat /\ fb.cursor_row < fb.height
    BY CursorTypes
  <1>. DEFINE T == {i \in 0 .. n : Fed(i, r[i])}
  <1>3. 0 \in T
    <2>1. r[0] = fb /\ 0 \in 0 .. n /\ ~(0 > 0) /\ fb.cursor_row + 0 = fb.cursor_row
      BY <1>1, <1>2 DEF Repeats
    <2>2. Keeps(fb, fb) /\ Touches(fb, fb, Painting)
      BY Itself
    <2>. QED
      BY <1>2, <2>1, <2>2
  <1>4. ASSUME NEW m \in 0 .. n - 1, m \in T PROVE m + 1 \in T
    <2>. DEFINE g == r[m]
                h == r[m + 1]
    <2>1. m + 1 \in 1 .. n /\ m + 1 \in 0 .. n /\ (m + 1) - 1 = m /\ m + 1 > 0 /\ m \in Nat
      OBVIOUS
    <2>2. h = Apply(g, Control("LF"))
      BY <1>1, <2>1 DEF Repeats
    <2>3. Fed(m, g)
      BY <1>4
    <2>. HIDE DEF g, h
    <2>4. Shape(g) /\ g.height = fb.height
      BY <2>3 DEF Keeps, SameSizes
    <2>5. /\ Keeps(g, h) /\ Touches(g, h, Painting) /\ Free(h) /\ h.cursor_col = g.cursor_col
          /\ Plain(g) => h.cursor_row = IF g.cursor_row < g.height - 1
                                        THEN g.cursor_row + 1 ELSE g.cursor_row
      BY <2>2, <2>4, LineFeed
    <2>6. Keeps(fb, h) /\ Touches(fb, h, Painting) /\ h.cursor_col = fb.cursor_col
      BY <2>3, <2>5, KeepsBoth, PaintingBoth
    <2>7. ASSUME Plain(fb)
          PROVE  h.cursor_row = IF fb.cursor_row + (m + 1) < fb.height
                                THEN fb.cursor_row + (m + 1) ELSE fb.height - 1
      <3>1. Plain(g)
        BY <2>3, <2>7, StillPlain
      <3>. QED
        BY <1>2, <2>1, <2>3, <2>4, <2>5, <2>7, <3>1
    <2>8. Fed(m + 1, h)
      BY <2>5, <2>6, <2>7
    <2>. QED
      BY <2>1, <2>8 DEF h
  <1>5. 0 .. n \subseteq T
    <2>. HIDE DEF T
    <2>. QED
      BY <1>3, <1>4, Induction
  <1>6. Fed(n, q)
    <2>1. n \in T
      BY <1>5
    <2>. QED
      BY <1>1, <2>1
  <1>. QED
    BY <1>6

LEMMA Backspaces ==
    ASSUME NEW fb, Shape(fb), Modest(fb), NEW n \in Nat \ {0}, NEW q, q = Act(fb, Repeat(n, "BS"))
    PROVE  /\ Keeps(fb, q) /\ Touches(fb, q, Painting) /\ Free(q)
           /\ q.cursor_row = fb.cursor_row
           /\ q.cursor_col = IF fb.cursor_col > n THEN fb.cursor_col - n ELSE 0
  <1>. DEFINE Back(i, g) ==
                /\ Keeps(fb, g) /\ Touches(fb, g, Painting) /\ g.cursor_row = fb.cursor_row
                /\ i > 0 => Free(g)
                /\ g.cursor_col = IF fb.cursor_col > i THEN fb.cursor_col - i ELSE 0
  <1>1. PICK r : Repeats(fb, n, Control("BS"), r) /\ r[n] = q
    BY RepeatedRun DEF Repeat
  <1>2. fb.cursor_col \in Nat
    BY CursorTypes
  <1>. DEFINE T == {i \in 0 .. n : Back(i, r[i])}
  <1>3. 0 \in T
    <2>1. r[0] = fb /\ 0 \in 0 .. n /\ ~(0 > 0)
          /\ fb.cursor_col = IF fb.cursor_col > 0 THEN fb.cursor_col - 0 ELSE 0
      BY <1>1, <1>2 DEF Repeats
    <2>2. Keeps(fb, fb) /\ Touches(fb, fb, Painting)
      BY Itself
    <2>. QED
      BY <1>2, <2>1, <2>2
  <1>4. ASSUME NEW m \in 0 .. n - 1, m \in T PROVE m + 1 \in T
    <2>. DEFINE g == r[m]
                h == r[m + 1]
    <2>1. m + 1 \in 1 .. n /\ m + 1 \in 0 .. n /\ (m + 1) - 1 = m /\ m + 1 > 0 /\ m \in Nat
      OBVIOUS
    <2>2. h = Apply(g, Control("BS"))
      BY <1>1, <2>1 DEF Repeats
    <2>3. Back(m, g)
      BY <1>4
    <2>. HIDE DEF g, h
    <2>4. Shape(g) /\ Modest(g)
      BY <2>3, StillPlain DEF Keeps
    <2>5. /\ Keeps(g, h) /\ Touches(g, h, Painting) /\ Free(h)
          /\ h.cursor_col = IF g.cursor_col > 0 THEN g.cursor_col - 1 ELSE 0
          /\ h.cursor_row = g.cursor_row
      BY <2>2, <2>4, Backspace
    <2>6. Keeps(fb, h) /\ Touches(fb, h, Painting)
      BY <2>3, <2>5, KeepsBoth, PaintingBoth
    <2>7. h.cursor_col = IF fb.cursor_col > m + 1 THEN fb.cursor_col - (m + 1) ELSE 0
      BY <1>2, <2>1, <2>3, <2>5
    <2>8. Back(m + 1, h)
      BY <2>3, <2>5, <2>6, <2>7
    <2>. QED
      BY <2>1, <2>8 DEF h
  <1>5. 0 .. n \subseteq T
    <2>. HIDE DEF T
    <2>. QED
      BY <1>3, <1>4, Induction
  <1>6. Back(n, q)
    <2>1. n \in T
      BY <1>5
    <2>. QED
      BY <1>1, <2>1
  <1>. QED
    BY <1>6

\* n characters, where a row has place for them.
LEMMA Printed ==
    ASSUME NEW fb, Shape(fb), Plain(fb), Free(fb), NEW n \in Nat, fb.cursor_col + n <= fb.width,
           NEW ch, NEW q, q = Act(fb, Filled(n, Glyph(ch)))
    PROVE  /\ Keeps(fb, q) /\ Touches(fb, q, Painting) /\ q.cursor_row = fb.cursor_row
           /\ fb.cursor_col + n < fb.width => Free(q) /\ q.cursor_col = fb.cursor_col + n
           /\ fb.cursor_col + n = fb.width => Pending(q)
  <1>. DEFINE There(i, g) ==
                /\ Keeps(fb, g) /\ Touches(fb, g, Painting) /\ g.cursor_row = fb.cursor_row
                /\ fb.cursor_col + i < fb.width => Free(g) /\ g.cursor_col = fb.cursor_col + i
                /\ fb.cursor_col + i = fb.width => Pending(g)
  <1>1. PICK r : Repeats(fb, n, Glyph(ch), r) /\ r[n] = q
    BY RepeatedRun
  <1>2. /\ fb.cursor_col \in Nat /\ fb.cursor_col < fb.width /\ fb.width \in Nat
    BY CursorTypes
  <1>. DEFINE T == {i \in 0 .. n : There(i, r[i])}
  <1>3. 0 \in T
    <2>1. r[0] = fb /\ 0 \in 0 .. n /\ fb.cursor_col + 0 = fb.cursor_col
      BY <1>1, <1>2 DEF Repeats
    <2>2. Keeps(fb, fb) /\ Touches(fb, fb, Painting)
      BY Itself
    <2>. QED
      BY <1>2, <2>1, <2>2
  <1>4. ASSUME NEW m \in 0 .. n - 1, m \in T PROVE m + 1 \in T
    <2>. DEFINE g == r[m]
                h == r[m + 1]
    <2>1. m + 1 \in 1 .. n /\ m + 1 \in 0 .. n /\ (m + 1) - 1 = m /\ m \in Nat
      OBVIOUS
    <2>2. h = print(g, ch)
      <3>1. h = Apply(g, Glyph(ch))
        BY <1>1, <2>1 DEF Repeats
      <3>2. \A z : Apply(z, Glyph(ch)) = print(z, ch)
        BY Applied
      <3>. HIDE DEF g, h
      <3>. QED
        BY <3>1, <3>2
    <2>3. There(m, g)
      BY <1>4
    <2>. HIDE DEF g, h
    <2>4. Shape(g) /\ Plain(g) /\ g.width = fb.width
      BY <2>3, StillPlain DEF Keeps, SameSizes
    <2>5. fb.cursor_col + m < fb.width /\ Free(g) /\ g.cursor_col = fb.cursor_col + m
      BY <1>2, <2>1, <2>3
    <2>6. ~g.next_print_will_wrap
      BY <2>5 DEF Free
    <2>7. /\ Keeps(g, h) /\ Touches(g, h, Painting)
          /\ h.cursor_row = g.cursor_row
          /\ h.cursor_col = Clamp(g.cursor_col + 1, 0, g.width - 1)
          /\ h.next_print_will_wrap = (g.cursor_col + 1 >= g.width)
      BY <2>2, <2>4, <2>6, PrintFacts
    <2>8. Keeps(fb, h) /\ Touches(fb, h, Painting) /\ h.cursor_row = fb.cursor_row
      BY <2>3, <2>7, KeepsBoth, PaintingBoth
    <2>9. fb.cursor_col + (m + 1) < fb.width =>
             Free(h) /\ h.cursor_col = fb.cursor_col + (m + 1)
      <3>1. ASSUME fb.cursor_col + (m + 1) < fb.width
            PROVE  ~(g.cursor_col + 1 >= g.width) /\ h.cursor_col = fb.cursor_col + (m + 1)
        BY <1>2, <2>1, <2>4, <2>5, <2>7, <3>1 DEF Clamp
      <3>2. ASSUME fb.cursor_col + (m + 1) < fb.width PROVE Free(h)
        <4>1. (g.cursor_col + 1 >= g.width) = FALSE
          BY <3>1, <3>2
        <4>. QED
          BY <2>7, <4>1 DEF Free
      <3>. QED
        BY <3>1, <3>2
    <2>10. fb.cursor_col + (m + 1) = fb.width => Pending(h)
      <3>1. ASSUME fb.cursor_col + (m + 1) = fb.width PROVE g.cursor_col + 1 >= g.width
        BY <1>2, <2>1, <2>4, <2>5, <3>1
      <3>. QED
        BY <2>7, <3>1 DEF Pending
    <2>11. There(m + 1, h)
      BY <2>8, <2>9, <2>10
    <2>. QED
      BY <2>1, <2>11 DEF h
  <1>5. 0 .. n \subseteq T
    <2>. HIDE DEF T
    <2>. QED
      BY <1>3, <1>4, Induction
  <1>6. There(n, q)
    <2>1. n \in T
      BY <1>5
    <2>. QED
      BY <1>1, <2>1
  <1>. QED
    BY <1>6

\* What leaves the cursor where it is.
Calm(fb, q) ==
    /\ Keeps(fb, q)
    /\ q.cursor_row = fb.cursor_row /\ q.cursor_col = fb.cursor_col
    /\ q.top = fb.top /\ q.bottom = fb.bottom
    /\ Modest(fb) => Modest(q)
    /\ Free(fb) => Free(q)
CalmRun(fs) == IsSeq(fs) /\ \A fb : Shape(fb) => Calm(fb, Act(fb, fs))

LEMMA CalmItself == ASSUME NEW fb, Shape(fb) PROVE Calm(fb, fb)
  BY Itself DEF Calm

\* What is calm leaves cursor, margins and modes alone: it composes.
LEMMA CalmTwice ==
    ASSUME NEW fb, NEW g, NEW q, Calm(fb, g), Calm(g, q) PROVE Calm(fb, q)
  <1>1. Keeps(fb, q)
    BY KeepsBoth DEF Calm
  <1>. QED
    BY <1>1 DEF Calm

LEMMA CalmIsPlain == ASSUME NEW fb, NEW q, Calm(fb, q), Plain(fb) PROVE Plain(q) /\ Shape(q)
  BY DEF Calm, Plain, Keeps, SameSizes

\* The fields of Calm.
Posture == {"cursor_row", "cursor_col", "top", "bottom", "next_print_will_wrap", "modes"}

LEMMA CalmFields ==
    ASSUME NEW fb, NEW q, Keeps(fb, q), NEW K, Touches(fb, q, K), K \cap Posture = {}
    PROVE  Calm(fb, q) /\ q.next_print_will_wrap = fb.next_print_will_wrap
  <1>1. Posture \subseteq Fields \ K
    BY FieldNames DEF Posture
  <1>2. /\ q.cursor_row = fb.cursor_row /\ q.cursor_col = fb.cursor_col
        /\ q.top = fb.top /\ q.bottom = fb.bottom /\ q.modes = fb.modes
        /\ q.next_print_will_wrap = fb.next_print_will_wrap
    BY <1>1 DEF Touches, Posture
  <1>. QED
    BY <1>2 DEF Calm, Modest, Free

LEMMA CalmNone == CalmRun(<<>>)
  <1>1. IsSeq(<<>>)
    BY <<>> \in Seq({}), SeqIsSeq
  <1>. QED
    BY <1>1, ActNone, CalmItself DEF CalmRun

LEMMA CalmConcat ==
    ASSUME NEW s, NEW t, CalmRun(s), CalmRun(t) PROVE CalmRun(s \o t)
  <1>1. IsSeq(s) /\ IsSeq(t) /\ IsSeq(s \o t)
    BY ConcatFacts DEF CalmRun
  <1>2. ASSUME NEW fb, Shape(fb) PROVE Calm(fb, Act(fb, s \o t))
    <2>1. Act(fb, s \o t) = Act(Act(fb, s), t)
      BY <1>1, ActConcat
    <2>2. Calm(fb, Act(fb, s)) /\ Shape(Act(fb, s))
      BY <1>2 DEF CalmRun, Calm, Keeps
    <2>3. Calm(Act(fb, s), Act(Act(fb, s), t))
      BY <2>2 DEF CalmRun
    <2>. QED
      BY <2>1, <2>2, <2>3, CalmTwice
  <1>. QED
    BY <1>1, <1>2 DEF CalmRun

LEMMA CalmOne ==
    ASSUME NEW f, \A fb : Shape(fb) => Calm(fb, Apply(fb, f)) PROVE CalmRun(<<f>>)
  BY OneFunction, ActOne DEF CalmRun

LEMMA RenditionCalm ==
    ASSUME NEW fb, Shape(fb), NEW p, NEW q, q = Apply(fb, CSI("SGR", p))
    PROVE  Calm(fb, q) /\ q.next_print_will_wrap = fb.next_print_will_wrap
  <1>1. q = CSI_SGR(fb, p)
    BY Applied
  <1>2. Keeps(fb, q) /\ Touches(fb, q, {"renditions"})
    BY <1>1, RenditionFacts
  <1>3. {"renditions"} \cap Posture = {}
    BY DEF Posture
  <1>. QED
    BY <1>2, <1>3, CalmFields

\* The modes a frame sets disturb neither cursor nor margins.
LEMMA ModeCalm ==
    ASSUME NEW n \in Harmless, NEW on, NEW fb, Shape(fb), NEW q, q = Act(fb, Mode(n, on))
    PROVE  Calm(fb, q)
  <1>1. PICK value : q = DECModes(fb, <<n>>, value)
    <2>1. q = Apply(fb, CSI(IF on THEN "DECSM" ELSE "DECRM", <<n>>))
      BY ActOne DEF Mode
    <2>2. CASE on
      <3>1. q = Apply(fb, CSI("DECSM", <<n>>))
        BY <2>1, <2>2
      <3>. QED
        BY <3>1, Applied
    <2>3. CASE ~on
      <3>1. q = Apply(fb, CSI("DECRM", <<n>>))
        BY <2>1, <2>3
      <3>. QED
        BY <3>1, Applied
    <2>. QED
      BY <2>2, <2>3
  <1>2. IsSeq(<<n>>)
    BY OneFunction
  <1>3. Keeps(fb, q)
    BY <1>1, <1>2, PrivateModes
  <1>4. /\ Touches(fb, q, {"modes", "mouse"})
        /\ q.modes.insert_mode = fb.modes.insert_mode
        /\ q.modes.origin_mode = fb.modes.origin_mode
        /\ q.modes.auto_wrap_mode = fb.modes.auto_wrap_mode
    BY <1>1, <1>2, PrivateModes
  <1>5. /\ q.cursor_row = fb.cursor_row /\ q.cursor_col = fb.cursor_col
        /\ q.top = fb.top /\ q.bottom = fb.bottom
        /\ q.next_print_will_wrap = fb.next_print_will_wrap
    BY <1>4, FieldNames DEF Touches
  <1>. QED
    BY <1>3, <1>4, <1>5 DEF Calm, Modest, Free

LEMMA ModeCalmRun == ASSUME NEW n \in Harmless, NEW on PROVE CalmRun(Mode(n, on))
  <1>1. IsSeq(Mode(n, on))
    BY OneFunction DEF Mode
  <1>. QED
    BY <1>1, ModeCalm DEF CalmRun

LEMMA UnwrappedCalm ==
    ASSUME NEW fb, Shape(fb), NEW g, g = Unwrapped(fb), NEW q, Keeps(g, q), NEW K,
           Touches(g, q, K), K \cap Posture = {}
    PROVE  Calm(fb, q) /\ Free(q)
  <1>1. /\ Keeps(fb, g) /\ Free(g) /\ g.modes = fb.modes /\ g.top = fb.top /\ g.bottom = fb.bottom
        /\ g.cursor_row = fb.cursor_row /\ g.cursor_col = fb.cursor_col
    BY UnwrappedPainting
  <1>2. Calm(fb, g)
    BY <1>1 DEF Calm, Modest
  <1>3. Calm(g, q) /\ q.next_print_will_wrap = g.next_print_will_wrap
    BY CalmFields
  <1>. QED
    BY <1>1, <1>2, <1>3, CalmTwice DEF Free

LEMMA Erased ==
    ASSUME NEW fb, Shape(fb), NEW p, NEW name \in {"EL", "ED", "ECH"}, NEW q,
           q = Apply(fb, CSI(name, p))
    PROVE  Calm(fb, q) /\ Free(q)
  <1>. DEFINE g == Unwrapped(fb)
  <1>1. Shape(g)
    BY UnwrappedPainting
  <1>2. q = CSI_EL(g, p) \/ q = CSI_ED(g, p) \/ q = CSI_ECH(g, p)
    BY Applied
  <1>3. Keeps(g, q) /\ Touches(g, q, {"rows"})
    <2>. HIDE DEF g
    <2>. QED
      BY <1>1, <1>2, EraseLine, EraseDisplay, EraseCells
  <1>4. {"rows"} \cap Posture = {}
    BY DEF Posture
  <1>. QED
    BY <1>3, <1>4, UnwrappedCalm

LEMMA BellCalm == CalmRun(<<Control("BEL")>>)
  <1>1. ASSUME NEW fb, Shape(fb) PROVE Calm(fb, Apply(fb, Control("BEL")))
    <2>. DEFINE g == Unwrapped(fb)
                q == Apply(fb, Control("BEL"))
    <2>1. Shape(g)
      BY <1>1, UnwrappedPainting
    <2>2. q = [g EXCEPT !.bell_count = @ + 1]
      BY Applied
    <2>3. Keeps(g, q) /\ Touches(g, q, {"bell_count"})
      <3>. HIDE DEF g, q
      <3>. QED
        BY <2>1, <2>2, BellFacts
    <2>4. {"bell_count"} \cap Posture = {}
      BY DEF Posture
    <2>. QED
      BY <1>1, <2>3, <2>4, UnwrappedCalm
  <1>. QED
    BY <1>1, CalmOne

LEMMA TitleCalm == ASSUME NEW cmd, NEW s PROVE CalmRun(<<OSC(cmd, s)>>)
  <1>1. ASSUME NEW fb, Shape(fb) PROVE Calm(fb, Apply(fb, OSC(cmd, s)))
    <2>. DEFINE q == Apply(fb, OSC(cmd, s))
    <2>1. q = OSC_dispatch(fb, cmd, s)
      BY Applied
    <2>2. Keeps(fb, q) /\ Touches(fb, q, TitleFields)
      <3>. HIDE DEF q
      <3>. QED
        BY <1>1, <2>1, TitlesSet
    <2>3. TitleFields \cap Posture = {}
      BY DEF TitleFields, Posture
    <2>. HIDE DEF q
    <2>4. Calm(fb, q)
      BY <2>2, <2>3, CalmFields
    <2>. QED
      BY <2>4 DEF q
  <1>. QED
    BY <1>1, CalmOne

-----------------------------------------------------------------------------
(* The calm parts of a frame *)

LEMMA ChangedCalm ==
    ASSUME NEW initialized, NEW from, NEW f, NEW n \in {5, 1004, 2004}
    PROVE  CalmRun(Changed(initialized, from, f, n))
  <1>1. n \in Harmless
    BY DEF Harmless
  <1>. QED
    BY <1>1, CalmNone, ModeCalmRun DEF Changed

LEMMA TwoFunctions == ASSUME NEW a, NEW b PROVE <<a>> \o <<b>> = <<a, b>>
  <1>. DEFINE s == <<a>>
              t == <<b>>
              S == {a, b}
  <1>1. s \in Seq(S) /\ t \in Seq(S) /\ <<a, b>> \in Seq(S) /\ Len(s) = 1 /\ Len(t) = 1
        /\ Len(<<a, b>>) = 2 /\ s[1] = a /\ t[1] = b /\ <<a, b>>[1] = a /\ <<a, b>>[2] = b
    OBVIOUS
  <1>. HIDE DEF s, t, S
  <1>2. s \o t \in Seq(S) /\ Len(s \o t) = 2 /\ (s \o t)[1] = s[1] /\ (s \o t)[2] = t[1]
    <2>1. /\ s \o t \in Seq(S) /\ Len(s \o t) = Len(s) + Len(t)
          /\ \A i \in 1 .. Len(s) + Len(t) :
                (s \o t)[i] = IF i <= Len(s) THEN s[i] ELSE t[i - Len(s)]
      BY <1>1, ConcatProperties
    <2>. QED
      BY <1>1, <2>1
  <1>3. s \o t = <<a, b>>
    <2>. DEFINE u == <<a, b>>
                v == s \o t
    <2>1. u \in Seq(S) /\ v \in Seq(S) /\ Len(u) = 2 /\ Len(v) = 2 /\ u[1] = v[1] /\ u[2] = v[2]
      BY <1>1, <1>2
    <2>. HIDE DEF u, v
    <2>2. Len(u) = Len(v) /\ \A i \in 1 .. Len(u) : u[i] = v[i]
      BY <2>1
    <2>3. u = v
      BY <2>1, <2>2, SeqEqual
    <2>. QED
      BY <2>3 DEF u, v
  <1>. QED
    BY <1>3 DEF s, t

LEMMA BellTitlesClipboardCalm ==
    ASSUME NEW initialized, NEW from, NEW f
    PROVE  CalmRun(Bell(from, f)) /\ CalmRun(Titles(initialized, from, f))
           /\ CalmRun(Clipboard(from, f))
  <1>1. CalmRun(Bell(from, f))
    BY CalmNone, BellCalm DEF Bell
  <1>2. CalmRun(Titles(initialized, from, f))
    <2>1. \A s, t : CalmRun(<<OSC("1", s), OSC("2", t)>>)
      <3>1. ASSUME NEW s, NEW t PROVE CalmRun(<<OSC("1", s), OSC("2", t)>>)
        <4>1. CalmRun(<<OSC("1", s)>> \o <<OSC("2", t)>>)
          BY TitleCalm, CalmConcat
        <4>2. <<OSC("1", s)>> \o <<OSC("2", t)>> = <<OSC("1", s), OSC("2", t)>>
          BY TwoFunctions
        <4>. QED
          BY <4>1, <4>2
      <3>. QED
        BY <3>1
    <2>. QED
      BY <2>1, CalmNone, TitleCalm DEF Titles
  <1>3. CalmRun(Clipboard(from, f))
    BY CalmNone, TitleCalm DEF Clipboard
  <1>. QED
    BY <1>1, <1>2, <1>3

Reportings == {0, 9, 1000, 1001, 1002, 1003}
Encodings == {0, 1005, 1006, 1015}

LEMMA MouseReportingCalm ==
    ASSUME NEW initialized, NEW old \in Reportings, NEW new \in Reportings
    PROVE  CalmRun(MouseReporting(initialized, old, new))
  <1>. DEFINE off == FALSE
              on == TRUE
              first == IF old # 0 THEN Mode(old, off) ELSE <<>>
              a == 1003
              b == 1002
              c == 1001
              d == 1000
  <1>1. a \in Harmless /\ b \in Harmless /\ c \in Harmless /\ d \in Harmless
    BY DEF Harmless
  <1>2. (old # 0 => old \in Harmless) /\ (new # 0 => new \in Harmless)
    BY DEF Harmless, Reportings, Encodings
  <1>. HIDE DEF off, on, a, b, c, d
  <1>3. CalmRun(Mode(a, off)) /\ CalmRun(Mode(b, off)) /\ CalmRun(Mode(c, off)) /\ CalmRun(Mode(d, off))
    BY <1>1, ModeCalmRun, Zenon
  <1>4. CalmRun(Mode(a, off) \o Mode(b, off) \o Mode(c, off) \o Mode(d, off))
    BY <1>3, CalmConcat, Zenon
  <1>5. CalmRun(first)
    <2>1. CASE old # 0
      <3>1. CalmRun(Mode(old, off))
        BY <1>2, <2>1, ModeCalmRun, Zenon
      <3>. QED
        BY <2>1, <3>1
    <2>2. CASE old = 0
      BY <2>2, CalmNone
    <2>. QED
      BY <2>1, <2>2
  <1>. HIDE DEF first
  <1>6. ASSUME new # 0 PROVE CalmRun(first \o Mode(new, on))
    <2>1. CalmRun(Mode(new, on))
      BY <1>2, <1>6, ModeCalmRun, Zenon
    <2>. QED
      BY <1>5, <2>1, CalmConcat, Zenon
  <1>7. \/ MouseReporting(initialized, old, new) = <<>>
        \/ MouseReporting(initialized, old, new) = Mode(a, off) \o Mode(b, off) \o Mode(c, off) \o Mode(d, off)
        \/ new # 0 /\ MouseReporting(initialized, old, new) = first \o Mode(new, on)
    <2>. DEFINE run == MouseReporting(initialized, old, new)
    <2>1. CASE initialized /\ new = old
      BY <2>1 DEF MouseReporting
    <2>2. CASE ~(initialized /\ new = old) /\ new = 0
      <3>1. run = ReportingOff
        BY <2>2 DEF MouseReporting
      <3>2. run = Mode(a, off) \o Mode(b, off) \o Mode(c, off) \o Mode(d, off)
        BY <3>1 DEF ReportingOff, off, a, b, c, d
      <3>. QED
        BY <3>2
    <2>3. CASE ~(initialized /\ new = old) /\ new # 0
      <3>1. run = (IF old # 0 THEN Mode(old, FALSE) ELSE <<>>) \o Mode(new, TRUE)
        BY <2>3 DEF MouseReporting
      <3>2. run = first \o Mode(new, on)
        BY <3>1 DEF first, off, on
      <3>. QED
        BY <2>3, <3>2
    <2>. QED
      BY <2>1, <2>2, <2>3
  <1>. QED
    BY <1>4, <1>6, <1>7, CalmNone

LEMMA MouseEncodingCalm ==
    ASSUME NEW initialized, NEW old \in Encodings, NEW new \in Encodings
    PROVE  CalmRun(MouseEncoding(initialized, old, new))
  <1>. DEFINE off == FALSE
              on == TRUE
              first == IF old # 0 THEN Mode(old, off) ELSE <<>>
              a == 1015
              b == 1006
              c == 1005
  <1>1. a \in Harmless /\ b \in Harmless /\ c \in Harmless
    BY DEF Harmless
  <1>2. (old # 0 => old \in Harmless) /\ (new # 0 => new \in Harmless)
    BY DEF Harmless, Reportings, Encodings
  <1>. HIDE DEF off, on, a, b, c
  <1>3. CalmRun(Mode(a, off)) /\ CalmRun(Mode(b, off)) /\ CalmRun(Mode(c, off))
    BY <1>1, ModeCalmRun, Zenon
  <1>4. CalmRun(Mode(a, off) \o Mode(b, off) \o Mode(c, off))
    BY <1>3, CalmConcat, Zenon
  <1>5. CalmRun(first)
    <2>1. CASE old # 0
      <3>1. CalmRun(Mode(old, off))
        BY <1>2, <2>1, ModeCalmRun, Zenon
      <3>. QED
        BY <2>1, <3>1
    <2>2. CASE old = 0
      BY <2>2, CalmNone
    <2>. QED
      BY <2>1, <2>2
  <1>. HIDE DEF first
  <1>6. ASSUME new # 0 PROVE CalmRun(first \o Mode(new, on))
    <2>1. CalmRun(Mode(new, on))
      BY <1>2, <1>6, ModeCalmRun, Zenon
    <2>. QED
      BY <1>5, <2>1, CalmConcat, Zenon
  <1>7. \/ MouseEncoding(initialized, old, new) = <<>>
        \/ MouseEncoding(initialized, old, new) = Mode(a, off) \o Mode(b, off) \o Mode(c, off)
        \/ new # 0 /\ MouseEncoding(initialized, old, new) = first \o Mode(new, on)
    <2>. DEFINE run == MouseEncoding(initialized, old, new)
    <2>1. CASE initialized /\ new = old
      BY <2>1 DEF MouseEncoding
    <2>2. CASE ~(initialized /\ new = old) /\ new = 0
      <3>1. run = EncodingOff
        BY <2>2 DEF MouseEncoding
      <3>2. run = Mode(a, off) \o Mode(b, off) \o Mode(c, off)
        BY <3>1 DEF EncodingOff, off, a, b, c
      <3>. QED
        BY <3>2
    <2>3. CASE ~(initialized /\ new = old) /\ new # 0
      <3>1. run = (IF old # 0 THEN Mode(old, FALSE) ELSE <<>>) \o Mode(new, TRUE)
        BY <2>3 DEF MouseEncoding
      <3>2. run = first \o Mode(new, on)
        BY <3>1 DEF first, off, on
      <3>. QED
        BY <2>3, <3>2
    <2>. QED
      BY <2>1, <2>2, <2>3
  <1>. QED
    BY <1>4, <1>6, <1>7, CalmNone

-----------------------------------------------------------------------------
(* The writer and the screen it believes in *)

LEMMA RegionSet ==
    ASSUME NEW fb, Shape(fb), Modest(fb), NEW p \in Seq(Int),
           NEW q, q = Act(fb, <<CSI("DECSTBM", p)>>)
    PROVE  /\ Keeps(fb, q) /\ Modest(q)
           /\ p = <<>> /\ fb.height > 1 => Plain(q)
           /\ p = <<>> /\ Plain(fb) => Plain(q)
           /\ Free(q)
  <1>. DEFINE g == Unwrapped(fb)
  <1>1. q = CSI_DECSTBM(g, p)
    <2>1. q = Apply(fb, CSI("DECSTBM", p))
      BY ActOne, Zenon
    <2>. QED
      BY <2>1, Applied
  <1>2. /\ Keeps(fb, g) /\ Shape(g) /\ Free(g) /\ g.modes = fb.modes
        /\ g.top = fb.top /\ g.bottom = fb.bottom /\ g.height = fb.height
    BY UnwrappedPainting
  <1>3. Modest(g) /\ (Plain(fb) => Plain(g)) /\ ~g.next_print_will_wrap
    BY <1>2 DEF Modest, Plain, Free
  <1>. HIDE DEF g
  <1>4. Keeps(g, q)
    BY <1>1, <1>2, Margins
  <1>5. /\ Modest(q)
        /\ p = <<>> /\ g.height > 1 => Plain(q)
        /\ Plain(g) /\ p = <<>> => Plain(q)
    BY <1>1, <1>2, <1>3, Margins
  <1>6. Free(q)
    BY <1>1, <1>2, Margins DEF Free
  <1>. QED
    BY <1>2, <1>3, <1>4, <1>5, <1>6, KeepsBoth

FrameFields == {"out", "x", "y", "rendition", "cursor_visible"}

\* What a frame is made of.
FrameOK(fr) == fr = [k \in FrameFields |-> fr[k]] /\ IsSeq(fr.out) /\ fr.x \in Int /\ fr.y \in Int

\* The screen that a frame has drawn on the screen c.
Drawn(c, fr) == Act(c, fr.out)

Fit(c, fr, f) == FrameOK(fr) /\ Shape(Drawn(c, fr)) /\ Modest(Drawn(c, fr)) /\ SameSizes(f, Drawn(c, fr))
Good(c, fr, f) == Fit(c, fr, f) /\ Plain(Drawn(c, fr))

\* The cursor is where the writer believes it to be; on the last row, after put_row has filled
\* it, it may be left of there.
Near(fb, y, x) ==
    /\ fb.cursor_row = y /\ Free(fb)
    /\ fb.cursor_col = x \/ (y = fb.height - 1 /\ fb.cursor_col <= x)

Lost(fr) == fr.x = -1 /\ fr.y = -1

\* Beyond the right edge the writer may only believe itself on the last row, or in a window
\* one column wide.
Sure(c, fr, f) ==
    /\ fr.y \in 0 .. f.height - 1
    /\ \/ fr.x \in 0 .. f.width - 1 /\ Near(Drawn(c, fr), fr.y, fr.x)
       \/ /\ fr.x = f.width /\ Drawn(c, fr).cursor_row = fr.y
          /\ fr.y = f.height - 1 \/ f.width = 1

Located(c, fr, f) == Lost(fr) \/ Sure(c, fr, f)

\* append draws on top of what the frame has drawn.
LEMMA Appended ==
    ASSUME NEW c, NEW fr, FrameOK(fr), NEW fs, IsSeq(fs), NEW g, g = append(fr, fs)
    PROVE  /\ FrameOK(g) /\ g.x = fr.x /\ g.y = fr.y /\ g.out = fr.out \o fs
           /\ g.rendition = fr.rendition /\ g.cursor_visible = fr.cursor_visible
           /\ Drawn(c, g) = Act(Drawn(c, fr), fs)
  <1>1. FrameFields = {"out", "x", "y", "rendition", "cursor_visible"} /\ fr = [k \in FrameFields |-> fr[k]]
    BY DEF FrameFields, FrameOK
  <1>2. g = [fr EXCEPT !.out = fr.out \o fs]
    BY DEF append
  <1>3. /\ g = [k \in FrameFields |-> g[k]] /\ g.out = fr.out \o fs /\ g.x = fr.x /\ g.y = fr.y
        /\ g.rendition = fr.rendition /\ g.cursor_visible = fr.cursor_visible
    BY <1>1, <1>2
  <1>4. IsSeq(fr.out) /\ fr.x \in Int /\ fr.y \in Int
    BY DEF FrameOK
  <1>5. IsSeq(fr.out \o fs)
    BY <1>4, ConcatFacts
  <1>6. FrameOK(g)
    BY <1>3, <1>4, <1>5 DEF FrameOK
  <1>7. Drawn(c, g) = Act(Drawn(c, fr), fs)
    <2>1. Act(c, fr.out \o fs) = Act(Act(c, fr.out), fs)
      <3>. DEFINE o == fr.out
      <3>1. IsSeq(o) /\ IsSeq(fs)
        BY <1>4
      <3>. HIDE DEF o
      <3>2. Act(c, o \o fs) = Act(Act(c, o), fs)
        BY <3>1, ActConcat
      <3>. QED
        BY <3>2 DEF o
    <2>. QED
      BY <1>3, <2>1 DEF Drawn
  <1>. QED
    BY <1>3, <1>6, <1>7

\* What is only noted, not written.
LEMMA NotedAt ==
    ASSUME NEW c, NEW fr, FrameOK(fr), NEW y \in Int, NEW x \in Int, NEW g, g = At(fr, y, x)
    PROVE  FrameOK(g) /\ g.y = y /\ g.x = x /\ g.out = fr.out /\ Drawn(c, g) = Drawn(c, fr)
  <1>1. FrameFields = {"out", "x", "y", "rendition", "cursor_visible"} /\ fr = [k \in FrameFields |-> fr[k]]
    BY DEF FrameFields, FrameOK
  <1>2. g = [fr EXCEPT !.y = y, !.x = x]
    BY DEF At
  <1>3. g = [k \in FrameFields |-> g[k]] /\ g.out = fr.out /\ g.x = x /\ g.y = y
    BY <1>1, <1>2
  <1>. QED
    BY <1>3 DEF FrameOK, Drawn

LEMMA NotedColumn ==
    ASSUME NEW c, NEW fr, FrameOK(fr), NEW x \in Int, NEW g, g = [fr EXCEPT !.x = x]
    PROVE  FrameOK(g) /\ g.y = fr.y /\ g.x = x /\ g.out = fr.out /\ Drawn(c, g) = Drawn(c, fr)
  <1>1. FrameFields = {"out", "x", "y", "rendition", "cursor_visible"} /\ fr = [k \in FrameFields |-> fr[k]]
    BY DEF FrameFields, FrameOK
  <1>2. g = [k \in FrameFields |-> g[k]] /\ g.out = fr.out /\ g.x = x /\ g.y = fr.y
    BY <1>1
  <1>. QED
    BY <1>2 DEF FrameOK, Drawn

LEMMA NotedRest ==
    ASSUME NEW c, NEW fr, FrameOK(fr), NEW v, NEW g,
           g = [fr EXCEPT !.cursor_visible = v] \/ g = [fr EXCEPT !.rendition = v]
    PROVE  FrameOK(g) /\ g.y = fr.y /\ g.x = fr.x /\ g.out = fr.out /\ Drawn(c, g) = Drawn(c, fr)
  <1>1. FrameFields = {"out", "x", "y", "rendition", "cursor_visible"} /\ fr = [k \in FrameFields |-> fr[k]]
    BY DEF FrameFields, FrameOK
  <1>2. g = [k \in FrameFields |-> g[k]] /\ g.out = fr.out /\ g.x = fr.x /\ g.y = fr.y
    BY <1>1
  <1>. QED
    BY <1>2 DEF FrameOK, Drawn

LEMMA SizesAgree ==
    ASSUME NEW c, NEW fr, NEW f, Fit(c, fr, f)
    PROVE  /\ Drawn(c, fr).width = f.width /\ Drawn(c, fr).height = f.height
           /\ f.width \in Nat \ {0} /\ f.height \in Nat \ {0}
           /\ Drawn(c, fr).cursor_row \in Nat /\ Drawn(c, fr).cursor_col \in Nat
           /\ Drawn(c, fr).cursor_row < f.height /\ Drawn(c, fr).cursor_col < f.width
  BY CursorTypes DEF Fit, SameSizes

\* What keeps the screen's modes and size keeps the frame fit.
LEMMA FitKept ==
    ASSUME NEW c, NEW fr, NEW f, Fit(c, fr, f), NEW g, FrameOK(g),
           Keeps(Drawn(c, fr), Drawn(c, g)), Modest(Drawn(c, g))
    PROVE  Fit(c, g, f)
  BY DEF Fit, Keeps, SameSizes

LEMMA GoodPainted ==
    ASSUME NEW c, NEW fr, NEW f, Fit(c, fr, f), NEW g, FrameOK(g),
           Keeps(Drawn(c, fr), Drawn(c, g)), Touches(Drawn(c, fr), Drawn(c, g), Painting)
    PROVE  Fit(c, g, f) /\ (Good(c, fr, f) => Good(c, g, f))
  <1>1. /\ Modest(Drawn(c, fr)) => Modest(Drawn(c, g))
        /\ Plain(Drawn(c, fr)) => Plain(Drawn(c, g))
    BY StillPlain
  <1>2. Fit(c, g, f)
    BY <1>1, FitKept DEF Fit
  <1>. QED
    BY <1>1, <1>2 DEF Good

\* A calm function appended keeps all that is believed of the cursor.
LEMMA CalmlyWritten ==
    ASSUME NEW c, NEW fr, NEW f, Fit(c, fr, f), NEW g, FrameOK(g), Calm(Drawn(c, fr), Drawn(c, g))
    PROVE  /\ Fit(c, g, f) /\ (Good(c, fr, f) => Good(c, g, f))
           /\ \A y, x : Near(Drawn(c, fr), y, x) => Near(Drawn(c, g), y, x)
           /\ g.x = fr.x /\ g.y = fr.y =>
                 /\ Sure(c, fr, f) => Sure(c, g, f)
                 /\ Located(c, fr, f) => Located(c, g, f)
  <1>. DEFINE a == Drawn(c, fr)
              b == Drawn(c, g)
  <1>1. Keeps(a, b) /\ Modest(b) /\ b.height = a.height /\ b.cursor_row = a.cursor_row
    BY DEF Calm, Fit, Keeps, SameSizes
  <1>2. Fit(c, g, f)
    BY <1>1, FitKept
  <1>3. Plain(a) => Plain(b)
    BY CalmIsPlain
  <1>4. \A y, x : Near(a, y, x) => Near(b, y, x)
    BY <1>1 DEF Near, Calm
  <1>5. g.x = fr.x /\ g.y = fr.y /\ Sure(c, fr, f) => Sure(c, g, f)
    <2>. HIDE DEF a, b
    <2>1. a = Drawn(c, fr) /\ b = Drawn(c, g)
      BY DEF a, b
    <2>. QED
      BY <1>1, <1>4, <2>1 DEF Sure
  <1>. QED
    BY <1>2, <1>3, <1>4, <1>5 DEF Good, Located, Lost

LEMMA CalmAppend ==
    ASSUME NEW c, NEW fr, NEW f, Fit(c, fr, f), NEW fs, CalmRun(fs), NEW g, g = append(fr, fs)
    PROVE  /\ FrameOK(g) /\ g.x = fr.x /\ g.y = fr.y
           /\ g.rendition = fr.rendition /\ g.cursor_visible = fr.cursor_visible
           /\ Calm(Drawn(c, fr), Drawn(c, g))
           /\ Fit(c, g, f) /\ (Good(c, fr, f) => Good(c, g, f))
           /\ Sure(c, fr, f) => Sure(c, g, f)
           /\ Located(c, fr, f) => Located(c, g, f)
           /\ \A y, x : Near(Drawn(c, fr), y, x) => Near(Drawn(c, g), y, x)
  <1>1. FrameOK(fr) /\ IsSeq(fs) /\ Shape(Drawn(c, fr))
    BY DEF Fit, CalmRun
  <1>2. /\ FrameOK(g) /\ g.x = fr.x /\ g.y = fr.y
        /\ g.rendition = fr.rendition /\ g.cursor_visible = fr.cursor_visible
        /\ Drawn(c, g) = Act(Drawn(c, fr), fs)
    BY <1>1, Appended
  <1>3. Calm(Drawn(c, fr), Drawn(c, g))
    BY <1>1, <1>2 DEF CalmRun
  <1>. QED
    BY <1>2, <1>3, CalmlyWritten

\* update_rendition is calm.
LEMMA Rendered ==
    ASSUME NEW c, NEW fr, NEW f, Fit(c, fr, f), NEW r, NEW force, NEW g,
           g = update_rendition(fr, r, force)
    PROVE  /\ FrameOK(g) /\ g.x = fr.x /\ g.y = fr.y
           /\ Calm(Drawn(c, fr), Drawn(c, g))
           /\ Drawn(c, g).next_print_will_wrap = Drawn(c, fr).next_print_will_wrap
           /\ Fit(c, g, f) /\ (Good(c, fr, f) => Good(c, g, f))
           /\ Sure(c, fr, f) => Sure(c, g, f)
           /\ Located(c, fr, f) => Located(c, g, f)
           /\ \A y, x : Near(Drawn(c, fr), y, x) => Near(Drawn(c, g), y, x)
  <1>0. FrameOK(fr) /\ Shape(Drawn(c, fr))
    BY DEF Fit
  <1>1. CASE g = fr
    BY <1>0, <1>1, CalmItself DEF Good
  <1>2. CASE g # fr
    <2>. DEFINE fs == <<CSI("SGR", sgr(r))>>
                h == append(fr, fs)
    <2>1. g = [h EXCEPT !.rendition = r]
      BY <1>2 DEF update_rendition
    <2>2. IsSeq(fs)
      BY OneFunction
    <2>3. FrameOK(h) /\ h.x = fr.x /\ h.y = fr.y /\ Drawn(c, h) = Act(Drawn(c, fr), fs)
      BY <1>0, <2>2, Appended
    <2>4. /\ Calm(Drawn(c, fr), Drawn(c, h))
          /\ Drawn(c, h).next_print_will_wrap = Drawn(c, fr).next_print_will_wrap
      BY <1>0, <2>3, ActOne, RenditionCalm
    <2>. HIDE DEF h
    <2>5. FrameOK(g) /\ g.x = h.x /\ g.y = h.y /\ Drawn(c, g) = Drawn(c, h)
      BY <2>1, <2>3, NotedRest
    <2>. QED
      BY <2>3, <2>4, <2>5, CalmlyWritten
  <1>. QED
    BY <1>1, <1>2

LEMMA SureRow ==
    ASSUME NEW c, NEW fr, NEW f, Fit(c, fr, f), Sure(c, fr, f)
    PROVE  /\ fr.y \in Nat /\ fr.x \in Nat /\ fr.y < f.height /\ fr.x <= f.width
           /\ Drawn(c, fr).cursor_row = fr.y
           /\ fr.x < f.width => /\ Free(Drawn(c, fr))
                                /\ \/ Drawn(c, fr).cursor_col = fr.x
                                   \/ fr.y = f.height - 1 /\ Drawn(c, fr).cursor_col <= fr.x
           /\ ~(fr.x < f.width) => fr.y = f.height - 1 \/ f.width = 1
  <1>1. f.width \in Nat \ {0} /\ f.height \in Nat \ {0} /\ Drawn(c, fr).height = f.height
    BY SizesAgree
  <1>. QED
    BY <1>1 DEF Sure, Near

\* Carriage return and line feeds.
LEMMA DownToStart ==
    ASSUME NEW c, NEW fr, NEW f, Good(c, fr, f), Sure(c, fr, f),
           NEW n \in Nat, fr.y + n < f.height, NEW q,
           q = Act(Drawn(c, fr), (IF fr.x # 0 THEN <<Control("CR")>> ELSE <<>>) \o Repeat(n, "LF"))
    PROVE  /\ Keeps(Drawn(c, fr), q) /\ Touches(Drawn(c, fr), q, Painting)
           /\ q.cursor_row = fr.y + n /\ q.cursor_col = 0 /\ Free(q)
  <1>. DEFINE d == Drawn(c, fr)
              s == IF fr.x # 0 THEN <<Control("CR")>> ELSE <<>>
              t == Repeat(n, "LF")
              m == Act(d, s)
  <1>1. Fit(c, fr, f) /\ Shape(d) /\ Plain(d) /\ Modest(d)
    BY DEF Good, Fit
  <1>2. /\ fr.y \in Nat /\ fr.x \in Nat /\ d.cursor_row = fr.y
        /\ fr.x < f.width => Free(d) /\ (d.cursor_col = fr.x \/ d.cursor_col <= fr.x)
    BY <1>1, SureRow
  <1>3. d.cursor_col \in Nat /\ f.width \in Nat \ {0} /\ d.height = f.height /\ f.height \in Nat
    BY <1>1, SizesAgree
  <1>4. IsSeq(s) /\ IsSeq(t)
    <2>1. IsSeq(<<>>)
      BY CalmNone DEF CalmRun
    <2>2. IsSeq(<<Control("CR")>>)
      BY OneFunction
    <2>. QED
      BY <2>1, <2>2, FilledFacts DEF Repeat
  <1>5. q = Act(m, t)
    <2>. HIDE DEF s, t, d
    <2>1. q = Act(d, s \o t)
      BY DEF s, t, d
    <2>2. Act(d, s \o t) = Act(Act(d, s), t)
      BY <1>4, ActConcat
    <2>. QED
      BY <2>1, <2>2
  <1>6. /\ Keeps(d, m) /\ Touches(d, m, Painting) /\ Free(m) /\ m.cursor_col = 0
        /\ m.cursor_row = fr.y
    <2>1. CASE fr.x # 0
      <3>1. m = Apply(d, Control("CR"))
        BY <2>1, ActOne
      <3>. QED
        BY <1>1, <1>2, <3>1, CarriageReturn
    <2>2. CASE fr.x = 0
      <3>1. m = d
        BY <2>2, ActNone
      <3>2. d.cursor_col = 0 /\ Free(d)
        BY <1>2, <1>3, <2>2
      <3>3. Keeps(d, d) /\ Touches(d, d, Painting)
        BY <1>1, Itself
      <3>. QED
        BY <1>2, <3>1, <3>2, <3>3
    <2>. QED
      BY <2>1, <2>2
  <1>. HIDE DEF m, t, s, d
  <1>7. Shape(m) /\ Plain(m) /\ m.height = f.height
    BY <1>1, <1>3, <1>6, StillPlain DEF Keeps, SameSizes
  <1>8. q = Act(m, Repeat(n, "LF"))
    BY <1>5 DEF t
  <1>9. /\ Keeps(m, q) /\ Touches(m, q, Painting) /\ q.cursor_col = m.cursor_col
        /\ n > 0 \/ Free(m) => Free(q)
        /\ Plain(m) => q.cursor_row = IF m.cursor_row + n < m.height
                                      THEN m.cursor_row + n ELSE m.height - 1
    BY <1>7, <1>8, LineFeeds
  <1>10. Keeps(d, q) /\ Touches(d, q, Painting)
    BY <1>6, <1>9, KeepsBoth, PaintingBoth
  <1>11. q.cursor_row = fr.y + n
    BY <1>2, <1>6, <1>7, <1>9
  <1>. QED
    BY <1>6, <1>9, <1>10, <1>11 DEF d

\* Backspaces, which may lose count on the last row.
LEMMA BackTo ==
    ASSUME NEW c, NEW fr, NEW f, Good(c, fr, f), Sure(c, fr, f),
           NEW n \in Nat \ {0}, n <= fr.x, NEW q, q = Act(Drawn(c, fr), Repeat(n, "BS"))
    PROVE  /\ Keeps(Drawn(c, fr), q) /\ Touches(Drawn(c, fr), q, Painting)
           /\ Near(q, fr.y, fr.x - n)
  <1>. DEFINE d == Drawn(c, fr)
  <1>1. Fit(c, fr, f) /\ Shape(d) /\ Modest(d)
    BY DEF Good, Fit
  <1>2. /\ fr.y \in Nat /\ fr.x \in Nat /\ fr.x <= f.width /\ d.cursor_row = fr.y
        /\ fr.x < f.width => d.cursor_col = fr.x \/ (fr.y = f.height - 1 /\ d.cursor_col <= fr.x)
        /\ ~(fr.x < f.width) => fr.y = f.height - 1 \/ f.width = 1
    BY <1>1, SureRow
  <1>3. d.cursor_col \in Nat /\ f.width \in Nat \ {0} /\ d.height = f.height /\ f.height \in Nat
        /\ d.cursor_col < f.width
    BY <1>1, SizesAgree
  <1>4. /\ Keeps(d, q) /\ Touches(d, q, Painting) /\ Free(q)
        /\ q.cursor_row = d.cursor_row
        /\ q.cursor_col = IF d.cursor_col > n THEN d.cursor_col - n ELSE 0
    BY <1>1, Backspaces
  <1>5. q.height = f.height
    BY <1>3, <1>4 DEF Keeps, SameSizes
  <1>. HIDE DEF d
  <1>6. q.cursor_col = fr.x - n \/ (fr.y = f.height - 1 /\ q.cursor_col <= fr.x - n)
    <2>1. CASE fr.x < f.width
      <3>1. CASE d.cursor_col = fr.x
        BY <1>2, <1>3, <1>4, <3>1
      <3>2. CASE fr.y = f.height - 1 /\ d.cursor_col <= fr.x
        BY <1>2, <1>3, <1>4, <3>2
      <3>. QED
        BY <1>2, <2>1, <3>1, <3>2
    <2>2. CASE ~(fr.x < f.width)
      <3>1. fr.x = f.width
        BY <1>2, <1>3, <2>2
      <3>2. CASE fr.y = f.height - 1
        BY <1>2, <1>3, <1>4, <3>1, <3>2
      <3>3. CASE f.width = 1
        BY <1>2, <1>3, <1>4, <3>1, <3>3
      <3>. QED
        BY <1>2, <2>2, <3>2, <3>3
    <2>. QED
      BY <2>1, <2>2
  <1>7. Near(q, fr.y, fr.x - n)
    BY <1>2, <1>4, <1>5, <1>6 DEF Near
  <1>. QED
    BY <1>4, <1>7 DEF d

Moves(c, fr, f, g, y, x) ==
    /\ FrameOK(g) /\ g.y = y /\ g.x = x
    /\ Keeps(Drawn(c, fr), Drawn(c, g)) /\ Touches(Drawn(c, fr), Drawn(c, g), Painting)
    /\ Near(Drawn(c, g), y, x)
    /\ Lost(fr) => Drawn(c, g).cursor_col = x

\* FrameState::append_move: after it the cursor is where it was to go, whichever way it took.
LEMMA MoveAppended ==
    ASSUME NEW c, NEW fr, NEW f, Fit(c, fr, f), Lost(fr) \/ (Good(c, fr, f) /\ Sure(c, fr, f)),
           NEW y \in 0 .. f.height - 1, NEW x \in 0 .. f.width - 1, NEW g, g = append_move(fr, y, x)
    PROVE  Moves(c, fr, f, g, y, x)
  <1>. DEFINE d == Drawn(c, fr)
              down == y - fr.y
              left == fr.x - x
              known == fr.x # -1 /\ fr.y # -1
              start == known /\ x = 0 /\ down \in 0 .. ShortMove - 1
              back == known /\ down = 0 /\ left \in 1 .. ShortMove - 1
              fs == IF start THEN (IF fr.x # 0 THEN <<Control("CR")>> ELSE <<>>) \o Repeat(down, "LF")
                    ELSE IF back THEN Repeat(left, "BS") ELSE CUP(y, x)
              h == append(fr, fs)
  <1>1. g = At(h, y, x)
    BY DEF append_move
  <1>2. FrameOK(fr) /\ Shape(d) /\ Modest(d) /\ fr.x \in Int /\ fr.y \in Int
    BY DEF Fit, FrameOK
  <1>3. f.width \in Nat \ {0} /\ f.height \in Nat \ {0} /\ d.width = f.width /\ d.height = f.height
    BY SizesAgree
  <1>4. y \in Int /\ x \in Int
    BY <1>3
  <1>5. known => /\ Good(c, fr, f) /\ Sure(c, fr, f) /\ fr.x \in Nat /\ fr.y \in Nat
                 /\ d.cursor_row = fr.y
    BY SureRow DEF Lost
  <1>. HIDE DEF d, h
  <1>6. /\ IsSeq(fs) /\ Keeps(d, Act(d, fs)) /\ Touches(d, Act(d, fs), Painting)
        /\ Near(Act(d, fs), y, x) /\ (Lost(fr) => Act(d, fs).cursor_col = x)
    <2>1. CASE start
      <3>. DEFINE s == IF fr.x # 0 THEN <<Control("CR")>> ELSE <<>>
                  q == Act(d, fs)
      <3>1. fs = s \o Repeat(down, "LF")
        BY <2>1
      <3>2. down \in Nat /\ fr.y + down = y /\ y < f.height /\ known /\ x = 0
        BY <1>2, <1>3, <1>4, <2>1, DisplayAssumption
      <3>3. IsSeq(fs)
        <4>1. IsSeq(<<>>)
          BY CalmNone DEF CalmRun
        <4>2. IsSeq(<<Control("CR")>>)
          BY OneFunction
        <4>3. IsSeq(s) /\ IsSeq(Repeat(down, "LF"))
          BY <3>2, <4>1, <4>2, FilledFacts DEF Repeat
        <4>. HIDE DEF s, fs, down
        <4>. QED
          BY <3>1, <4>3, ConcatFacts
      <3>4. /\ Keeps(d, q) /\ Touches(d, q, Painting)
            /\ q.cursor_row = fr.y + down /\ q.cursor_col = 0 /\ Free(q)
        <4>1. Good(c, fr, f) /\ Sure(c, fr, f) /\ down \in Nat /\ fr.y + down < f.height
          BY <1>5, <3>2
        <4>2. q = Act(Drawn(c, fr), (IF fr.x # 0 THEN <<Control("CR")>> ELSE <<>>) \o Repeat(down, "LF"))
          BY <3>1 DEF d
        <4>. HIDE DEF down, q
        <4>. QED
          BY <4>1, <4>2, DownToStart DEF d
      <3>5. Near(q, y, x) /\ q.cursor_col = x
        BY <3>2, <3>4 DEF Near
      <3>. QED
        BY <3>3, <3>4, <3>5
    <2>2. CASE ~start /\ back
      <3>. DEFINE q == Act(d, fs)
      <3>1. fs = Repeat(left, "BS")
        BY <2>2
      <3>2. left \in Nat \ {0} /\ left <= fr.x /\ fr.x - left = x /\ fr.y = y /\ known
        BY <1>2, <1>3, <1>4, <2>2, DisplayAssumption
      <3>3. IsSeq(fs)
        BY <3>1, <3>2, FilledFacts DEF Repeat
      <3>4. Keeps(d, q) /\ Touches(d, q, Painting) /\ Near(q, fr.y, fr.x - left)
        <4>1. Good(c, fr, f) /\ Sure(c, fr, f) /\ left \in Nat \ {0} /\ left <= fr.x
          BY <1>5, <3>2
        <4>2. q = Act(Drawn(c, fr), Repeat(left, "BS"))
          BY <3>1 DEF d
        <4>. HIDE DEF left, q
        <4>. QED
          BY <4>1, <4>2, BackTo DEF d
      <3>5. ~Lost(fr) /\ Near(q, y, x)
        BY <3>2, <3>4 DEF Lost
      <3>. QED
        BY <3>3, <3>4, <3>5
    <2>3. CASE ~start /\ ~back
      <3>. DEFINE q == Act(d, fs)
      <3>1. fs = CUP(y, x)
        BY <2>3
      <3>2. IsSeq(fs)
        BY <3>1, OneFunction DEF CUP
      <3>3. /\ Keeps(d, q) /\ Touches(d, q, Painting) /\ Free(q)
            /\ q.cursor_row = y /\ q.cursor_col = x
        <4>1. y \in 0 .. d.height - 1 /\ x \in 0 .. d.width - 1
          BY <1>3
        <4>2. q = Act(d, CUP(y, x))
          BY <3>1
        <4>. HIDE DEF q
        <4>. QED
          BY <1>2, <4>1, <4>2, MoveTo
      <3>4. Near(q, y, x)
        BY <3>3 DEF Near
      <3>. QED
        BY <3>2, <3>3, <3>4
    <2>. QED
      BY <2>1, <2>2, <2>3
  <1>. HIDE DEF fs
  <1>7. FrameOK(h) /\ Drawn(c, h) = Act(d, fs)
    BY <1>2, <1>6, Appended DEF h, d
  <1>8. FrameOK(g) /\ g.y = y /\ g.x = x /\ Drawn(c, g) = Drawn(c, h)
    BY <1>1, <1>4, <1>7, NotedAt
  <1>. QED
    BY <1>6, <1>7, <1>8 DEF Moves, d

LEMMA SilentMoveAppended ==
    ASSUME NEW c, NEW fr, NEW f, Fit(c, fr, f), Lost(fr) \/ (Good(c, fr, f) /\ Sure(c, fr, f)),
           NEW y \in 0 .. f.height - 1, NEW x \in 0 .. f.width - 1,
           NEW g, g = append_silent_move(fr, y, x)
    PROVE  /\ FrameOK(g) /\ g.y = y /\ g.x = x
           /\ Fit(c, g, f) /\ (Good(c, fr, f) => Good(c, g, f))
           /\ Near(Drawn(c, g), y, x)
           /\ Lost(fr) => Drawn(c, g).cursor_col = x
  <1>1. FrameOK(fr)
    BY DEF Fit
  <1>2. f.width \in Nat \ {0} /\ f.height \in Nat \ {0}
    BY SizesAgree
  <1>3. CASE fr.x = x /\ fr.y = y
    <2>1. g = fr
      BY <1>3 DEF append_silent_move
    <2>2. ~Lost(fr) /\ Sure(c, fr, f) /\ fr.x # f.width
      BY <1>2, <1>3 DEF Lost
    <2>3. Near(Drawn(c, fr), y, x)
      BY <1>3, <2>2 DEF Sure
    <2>. QED
      BY <1>1, <1>3, <2>1, <2>2, <2>3
  <1>4. CASE ~(fr.x = x /\ fr.y = y)
    <2>. DEFINE fs == Mode(25, FALSE)
                a == append(fr, fs)
                h == IF fr.cursor_visible THEN [a EXCEPT !.cursor_visible = FALSE] ELSE fr
    <2>1. g = append_move(h, y, x)
      BY <1>4 DEF append_silent_move
    <2>2. /\ FrameOK(h) /\ h.x = fr.x /\ h.y = fr.y /\ Calm(Drawn(c, fr), Drawn(c, h))
          /\ Fit(c, h, f) /\ (Good(c, fr, f) => Good(c, h, f))
          /\ Sure(c, fr, f) => Sure(c, h, f)
      <3>1. CASE fr.cursor_visible
        <4>1. CalmRun(fs)
          <5>1. 25 \in Harmless
            BY DEF Harmless
          <5>. QED
            BY <5>1, ModeCalmRun
        <4>. HIDE DEF fs
        <4>2. FrameOK(a) /\ a.x = fr.x /\ a.y = fr.y /\ Calm(Drawn(c, fr), Drawn(c, a))
          BY <4>1, CalmAppend
        <4>. HIDE DEF a
        <4>3. FrameOK(h) /\ h.y = a.y /\ h.x = a.x /\ Drawn(c, h) = Drawn(c, a)
          BY <3>1, <4>2, NotedRest
        <4>. QED
          BY <4>2, <4>3, CalmlyWritten
      <3>2. CASE ~fr.cursor_visible
        <4>1. h = fr
          BY <3>2
        <4>2. Calm(Drawn(c, fr), Drawn(c, fr))
          BY CalmItself DEF Fit
        <4>. QED
          BY <1>1, <4>1, <4>2
      <3>. QED
        BY <3>1, <3>2
    <2>. HIDE DEF h
    <2>3. Lost(fr) <=> Lost(h)
      BY <2>2 DEF Lost
    <2>4. Moves(c, h, f, g, y, x)
      BY <2>1, <2>2, <2>3, MoveAppended
    <2>5. Fit(c, g, f) /\ (Good(c, h, f) => Good(c, g, f))
      BY <2>2, <2>4, GoodPainted DEF Moves
    <2>. QED
      BY <2>2, <2>3, <2>4, <2>5 DEF Moves
  <1>. QED
    BY <1>3, <1>4

-----------------------------------------------------------------------------
(* put_row *)

Advanced(g, h) == h = [g EXCEPT !.x = @ + 1]

\* append_cell prints one character, whatever the cell holds.
LEMMA CellPrinted ==
    ASSUME NEW c, NEW fr, NEW f, Good(c, fr, f), NEW cell, NEW g, g = append_cell(fr, cell),
           NEW h, Advanced(g, h)
    PROVE  /\ FrameOK(h) /\ h.x = fr.x + 1 /\ h.y = fr.y
           /\ \E ch : Drawn(c, h) = print(Drawn(c, fr), ch)
           /\ Good(c, h, f)
  <1>. DEFINE fs == <<Glyph(IF IsEmpty(cell) THEN " " ELSE cell.contents)>>
  <1>1. FrameOK(fr) /\ Shape(Drawn(c, fr)) /\ Fit(c, fr, f)
    BY DEF Good, Fit
  <1>2. g = append(fr, fs)
    BY DEF append_cell
  <1>3. IsSeq(fs)
    BY OneFunction
  <1>4. PICK ch : fs = <<Glyph(ch)>>
    OBVIOUS
  <1>. HIDE DEF fs
  <1>5. FrameOK(g) /\ g.x = fr.x /\ g.y = fr.y /\ Drawn(c, g) = Act(Drawn(c, fr), fs)
    BY <1>1, <1>2, <1>3, Appended
  <1>6. Drawn(c, g) = print(Drawn(c, fr), ch)
    <2>1. Drawn(c, g) = Act(Drawn(c, fr), <<Glyph(ch)>>)
      BY <1>4, <1>5
    <2>2. Drawn(c, g) = Apply(Drawn(c, fr), Glyph(ch))
      BY <2>1, ActOne, Zenon
    <2>. QED
      BY <2>2, Applied
  <1>7. g.x \in Int /\ g.x + 1 \in Int /\ h = [g EXCEPT !.x = g.x + 1]
    BY <1>5 DEF FrameOK, Advanced
  <1>8. FrameOK(h) /\ h.y = g.y /\ h.x = g.x + 1 /\ Drawn(c, h) = Drawn(c, g)
    BY <1>5, <1>7, NotedColumn
  <1>9. Keeps(Drawn(c, fr), Drawn(c, h)) /\ Touches(Drawn(c, fr), Drawn(c, h), Painting)
    BY <1>1, <1>6, <1>8, PrintFacts
  <1>10. Good(c, h, f)
    BY <1>1, <1>8, <1>9, GoodPainted
  <1>. QED
    BY <1>5, <1>6, <1>8, <1>10

\* The last cell of a row is written.
Ended(c, fr, f, y) ==
    /\ fr.y = y /\ fr.x = f.width /\ Drawn(c, fr).cursor_row = y
    /\ RowWraps(RowAt(f, y)) /\ y < f.height - 1 => Pending(Drawn(c, fr))

\* A cell of put_row that differs: in the last column it leaves a wrap pending.
LEMMA CellDrawn ==
    ASSUME NEW c, NEW fr, NEW f, Good(c, fr, f), Located(c, fr, f),
           NEW y \in 0 .. f.height - 1, NEW x \in 0 .. f.width - 1, NEW cell,
           NEW g, g = DrawCell(fr, f, y, x, cell)
    PROVE  /\ Good(c, g, f)
           /\ x + 1 < f.width => Sure(c, g, f)
           /\ x + 1 = f.width => Ended(c, g, f, y)
  <1>. DEFINE wraps == RowWraps(RowAt(f, y))
              end == wraps /\ x + 1 >= f.width
              base == IF end THEN At(fr, -1, -1) ELSE fr
              moved == append_silent_move(base, y, x)
              shown == update_rendition(moved, cell.renditions, FALSE)
              d == Drawn(c, shown)
              e == Drawn(c, g)
  <1>0. /\ f.width \in Nat \ {0} /\ f.height \in Nat \ {0} /\ y \in Nat /\ x \in Nat
        /\ y < f.height /\ x < f.width
    <2>1. Fit(c, fr, f)
      BY DEF Good
    <2>2. f.width \in Nat \ {0} /\ f.height \in Nat \ {0}
      BY <2>1, SizesAgree
    <2>. QED
      BY <2>2
  <1>1. Good(c, base, f) /\ Fit(c, base, f) /\ (Lost(base) \/ Sure(c, base, f)) /\ (end => Lost(base))
    <2>1. CASE end
      <3>1. FrameOK(fr) /\ -1 \in Int
        BY DEF Good, Fit
      <3>2. base = At(fr, -1, -1)
        BY <2>1
      <3>. HIDE DEF base
      <3>3. FrameOK(base) /\ base.x = -1 /\ base.y = -1 /\ Drawn(c, base) = Drawn(c, fr)
        BY <3>1, <3>2, NotedAt
      <3>. QED
        BY <3>3 DEF Good, Fit, Lost
    <2>2. CASE ~end
      BY <2>2 DEF Good, Located
    <2>. QED
      BY <2>1, <2>2
  <1>2. g = [append_cell(shown, cell) EXCEPT !.x = @ + 1]
    BY DEF DrawCell
  <1>. HIDE DEF base
  <1>3. /\ moved.y = y /\ moved.x = x /\ Fit(c, moved, f) /\ Good(c, moved, f)
        /\ Near(Drawn(c, moved), y, x)
        /\ Lost(base) => Drawn(c, moved).cursor_col = x
    <2>1. moved = append_silent_move(base, y, x)
      OBVIOUS
    <2>. HIDE DEF moved
    <2>2. Lost(base) \/ (Good(c, base, f) /\ Sure(c, base, f))
      BY <1>1
    <2>. QED
      BY <1>1, <2>1, <2>2, SilentMoveAppended
  <1>4. /\ shown.x = x /\ shown.y = y /\ Good(c, shown, f) /\ Fit(c, shown, f) /\ Near(d, y, x)
        /\ Lost(base) => d.cursor_col = x
    <2>. DEFINE off == FALSE
                r == cell.renditions
    <2>1. shown = update_rendition(moved, r, off)
      OBVIOUS
    <2>. HIDE DEF shown, moved, off, r
    <2>2. /\ shown.x = moved.x /\ shown.y = moved.y /\ Calm(Drawn(c, moved), Drawn(c, shown))
          /\ Good(c, shown, f)
      BY <1>3, <2>1, Rendered
    <2>3. Near(Drawn(c, shown), y, x)
      BY <1>3, <2>1, Rendered
    <2>. QED
      BY <1>3, <2>2, <2>3 DEF Calm, Good
  <1>. HIDE DEF shown, moved
  <1>5. /\ FrameOK(g) /\ g.x = x + 1 /\ g.y = y /\ Good(c, g, f)
        /\ \E ch : e = print(d, ch)
    <2>. DEFINE inner == append_cell(shown, cell)
    <2>1. inner = append_cell(shown, cell) /\ Advanced(inner, g)
      BY <1>2 DEF Advanced
    <2>. HIDE DEF inner
    <2>. QED
      BY <1>4, <2>1, CellPrinted
  <1>6. /\ Shape(d) /\ Plain(d) /\ d.width = f.width /\ d.height = f.height
        /\ d.cursor_col \in Nat /\ ~d.next_print_will_wrap
    BY <1>4, SizesAgree DEF Good, Fit, Near, Free
  <1>. HIDE DEF d
  <1>7. /\ Keeps(d, e)
        /\ e.cursor_row = d.cursor_row
        /\ e.cursor_col = Clamp(d.cursor_col + 1, 0, d.width - 1)
        /\ e.next_print_will_wrap = (d.cursor_col + 1 >= d.width)
    <2>. HIDE DEF e
    <2>. QED
      BY <1>5, <1>6, PrintFacts
  <1>. HIDE DEF e
  <1>8. /\ d.cursor_row = y
        /\ d.cursor_col = x \/ (y = f.height - 1 /\ d.cursor_col <= x)
    BY <1>4, <1>6 DEF Near
  <1>9. e.height = f.height
    BY <1>6, <1>7 DEF Keeps, SameSizes
  <1>10. ASSUME x + 1 < f.width PROVE Sure(c, g, f)
    <2>1. ~(d.cursor_col + 1 >= d.width)
      BY <1>0, <1>6, <1>8, <1>10
    <2>2. (d.cursor_col + 1 >= d.width) = FALSE
      BY <2>1
    <2>3. Free(e)
      BY <1>7, <2>2 DEF Free
    <2>4. e.cursor_col = d.cursor_col + 1
      BY <1>0, <1>6, <1>7, <2>1 DEF Clamp
    <2>5. e.cursor_col = x + 1 \/ (y = f.height - 1 /\ e.cursor_col <= x + 1)
      BY <1>0, <1>6, <1>8, <2>4
    <2>6. Near(e, y, x + 1)
      BY <1>7, <1>8, <1>9, <2>3, <2>5 DEF Near
    <2>7. g.x \in 0 .. f.width - 1 /\ g.y \in 0 .. f.height - 1
      BY <1>0, <1>5, <1>10
    <2>. QED
      BY <1>5, <2>6, <2>7 DEF Sure, e
  <1>11. ASSUME x + 1 = f.width PROVE Ended(c, g, f, y)
    <2>1. ASSUME wraps, y < f.height - 1 PROVE Pending(e)
      <3>1. d.cursor_col + 1 >= d.width
        BY <1>0, <1>6, <1>8, <1>11, <2>1
      <3>2. (d.cursor_col + 1 >= d.width) = TRUE
        BY <3>1
      <3>. QED
        BY <1>7, <3>2 DEF Pending
    <2>. QED
      BY <1>5, <1>7, <1>8, <1>11, <2>1 DEF Ended, e
  <1>. QED
    BY <1>5, <1>10, <1>11

\* A run of blanks.
Blanked(fr, x, n, g) == g = [append(fr, Filled(n, Glyph(" "))) EXCEPT !.x = x + n]

\* A run of blanks written as spaces.
LEMMA BlanksWritten ==
    ASSUME NEW c, NEW fr, NEW f, Good(c, fr, f), NEW y \in 0 .. f.height - 1, NEW x \in 0 .. f.width - 1,
           fr.y = y, Near(Drawn(c, fr), y, x), NEW n \in Nat \ {0}, x + n <= f.width,
           NEW g, Blanked(fr, x, n, g)
    PROVE  /\ Good(c, g, f) /\ g.y = y /\ g.x = x + n /\ Drawn(c, g).cursor_row = y
           /\ x + n < f.width => Sure(c, g, f)
           /\ x + n = f.width => Ended(c, g, f, y)
  <1>. DEFINE fs == Filled(n, Glyph(" "))
              h == append(fr, fs)
              d == Drawn(c, fr)
              e == Drawn(c, g)
  <1>1. FrameOK(fr) /\ Shape(d) /\ Plain(d) /\ Fit(c, fr, f) /\ Free(d) /\ d.cursor_row = y
    BY DEF Good, Fit, Near
  <1>2. IsSeq(fs)
    BY FilledFacts
  <1>3. FrameOK(h) /\ h.x = fr.x /\ h.y = fr.y /\ Drawn(c, h) = Act(d, fs)
    <2>1. h = append(fr, fs)
      OBVIOUS
    <2>. HIDE DEF fs, h
    <2>. QED
      BY <1>1, <1>2, <2>1, Appended
  <1>. HIDE DEF fs
  <1>4. /\ f.width \in Nat \ {0} /\ f.height \in Nat \ {0} /\ y \in Nat /\ x \in Nat /\ x < f.width
        /\ y < f.height /\ d.width = f.width /\ d.height = f.height /\ d.cursor_col \in Nat
    <2>1. /\ f.width \in Nat \ {0} /\ f.height \in Nat \ {0} /\ d.width = f.width
          /\ d.height = f.height /\ d.cursor_col \in Nat
      BY <1>1, SizesAgree
    <2>. QED
      BY <2>1
  <1>5. g = [h EXCEPT !.x = x + n] /\ x + n \in Int
    <2>1. g = [h EXCEPT !.x = x + n]
      BY DEF fs, Blanked
    <2>2. x + n \in Int
      BY <1>4
    <2>. QED
      BY <2>1, <2>2
  <1>. HIDE DEF h
  <1>6. FrameOK(g) /\ g.y = y /\ g.x = x + n /\ Drawn(c, g) = Drawn(c, h)
    BY <1>3, <1>5, NotedColumn
  <1>7. d.cursor_col = x \/ (y = f.height - 1 /\ d.cursor_col <= x)
    BY <1>4 DEF Near
  <1>8. d.cursor_col + n <= d.width
    BY <1>4, <1>7
  <1>9. e = Act(d, Filled(n, Glyph(" ")))
    BY <1>3, <1>6 DEF fs
  <1>. HIDE DEF d, e
  <1>10. /\ Keeps(d, e) /\ Touches(d, e, Painting) /\ e.cursor_row = d.cursor_row
         /\ d.cursor_col + n < d.width => Free(e) /\ e.cursor_col = d.cursor_col + n
         /\ d.cursor_col + n = d.width => Pending(e)
    <2>. DEFINE blank == " "
    <2>1. e = Act(d, Filled(n, Glyph(blank))) /\ n \in Nat
      BY <1>9
    <2>. HIDE DEF blank
    <2>. QED
      BY <1>1, <1>8, <2>1, Printed
  <1>11. Good(c, g, f)
    BY <1>1, <1>6, <1>10, GoodPainted DEF d, e
  <1>12. e.height = f.height
    BY <1>4, <1>10 DEF Keeps, SameSizes
  <1>13. ASSUME x + n < f.width PROVE Sure(c, g, f)
    <2>1. d.cursor_col + n < d.width
      BY <1>4, <1>7, <1>13
    <2>2. e.cursor_col = x + n \/ (y = f.height - 1 /\ e.cursor_col <= x + n)
      BY <1>4, <1>7, <1>10, <2>1
    <2>3. Near(e, y, x + n)
      BY <1>1, <1>10, <1>12, <2>1, <2>2 DEF Near
    <2>4. g.x \in 0 .. f.width - 1 /\ g.y \in 0 .. f.height - 1
      BY <1>4, <1>6, <1>13
    <2>. QED
      BY <1>6, <2>3, <2>4 DEF Sure, e
  <1>14. ASSUME x + n = f.width PROVE Ended(c, g, f, y)
    <2>1. ASSUME y < f.height - 1 PROVE Pending(e)
      <3>1. d.cursor_col + n = d.width
        BY <1>4, <1>7, <1>14, <2>1
      <3>. QED
        BY <1>10, <3>1
    <2>. QED
      BY <1>1, <1>6, <1>10, <1>14, <2>1 DEF Ended, e
  <1>. QED
    BY <1>1, <1>6, <1>10, <1>11, <1>13, <1>14 DEF e

\* The writer moved, and ready to draw.
Ready(fr, y, x, r, g) == g = update_rendition(append_silent_move(fr, y, x), r, FALSE)

LEMMA Readied ==
    ASSUME NEW c, NEW fr, NEW f, Good(c, fr, f), Located(c, fr, f),
           NEW y \in 0 .. f.height - 1, NEW x \in 0 .. f.width - 1, NEW r,
           NEW g, Ready(fr, y, x, r, g)
    PROVE  Good(c, g, f) /\ Sure(c, g, f) /\ g.y = y /\ g.x = x /\ Near(Drawn(c, g), y, x)
  <1>. DEFINE off == FALSE
              m == append_silent_move(fr, y, x)
  <1>1. Fit(c, fr, f) /\ (Lost(fr) \/ (Good(c, fr, f) /\ Sure(c, fr, f)))
    BY DEF Good, Located
  <1>2. m = append_silent_move(fr, y, x) /\ g = update_rendition(m, r, off)
    BY DEF Ready
  <1>. HIDE DEF m, off
  <1>3. m.y = y /\ m.x = x /\ Fit(c, m, f) /\ Good(c, m, f) /\ Near(Drawn(c, m), y, x)
    BY <1>1, <1>2, SilentMoveAppended
  <1>4. g.x = m.x /\ g.y = m.y /\ Good(c, g, f) /\ Near(Drawn(c, g), y, x)
    <2>1. g.x = m.x /\ g.y = m.y /\ Good(c, g, f)
      BY <1>2, <1>3, Rendered
    <2>2. Near(Drawn(c, g), y, x)
      BY <1>2, <1>3, Rendered
    <2>. QED
      BY <2>1, <2>2
  <1>5. Sure(c, g, f)
    BY <1>3, <1>4 DEF Sure
  <1>. QED
    BY <1>3, <1>4, <1>5

\* What erasing leaves of it.
LEMMA ErasedThere ==
    ASSUME NEW c, NEW fr, NEW f, Good(c, fr, f), Sure(c, fr, f), NEW name \in {"EL", "ED", "ECH"},
           NEW p, NEW g, g = append(fr, <<CSI(name, p)>>)
    PROVE  Good(c, g, f) /\ Sure(c, g, f)
  <1>. DEFINE fs == <<CSI(name, p)>>
  <1>1. FrameOK(fr) /\ Shape(Drawn(c, fr)) /\ Fit(c, fr, f)
    BY DEF Good, Fit
  <1>2. IsSeq(fs) /\ g = append(fr, fs)
    BY OneFunction
  <1>3. Act(Drawn(c, fr), fs) = Apply(Drawn(c, fr), CSI(name, p))
    BY ActOne, Zenon
  <1>. HIDE DEF fs
  <1>4. FrameOK(g) /\ g.x = fr.x /\ g.y = fr.y /\ Drawn(c, g) = Act(Drawn(c, fr), fs)
    BY <1>1, <1>2, Appended
  <1>5. Calm(Drawn(c, fr), Drawn(c, g))
    BY <1>1, <1>3, <1>4, Erased
  <1>. QED
    BY <1>1, <1>4, <1>5, CalmlyWritten

\* A run of blanks, erased or written.
LEMMA RunCleared ==
    ASSUME NEW c, NEW acc, NEW f, Good(c, acc.fr, f), Located(c, acc.fr, f),
           NEW y \in 0 .. f.height - 1, NEW x \in 0 .. f.width - 1, acc.clear \in 1 .. x,
           NEW g, g = ClearRun(acc, y, x)
    PROVE  Good(c, g, f) /\ Sure(c, g, f)
  <1>. DEFINE n == acc.clear
              from == x - n
              m == update_rendition(append_silent_move(acc.fr, y, from), acc.blank, FALSE)
  <1>1. f.width \in Nat \ {0} /\ f.height \in Nat \ {0}
    BY SizesAgree DEF Good
  <1>2. /\ n \in Nat \ {0} /\ from \in 0 .. f.width - 1 /\ from + n = x /\ x < f.width /\ x \in Int
        /\ from + n <= f.width /\ from + n < f.width
    BY <1>1
  <1>3. g = IF n > EraseMin THEN append(m, <<CSI("ECH", <<n>>)>>)
            ELSE [append(m, Filled(n, Glyph(" "))) EXCEPT !.x = x]
    BY DEF ClearRun
  <1>4. Good(c, m, f) /\ Sure(c, m, f) /\ m.y = y /\ m.x = from /\ Near(Drawn(c, m), y, from)
    <2>. DEFINE r == acc.blank
                fr == acc.fr
    <2>1. Ready(fr, y, from, r, m)
      BY DEF Ready
    <2>2. Good(c, fr, f) /\ Located(c, fr, f) /\ from \in 0 .. f.width - 1
      BY <1>2
    <2>. HIDE DEF m, r, fr, from, n
    <2>. QED
      BY <2>1, <2>2, Readied
  <1>. HIDE DEF m, from, n
  <1>5. CASE n > EraseMin
    <2>1. g = append(m, <<CSI("ECH", <<n>>)>>)
      BY <1>3, <1>5
    <2>2. "ECH" \in {"EL", "ED", "ECH"}
      OBVIOUS
    <2>. QED
      BY <1>4, <2>1, <2>2, ErasedThere
  <1>6. CASE ~(n > EraseMin)
    <2>1. Blanked(m, from, n, g)
      BY <1>2, <1>3, <1>6 DEF Blanked
    <2>. QED
      BY <1>2, <1>4, <2>1, BlanksWritten
  <1>. QED
    BY <1>5, <1>6

AccFields == {"fr", "clear", "blank", "wrote_last_cell"}

\* The loop's state before column x of row y.
Columns(c, acc, f, y, x) ==
    /\ acc = [k \in AccFields |-> acc[k]]
    /\ Good(c, acc.fr, f) /\ acc.clear \in 0 .. x
    /\ \/ acc.wrote_last_cell = FALSE /\ Located(c, acc.fr, f)
       \/ acc.wrote_last_cell = TRUE /\ x = f.width /\ acc.clear = 0 /\ Ended(c, acc.fr, f, y)

\* put_row, one cell: what it knows of the cursor before the column, it knows after it.
LEMMA CellPut ==
    ASSUME NEW c, NEW acc, NEW f, NEW y \in 0 .. f.height - 1, NEW x \in 0 .. f.width - 1,
           Columns(c, acc, f, y, x), NEW initialized, NEW old_cell, NEW g,
           g = PutCell(acc, initialized, f, y, x, old_cell)
    PROVE  Columns(c, g, f, y, x + 1)
  <1>. DEFINE cell == CellAt(f, y, x)
              fr == IF acc.clear > 0 THEN ClearRun(acc, y, x) ELSE acc.fr
              w == x + 1 >= f.width
              drawn == [fr |-> DrawCell(fr, f, y, x, cell), clear |-> 0, blank |-> acc.blank,
                        wrote_last_cell |-> w]
              r == cell.renditions
  <1>1. f.width \in Nat \ {0} /\ f.height \in Nat \ {0} /\ x < f.width /\ x \in Nat
    BY SizesAgree DEF Columns, Good
  <1>2. /\ acc = [k \in AccFields |-> acc[k]] /\ Good(c, acc.fr, f) /\ acc.clear \in 0 .. x
        /\ acc.wrote_last_cell = FALSE /\ Located(c, acc.fr, f)
    BY <1>1 DEF Columns
  <1>3. Good(c, fr, f) /\ Located(c, fr, f)
    <2>1. CASE acc.clear > 0
      <3>1. acc.clear \in 1 .. x
        BY <1>2, <2>1
      <3>2. fr = ClearRun(acc, y, x)
        BY <2>1
      <3>. HIDE DEF fr
      <3>. QED
        BY <1>2, <3>1, <3>2, RunCleared DEF Located
    <2>2. CASE ~(acc.clear > 0)
      BY <1>2, <2>2
    <2>. QED
      BY <2>1, <2>2
  <1>4. \/ g = acc \/ g = drawn
        \/ g = [acc EXCEPT !.clear = @ + 1] /\ acc.clear > 0
        \/ g = [acc EXCEPT !.fr = fr, !.clear = 1, !.blank = r]
    BY DEF PutCell
  <1>. HIDE DEF fr, cell, r, w
  <1>5. CASE g = acc
    <2>1. acc.clear \in 0 .. x + 1
      BY <1>1, <1>2
    <2>. QED
      BY <1>2, <1>5, <2>1 DEF Columns
  <1>6. CASE g = drawn
    <2>. DEFINE h == DrawCell(fr, f, y, x, cell)
    <2>1. /\ g = [k \in AccFields |-> g[k]] /\ g.fr = h /\ g.clear = 0 /\ g.wrote_last_cell = w
      BY <1>6 DEF AccFields
    <2>2. /\ Good(c, h, f)
          /\ x + 1 < f.width => Sure(c, h, f)
          /\ x + 1 = f.width => Ended(c, h, f, y)
      <3>1. h = DrawCell(fr, f, y, x, cell)
        OBVIOUS
      <3>. HIDE DEF h
      <3>. QED
        BY <1>3, <3>1, CellDrawn
    <2>. HIDE DEF h
    <2>3. 0 \in 0 .. x + 1
      BY <1>1
    <2>4. CASE x + 1 < f.width
      <3>1. w = FALSE
        BY <1>1, <2>4 DEF w
      <3>. QED
        BY <2>1, <2>2, <2>3, <2>4, <3>1 DEF Columns, Located
    <2>5. CASE x + 1 = f.width
      <3>1. w = TRUE
        BY <1>1, <2>5 DEF w
      <3>. QED
        BY <2>1, <2>2, <2>3, <2>5, <3>1 DEF Columns
    <2>6. x + 1 < f.width \/ x + 1 = f.width
      BY <1>1
    <2>. QED
      BY <2>4, <2>5, <2>6
  <1>7. CASE g = [acc EXCEPT !.clear = @ + 1] /\ acc.clear > 0
    <2>1. /\ g = [k \in AccFields |-> g[k]] /\ g.fr = acc.fr /\ g.clear = acc.clear + 1
          /\ g.wrote_last_cell = acc.wrote_last_cell
      BY <1>2, <1>7 DEF AccFields
    <2>2. g.clear \in 0 .. x + 1
      BY <1>1, <1>2, <2>1
    <2>. QED
      BY <1>2, <2>1, <2>2 DEF Columns
  <1>8. CASE g = [acc EXCEPT !.fr = fr, !.clear = 1, !.blank = r]
    <2>1. /\ g = [k \in AccFields |-> g[k]] /\ g.fr = fr /\ g.clear = 1
          /\ g.wrote_last_cell = acc.wrote_last_cell
      BY <1>2, <1>8 DEF AccFields
    <2>2. g.clear \in 0 .. x + 1
      BY <1>1, <2>1
    <2>. QED
      BY <1>2, <1>3, <2>1, <2>2 DEF Columns
  <1>. QED
    BY <1>4, <1>5, <1>6, <1>7, <1>8

\* The row done, blanks and all.
RowDone(c, acc, f, y) ==
    /\ Good(c, acc.fr, f)
    /\ \/ acc.wrote_last_cell = FALSE /\ Located(c, acc.fr, f)
       \/ acc.wrote_last_cell = TRUE /\ Ended(c, acc.fr, f, y)

\* put_row, after the last cell.
LEMMA LineEnded ==
    ASSUME NEW c, NEW acc, NEW f, NEW y \in 0 .. f.height - 1,
           Columns(c, acc, f, y, f.width), NEW g, g = EndOfLine(acc, f, y)
    PROVE  RowDone(c, g, f, y)
  <1>. SUFFICES /\ Good(c, g.fr, f)
                /\ \/ g.wrote_last_cell = FALSE /\ Located(c, g.fr, f)
                   \/ g.wrote_last_cell = TRUE /\ Ended(c, g.fr, f, y)
    BY DEF RowDone
  <1>. DEFINE n == acc.clear
              from == f.width - n
              m == update_rendition(append_silent_move(acc.fr, y, from), acc.blank, FALSE)
              el == append(m, <<CSI("EL", <<>>)>>)
              blanks == [append(m, Filled(n, Glyph(" "))) EXCEPT !.x = f.width]
  <1>1. f.width \in Nat \ {0} /\ f.height \in Nat \ {0}
    BY SizesAgree DEF Columns, Good
  <1>2. acc = [k \in AccFields |-> acc[k]] /\ Good(c, acc.fr, f) /\ n \in 0 .. f.width
    BY DEF Columns
  <1>3. CASE n = 0
    <2>1. g = acc
      BY <1>3 DEF EndOfLine
    <2>. QED
      BY <2>1 DEF Columns
  <1>4. CASE n # 0
    <2>1. acc.wrote_last_cell = FALSE /\ Located(c, acc.fr, f)
      BY <1>4 DEF Columns
    <2>2. n \in Nat \ {0} /\ from \in 0 .. f.width - 1 /\ from + n = f.width
      BY <1>1, <1>2, <1>4
    <2>3. g = IF ~RowWraps(RowAt(f, y)) THEN [acc EXCEPT !.fr = el]
              ELSE [acc EXCEPT !.fr = blanks, !.wrote_last_cell = TRUE]
      BY <1>4 DEF EndOfLine
    <2>4. Good(c, m, f) /\ Sure(c, m, f) /\ m.y = y /\ m.x = from /\ Near(Drawn(c, m), y, from)
      <3>. DEFINE r == acc.blank
                  fr == acc.fr
      <3>1. Ready(fr, y, from, r, m)
        BY DEF Ready
      <3>2. Good(c, fr, f) /\ Located(c, fr, f) /\ from \in 0 .. f.width - 1
        BY <1>2, <2>1, <2>2
      <3>. HIDE DEF m, r, fr, from, n
      <3>. QED
        BY <3>1, <3>2, Readied
    <2>. HIDE DEF m, from
    <2>5. CASE ~RowWraps(RowAt(f, y))
      <3>1. g.fr = el /\ g.wrote_last_cell = FALSE
        <4>. HIDE DEF el, blanks
        <4>. QED
          BY <1>2, <2>1, <2>3, <2>5 DEF AccFields
      <3>2. "EL" \in {"EL", "ED", "ECH"} /\ el = append(m, <<CSI("EL", <<>>)>>)
        OBVIOUS
      <3>. HIDE DEF el
      <3>3. Good(c, el, f) /\ Sure(c, el, f)
        BY <2>4, <3>2, ErasedThere
      <3>. QED
        BY <3>1, <3>3 DEF Located
    <2>6. CASE RowWraps(RowAt(f, y))
      <3>1. g.fr = blanks /\ g.wrote_last_cell = TRUE
        <4>. HIDE DEF el, blanks
        <4>. QED
          BY <1>2, <2>1, <2>3, <2>6 DEF AccFields
      <3>2. Blanked(m, from, n, blanks)
        BY <2>2 DEF Blanked
      <3>3. from + n <= f.width
        BY <1>1, <2>2
      <3>. HIDE DEF blanks, n
      <3>4. Good(c, blanks, f) /\ Ended(c, blanks, f, y)
        BY <2>2, <2>4, <3>2, <3>3, BlanksWritten
      <3>. QED
        BY <3>1, <3>4
    <2>. QED
      BY <2>5, <2>6
  <1>. QED
    BY <1>3, <1>4

\* Before row k: either the writer knows where it is, or it does not; or the cursor waits at
\* the end of the row above, to wrap.
Begun(c, r, f, k) ==
    /\ Good(c, r[1], f)
    /\ \/ r[2] = FALSE /\ Located(c, r[1], f)
       \/ /\ r[2] = TRUE /\ k < f.height
          /\ r[1].y = k /\ r[1].x = 0 /\ Drawn(c, r[1]).cursor_row = k - 1
          /\ Pending(Drawn(c, r[1]))

\* put_row, before the next row: only a full line that wraps on may wait for it.
LEMMA LineFollowed ==
    ASSUME NEW c, NEW acc, NEW f, NEW y \in 0 .. f.height - 1, RowDone(c, acc, f, y),
           NEW r, r = NextLine(acc, f, y)
    PROVE  Begun(c, r, f, y + 1)
  <1>. DEFINE fr == acc.fr
              fs == <<Control("CR"), Control("LF")>>
              h == append(fr, fs)
              wraps == RowWraps(RowAt(f, y))
              later == At(fr, fr.y + 1, 0)
              below == At(h, fr.y + 1, 0)
  <1>1. Good(c, fr, f) /\ Fit(c, fr, f) /\ FrameOK(fr)
    BY DEF RowDone, Good, Fit
  <1>2. f.width \in Nat \ {0} /\ f.height \in Nat \ {0} /\ y \in Nat /\ y < f.height
    <2>1. f.width \in Nat \ {0} /\ f.height \in Nat \ {0}
      BY <1>1, SizesAgree
    <2>. QED
      BY <2>1
  <1>3. CASE acc.wrote_last_cell = FALSE
    <2>1. r = <<fr, FALSE>>
      BY <1>3 DEF NextLine
    <2>2. r[1] = fr /\ r[2] = FALSE
      BY <2>1
    <2>. QED
      BY <1>1, <1>3, <2>2 DEF RowDone, Begun
  <1>4. CASE acc.wrote_last_cell = TRUE
    <2>1. Ended(c, fr, f, y)
      BY <1>4 DEF RowDone
    <2>2. fr.y = y /\ fr.x = f.width /\ Drawn(c, fr).cursor_row = y
      BY <2>1 DEF Ended
    <2>3. CASE y >= f.height - 1
      <3>1. r = <<fr, FALSE>>
        BY <2>3 DEF NextLine
      <3>2. r[1] = fr /\ r[2] = FALSE
        BY <3>1
      <3>3. fr.y \in 0 .. f.height - 1 /\ fr.y = f.height - 1
        BY <1>2, <2>2, <2>3
      <3>4. Sure(c, fr, f)
        BY <2>2, <3>3 DEF Sure
      <3>. QED
        BY <1>1, <3>2, <3>4 DEF Begun, Located
    <2>4. CASE ~(y >= f.height - 1) /\ wraps
      <3>1. r = <<later, TRUE>>
        BY <1>4, <2>4 DEF NextLine
      <3>2. r[1] = later /\ r[2] = TRUE
        BY <3>1
      <3>3. FrameOK(later) /\ later.y = fr.y + 1 /\ later.x = 0 /\ Drawn(c, later) = Drawn(c, fr)
        <4>1. fr.y + 1 \in Int /\ 0 \in Int
          BY <1>2, <2>2
        <4>. QED
          BY <1>1, <4>1, NotedAt
      <3>. HIDE DEF later
      <3>4. Pending(Drawn(c, fr))
        BY <1>2, <2>1, <2>4 DEF Ended
      <3>5. Good(c, later, f)
        BY <1>1, <3>3 DEF Good, Fit
      <3>6. y + 1 < f.height /\ (y + 1) - 1 = y
        BY <1>2, <2>4
      <3>. QED
        BY <2>2, <3>2, <3>3, <3>4, <3>5, <3>6 DEF Begun
    <2>5. CASE ~(y >= f.height - 1) /\ ~wraps
      <3>1. r = <<below, FALSE>>
        BY <1>4, <2>5 DEF NextLine
      <3>2. r[1] = below /\ r[2] = FALSE
        BY <3>1
      <3>. DEFINE d == Drawn(c, fr)
                  m == Act(d, <<Control("CR")>>)
                  e == Act(m, <<Control("LF")>>)
      <3>3. Shape(d) /\ Plain(d) /\ Modest(d) /\ d.height = f.height
        BY <1>1, SizesAgree DEF Good, Fit
      <3>4. /\ Keeps(d, m) /\ Touches(d, m, Painting) /\ m.cursor_col = 0 /\ m.cursor_row = y
        <4>1. m = Apply(d, Control("CR"))
          BY ActOne
        <4>. HIDE DEF m, d
        <4>2. d.cursor_row = y
          BY <2>2 DEF d
        <4>. QED
          BY <3>3, <4>1, <4>2, CarriageReturn
      <3>5. Shape(m) /\ Plain(m) /\ m.height = f.height
        <4>. HIDE DEF m, d
        <4>. QED
          BY <3>3, <3>4, StillPlain DEF Keeps, SameSizes
      <3>6. /\ Keeps(m, e) /\ Touches(m, e, Painting) /\ Free(e) /\ e.cursor_col = 0
            /\ e.cursor_row = y + 1
        <4>1. e = Apply(m, Control("LF"))
          BY ActOne
        <4>. HIDE DEF e, m, d
        <4>2. /\ Keeps(m, e) /\ Touches(m, e, Painting) /\ Free(e) /\ e.cursor_col = m.cursor_col
              /\ e.cursor_row = IF m.cursor_row < m.height - 1
                                THEN m.cursor_row + 1 ELSE m.cursor_row
          BY <3>5, <4>1, LineFeed
        <4>. QED
          BY <1>2, <2>5, <3>4, <3>5, <4>2
      <3>7. Keeps(d, e) /\ Touches(d, e, Painting)
        <4>. HIDE DEF e, m, d
        <4>. QED
          BY <3>4, <3>6, KeepsBoth, PaintingBoth
      <3>8. FrameOK(h) /\ Drawn(c, h) = e
        <4>. DEFINE s == <<Control("CR")>>
                    t == <<Control("LF")>>
        <4>1. IsSeq(s) /\ IsSeq(t)
          BY OneFunction
        <4>2. fs = s \o t
          OBVIOUS
        <4>3. e = Act(Act(d, s), t)
          OBVIOUS
        <4>. HIDE DEF s, t, e, m, d, fs
        <4>4. IsSeq(fs)
          BY <4>1, <4>2, ConcatFacts
        <4>5. Act(d, s \o t) = Act(Act(d, s), t)
          BY <4>1, ActConcat
        <4>6. FrameOK(h) /\ Drawn(c, h) = Act(Drawn(c, fr), fs)
          BY <1>1, <4>4, Appended
        <4>. QED
          BY <4>2, <4>3, <4>5, <4>6 DEF d
      <3>9. FrameOK(below) /\ below.y = fr.y + 1 /\ below.x = 0 /\ Drawn(c, below) = Drawn(c, h)
        <4>1. fr.y + 1 \in Int /\ 0 \in Int
          BY <1>2, <2>2
        <4>. HIDE DEF h
        <4>. QED
          BY <3>8, <4>1, NotedAt
      <3>. HIDE DEF below, h, e, m
      <3>10. Good(c, below, f)
        <4>1. d = Drawn(c, fr) /\ Drawn(c, below) = e
          BY <3>8, <3>9
        <4>. HIDE DEF d
        <4>. QED
          BY <1>1, <3>7, <3>9, <4>1, GoodPainted
      <3>11. Sure(c, below, f)
        <4>1. y + 1 \in 0 .. f.height - 1 /\ 0 \in 0 .. f.width - 1
          BY <1>2, <2>5
        <4>2. Near(e, y + 1, 0)
          BY <3>6 DEF Near
        <4>. QED
          BY <2>2, <3>8, <3>9, <4>1, <4>2 DEF Sure
      <3>. QED
        BY <3>2, <3>10, <3>11 DEF Begun, Located
    <2>. QED
      BY <2>3, <2>4, <2>5
  <1>. QED
    BY <1>3, <1>4 DEF RowDone

\* The cursor made to wrap, by the first cell of the row below.
LEMMA CursorWrapped ==
    ASSUME NEW c, NEW fr, NEW f, Good(c, fr, f), NEW y \in 0 .. f.height - 1,
           fr.y = y, fr.x = 0, Drawn(c, fr).cursor_row = y - 1, Pending(Drawn(c, fr)),
           NEW cell, NEW g, g = WrapCursor(fr, cell)
    PROVE  Good(c, g, f) /\ Sure(c, g, f)
  <1>. DEFINE r == cell.renditions
              off == FALSE
              shown == update_rendition(fr, r, off)
              inner == append_cell(shown, cell)
              d == Drawn(c, shown)
              e == Drawn(c, g)
  <1>1. Fit(c, fr, f) /\ f.width \in Nat \ {0} /\ f.height \in Nat \ {0} /\ y \in Nat /\ y < f.height
    <2>1. Fit(c, fr, f)
      BY DEF Good
    <2>2. f.width \in Nat \ {0} /\ f.height \in Nat \ {0}
      BY <2>1, SizesAgree
    <2>. QED
      BY <2>1, <2>2
  <1>2. Advanced(inner, g)
    BY DEF WrapCursor, Advanced
  <1>3. /\ shown.x = 0 /\ shown.y = y /\ Good(c, shown, f) /\ d.next_print_will_wrap = TRUE
        /\ d.cursor_row = y - 1
    <2>1. shown = update_rendition(fr, r, off)
      OBVIOUS
    <2>. HIDE DEF shown, off, r
    <2>2. /\ shown.x = fr.x /\ shown.y = fr.y /\ Calm(Drawn(c, fr), Drawn(c, shown))
          /\ Drawn(c, shown).next_print_will_wrap = Drawn(c, fr).next_print_will_wrap
          /\ Good(c, shown, f)
      BY <1>1, <2>1, Rendered
    <2>. QED
      BY <2>2 DEF Calm, Pending
  <1>. HIDE DEF shown
  <1>4. /\ FrameOK(g) /\ g.x = 0 + 1 /\ g.y = y /\ Good(c, g, f)
        /\ \E ch : e = print(d, ch)
    <2>. HIDE DEF inner
    <2>1. inner = append_cell(shown, cell)
      BY DEF inner
    <2>. QED
      BY <1>2, <1>3, <2>1, CellPrinted
  <1>5. Shape(d) /\ Plain(d) /\ d.width = f.width /\ d.height = f.height /\ d.next_print_will_wrap
    BY <1>3, SizesAgree DEF Good, Fit
  <1>. HIDE DEF d
  <1>6. d.cursor_row < d.height - 1
    BY <1>1, <1>3, <1>5
  <1>7. /\ e.cursor_row = d.cursor_row + 1
        /\ e.cursor_col = Clamp(1, 0, d.width - 1)
        /\ e.next_print_will_wrap = (1 >= d.width)
    <2>. HIDE DEF e
    <2>. QED
      BY <1>4, <1>5, <1>6, PrintFacts
  <1>. HIDE DEF e
  <1>8. e.cursor_row = y /\ g.x = 1 /\ g.y \in 0 .. f.height - 1
    BY <1>1, <1>3, <1>4, <1>7
  <1>9. CASE f.width = 1
    BY <1>4, <1>8, <1>9 DEF Sure, e
  <1>10. CASE f.width > 1
    <2>1. ~(1 >= d.width)
      BY <1>1, <1>5, <1>10
    <2>2. (1 >= d.width) = FALSE
      BY <2>1
    <2>3. e.cursor_col = 1
      BY <1>1, <1>5, <1>7, <1>10 DEF Clamp
    <2>4. Near(e, y, 1)
      BY <1>7, <1>8, <2>2, <2>3 DEF Near, Free
    <2>5. 1 \in 0 .. f.width - 1
      BY <1>1, <1>10
    <2>. QED
      BY <1>4, <1>8, <2>4, <2>5 DEF Sure, e
  <1>. QED
    BY <1>1, <1>9, <1>10

CellsStep(initialized, f, y, old_row, acc, x) ==
    PutCell(acc, initialized, f, y, x - 1, old_row[x])

\* The columns of a row so far: put_row's loop.
CellsValue(initialized, f, y, old_row, b, from, r, i) == IF i = from THEN b ELSE CellsStep(initialized, f, y, old_row, r[i - 1], i)
CellsSteps(initialized, f, y, old_row, b, from, to, r) == r = [i \in from .. to |-> CellsValue(initialized, f, y, old_row, b, from, r, i)]

\* put_row's cells, one at a time: the recursion has steps.
LEMMA CellsRuns ==
    ASSUME NEW initialized, NEW f, NEW y, NEW old_row, NEW b, NEW from \in Int, NEW to \in Int, from <= to
    PROVE  \E r : CellsSteps(initialized, f, y, old_row, b, from, to, r)
  <1>. DEFINE T == {k \in from .. to : \E r : CellsSteps(initialized, f, y, old_row, b, from, k, r)}
  <1>1. from \in T
    <2>. DEFINE r == [i \in from .. from |-> b]
    <2>1. r = [i \in from .. from |-> r[i]] /\ \A i \in from .. from : r[i] = b /\ i = from
      OBVIOUS
    <2>. HIDE DEF r
    <2>2. \A i \in from .. from : r[i] = CellsValue(initialized, f, y, old_row, b, from, r, i)
      BY <2>1 DEF CellsValue
    <2>3. CellsSteps(initialized, f, y, old_row, b, from, from, r)
      BY <2>1, <2>2 DEF CellsSteps
    <2>4. from \in from .. to
      OBVIOUS
    <2>. QED
      BY <2>3, <2>4
  <1>2. ASSUME NEW k \in from .. to - 1, k \in T PROVE k + 1 \in T
    <2>1. PICK p : CellsSteps(initialized, f, y, old_row, b, from, k, p)
      BY <1>2
    <2>. DEFINE r == [i \in from .. k + 1 |->
                        IF i = k + 1 THEN CellsStep(initialized, f, y, old_row, p[i - 1], i) ELSE p[i]]
    <2>2. k \in Int /\ from <= k /\ k + 1 \in from .. to
      OBVIOUS
    <2>3. \A i \in from .. k : p[i] = CellsValue(initialized, f, y, old_row, b, from, p, i)
      BY <2>1 DEF CellsSteps
    <2>4. /\ r = [i \in from .. k + 1 |-> r[i]]
          /\ \A i \in from .. k + 1 :
                r[i] = IF i = k + 1 THEN CellsStep(initialized, f, y, old_row, p[i - 1], i) ELSE p[i]
      OBVIOUS
    <2>. HIDE DEF r, T
    <2>5. ASSUME NEW i \in from .. k + 1 PROVE r[i] = CellsValue(initialized, f, y, old_row, b, from, r, i)
      <3>1. i # from => i - 1 \in from .. k + 1 /\ i - 1 # k + 1
        BY <2>2
      <3>2. i # from => r[i - 1] = p[i - 1]
        BY <2>4, <3>1
      <3>3. CASE i = k + 1
        <4>1. i # from
          BY <2>2, <3>3
        <4>. QED
          BY <2>4, <3>2, <3>3, <4>1 DEF CellsValue
      <3>4. CASE i # k + 1
        <4>1. i \in from .. k
          BY <2>2, <3>4
        <4>2. r[i] = p[i] /\ p[i] = CellsValue(initialized, f, y, old_row, b, from, p, i)
          BY <2>3, <2>4, <3>4, <4>1
        <4>. QED
          BY <3>2, <4>2 DEF CellsValue
      <3>. QED
        BY <3>3, <3>4
    <2>6. CellsSteps(initialized, f, y, old_row, b, from, k + 1, r)
      BY <2>4, <2>5 DEF CellsSteps
    <2>. QED
      BY <2>2, <2>6 DEF T
  <1>. HIDE DEF T
  <1>3. from .. to \subseteq T
    BY <1>1, <1>2, InductionFrom
  <1>4. to \in T
    BY <1>3
  <1>. QED
    BY <1>4 DEF T

CellsRan(initialized, f, y, old_row, b, from, to, r) ==
    r[from] = b /\ \A i \in from + 1 .. to : r[i] = CellsStep(initialized, f, y, old_row, r[i - 1], i)

\* ... and each is CellsStep of the one before.
LEMMA CellsUnfold ==
    ASSUME NEW initialized, NEW f, NEW y, NEW old_row, NEW b, NEW from \in Int, NEW to \in Int, from <= to,
           NEW r, CellsSteps(initialized, f, y, old_row, b, from, to, r)
    PROVE  CellsRan(initialized, f, y, old_row, b, from, to, r)
  <1>1. \A i \in from .. to : r[i] = CellsValue(initialized, f, y, old_row, b, from, r, i)
    BY DEF CellsSteps
  <1>2. from \in from .. to /\ \A i \in from + 1 .. to : i \in from .. to /\ i # from
    OBVIOUS
  <1>. QED
    BY <1>1, <1>2 DEF CellsValue, CellsRan

\* The columns of a row, one after the other.
LEMMA ColumnsDone ==
    ASSUME NEW c, NEW f, NEW y \in 0 .. f.height - 1, f.width \in Nat,
           NEW from \in Nat, from <= f.width, NEW initialized, NEW old_row,
           NEW b, Columns(c, b, f, y, from),
           NEW r, CellsSteps(initialized, f, y, old_row, b, from, f.width, r)
    PROVE  Columns(c, r[f.width], f, y, f.width)
  <1>. DEFINE n == f.width
              T == {x \in from .. n : Columns(c, r[x], f, y, x)}
  <1>1. n \in Int /\ from \in Int /\ from <= n
    OBVIOUS
  <1>2. CellsRan(initialized, f, y, old_row, b, from, n, r)
    <2>1. CellsSteps(initialized, f, y, old_row, b, from, n, r)
      OBVIOUS
    <2>. HIDE DEF n
    <2>. QED
      BY <1>1, <2>1, CellsUnfold
  <1>3. from \in T
    BY <1>1, <1>2 DEF CellsRan
  <1>4. ASSUME NEW x \in from .. n - 1, x \in T PROVE x + 1 \in T
    <2>1. x + 1 \in from + 1 .. n /\ x + 1 \in from .. n /\ (x + 1) - 1 = x /\ x \in 0 .. f.width - 1
      BY <1>1
    <2>2. r[x + 1] = PutCell(r[x], initialized, f, y, x, old_row[x + 1])
      BY <1>2, <2>1 DEF CellsRan, CellsStep
    <2>3. Columns(c, r[x], f, y, x)
      BY <1>4
    <2>. DEFINE acc == r[x]
                g == r[x + 1]
                old == old_row[x + 1]
    <2>4. Columns(c, acc, f, y, x) /\ g = PutCell(acc, initialized, f, y, x, old)
      BY <2>2, <2>3
    <2>5. Columns(c, g, f, y, x + 1)
      <3>. HIDE DEF g, acc, old
      <3>. QED
        BY <2>1, <2>4, CellPut
    <2>. QED
      BY <2>1, <2>5
  <1>. HIDE DEF T
  <1>5. from .. n \subseteq T
    <2>. HIDE DEF n
    <2>. QED
      BY <1>1, <1>3, <1>4, InductionFrom
  <1>6. n \in T
    BY <1>1, <1>5
  <1>. QED
    BY <1>6 DEF T

\* put_row keeps what new_frame believes.
LEMMA RowPut ==
    ASSUME NEW c, NEW b, NEW f, NEW y \in 0 .. f.height - 1, Begun(c, b, f, y),
           NEW initialized, NEW old_row,
           NEW r, r = put_row(initialized, b[1], f, y, old_row, b[2])
    PROVE  Begun(c, r, f, y + 1)
  <1>. DEFINE fr == b[1]
              wrap == b[2]
              begun == IF wrap THEN WrapCursor(fr, CellAt(f, y, 0)) ELSE fr
              first == IF wrap THEN 1 ELSE 0
              start == [fr |-> begun, clear |-> 0, blank |-> initial_rendition,
                        wrote_last_cell |-> FALSE]
              n == f.width
              R == CHOOSE done : CellsSteps(initialized, f, y, old_row, start, first, n, done)
              ended == EndOfLine(R[n], f, y)
  <1>1. r = IF initialized /\ RowAt(f, y) = old_row THEN <<begun, FALSE>>
            ELSE NextLine(EndOfLine(R[n], f, y), f, y)
    BY DEF put_row, CellsSteps, CellsValue, CellsStep
  <1>2. Good(c, fr, f) /\ n \in Nat \ {0} /\ f.height \in Nat \ {0}
    BY SizesAgree DEF Begun, Good
  <1>3. first \in Nat /\ first <= n
    BY <1>2
  <1>4. Good(c, begun, f) /\ Located(c, begun, f)
    <2>1. CASE wrap = FALSE
      BY <1>2, <2>1 DEF Begun
    <2>2. CASE wrap = TRUE
      <3>. DEFINE cell == CellAt(f, y, 0)
      <3>1. begun = WrapCursor(fr, cell)
        BY <2>2
      <3>2. /\ fr.y = y /\ fr.x = 0 /\ Drawn(c, fr).cursor_row = y - 1 /\ Pending(Drawn(c, fr))
        BY <2>2 DEF Begun
      <3>. HIDE DEF begun, cell, fr
      <3>. QED
        BY <1>2, <3>1, <3>2, CursorWrapped DEF Located
    <2>. QED
      BY <2>1, <2>2 DEF Begun
  <1>5. Columns(c, start, f, y, first)
    <2>. HIDE DEF begun, first
    <2>1. start = [k \in AccFields |-> start[k]] /\ start.fr = begun /\ start.clear = 0
          /\ start.wrote_last_cell = FALSE
      BY DEF AccFields
    <2>2. 0 \in 0 .. first
      BY <1>3
    <2>. HIDE DEF start
    <2>. QED
      BY <1>4, <2>1, <2>2 DEF Columns
  <1>. HIDE DEF first, start, begun
  <1>6. Columns(c, R[n], f, y, n)
    <2>1. first \in Int /\ n \in Int /\ first <= n
      BY <1>2, <1>3
    <2>2. \E done : CellsSteps(initialized, f, y, old_row, start, first, n, done)
      <3>. HIDE DEF n
      <3>. QED
        BY <2>1, CellsRuns
    <2>3. CellsSteps(initialized, f, y, old_row, start, first, n, R)
      <3>. HIDE DEF n
      <3>. QED
        BY <2>2 DEF R
    <2>. HIDE DEF R
    <2>. QED
      BY <1>2, <1>3, <1>5, <2>3, ColumnsDone
  <1>. HIDE DEF R
  <1>7. CASE initialized /\ RowAt(f, y) = old_row
    <2>1. r[1] = begun /\ r[2] = FALSE
      BY <1>1, <1>7
    <2>. QED
      BY <1>4, <2>1 DEF Begun
  <1>8. CASE ~(initialized /\ RowAt(f, y) = old_row)
    <2>1. r = NextLine(ended, f, y)
      BY <1>1, <1>8
    <2>2. RowDone(c, ended, f, y)
      <3>. DEFINE acc == R[n]
      <3>1. Columns(c, acc, f, y, f.width) /\ ended = EndOfLine(acc, f, y)
        BY <1>6
      <3>. HIDE DEF acc, ended
      <3>. QED
        BY <3>1, LineEnded
    <2>. HIDE DEF ended
    <2>. QED
      BY <2>1, <2>2, LineFollowed
  <1>. QED
    BY <1>7, <1>8

RowsStep(same, f, rows, b, y) == put_row(same, b[1], f, y - 1, rows[y], b[2])

\* The rows so far: new_frame's loop.
RowsValue(same, f, rows, b, from, r, i) == IF i = from THEN b ELSE RowsStep(same, f, rows, r[i - 1], i)
RowsSteps(same, f, rows, b, from, to, r) == r = [i \in from .. to |-> RowsValue(same, f, rows, b, from, r, i)]

\* new_frame's rows, one at a time.
LEMMA RowsRuns ==
    ASSUME NEW same, NEW f, NEW rows, NEW b, NEW from \in Int, NEW to \in Int, from <= to
    PROVE  \E r : RowsSteps(same, f, rows, b, from, to, r)
  <1>. DEFINE T == {k \in from .. to : \E r : RowsSteps(same, f, rows, b, from, k, r)}
  <1>1. from \in T
    <2>. DEFINE r == [i \in from .. from |-> b]
    <2>1. r = [i \in from .. from |-> r[i]] /\ \A i \in from .. from : r[i] = b /\ i = from
      OBVIOUS
    <2>. HIDE DEF r
    <2>2. \A i \in from .. from : r[i] = RowsValue(same, f, rows, b, from, r, i)
      BY <2>1 DEF RowsValue
    <2>3. RowsSteps(same, f, rows, b, from, from, r)
      BY <2>1, <2>2 DEF RowsSteps
    <2>4. from \in from .. to
      OBVIOUS
    <2>. QED
      BY <2>3, <2>4
  <1>2. ASSUME NEW k \in from .. to - 1, k \in T PROVE k + 1 \in T
    <2>1. PICK p : RowsSteps(same, f, rows, b, from, k, p)
      BY <1>2
    <2>. DEFINE r == [i \in from .. k + 1 |->
                        IF i = k + 1 THEN RowsStep(same, f, rows, p[i - 1], i) ELSE p[i]]
    <2>2. k \in Int /\ from <= k /\ k + 1 \in from .. to
      OBVIOUS
    <2>3. \A i \in from .. k : p[i] = RowsValue(same, f, rows, b, from, p, i)
      BY <2>1 DEF RowsSteps
    <2>4. /\ r = [i \in from .. k + 1 |-> r[i]]
          /\ \A i \in from .. k + 1 :
                r[i] = IF i = k + 1 THEN RowsStep(same, f, rows, p[i - 1], i) ELSE p[i]
      OBVIOUS
    <2>. HIDE DEF r, T
    <2>5. ASSUME NEW i \in from .. k + 1 PROVE r[i] = RowsValue(same, f, rows, b, from, r, i)
      <3>1. i # from => i - 1 \in from .. k + 1 /\ i - 1 # k + 1
        BY <2>2
      <3>2. i # from => r[i - 1] = p[i - 1]
        BY <2>4, <3>1
      <3>3. CASE i = k + 1
        <4>1. i # from
          BY <2>2, <3>3
        <4>. QED
          BY <2>4, <3>2, <3>3, <4>1 DEF RowsValue
      <3>4. CASE i # k + 1
        <4>1. i \in from .. k
          BY <2>2, <3>4
        <4>2. r[i] = p[i] /\ p[i] = RowsValue(same, f, rows, b, from, p, i)
          BY <2>3, <2>4, <3>4, <4>1
        <4>. QED
          BY <3>2, <4>2 DEF RowsValue
      <3>. QED
        BY <3>3, <3>4
    <2>6. RowsSteps(same, f, rows, b, from, k + 1, r)
      BY <2>4, <2>5 DEF RowsSteps
    <2>. QED
      BY <2>2, <2>6 DEF T
  <1>. HIDE DEF T
  <1>3. from .. to \subseteq T
    BY <1>1, <1>2, InductionFrom
  <1>4. to \in T
    BY <1>3
  <1>. QED
    BY <1>4 DEF T

RowsRan(same, f, rows, b, from, to, r) ==
    r[from] = b /\ \A i \in from + 1 .. to : r[i] = RowsStep(same, f, rows, r[i - 1], i)

LEMMA RowsUnfold ==
    ASSUME NEW same, NEW f, NEW rows, NEW b, NEW from \in Int, NEW to \in Int, from <= to,
           NEW r, RowsSteps(same, f, rows, b, from, to, r)
    PROVE  RowsRan(same, f, rows, b, from, to, r)
  <1>1. \A i \in from .. to : r[i] = RowsValue(same, f, rows, b, from, r, i)
    BY DEF RowsSteps
  <1>2. from \in from .. to /\ \A i \in from + 1 .. to : i \in from .. to /\ i # from
    OBVIOUS
  <1>. QED
    BY <1>1, <1>2 DEF RowsValue, RowsRan

\* All rows put.
LEMMA RowsPut ==
    ASSUME NEW c, NEW fr, NEW f, Good(c, fr, f), Located(c, fr, f), NEW same, NEW rows,
           NEW from \in 0 .. f.height, NEW g, g = PutRows(fr, same, f, rows, from)
    PROVE  Good(c, g, f) /\ Located(c, g, f)
  <1>. DEFINE n == f.height
              start == <<fr, FALSE>>
              R == CHOOSE r : RowsSteps(same, f, rows, start, from, n, r)
              T == {y \in from .. n : Begun(c, R[y], f, y)}
              ended == R[n]
  <1>1. n \in Nat \ {0}
    BY SizesAgree DEF Good
  <1>2. g = R[n][1]
    BY DEF PutRows, RowsSteps, RowsValue, RowsStep
  <1>3. Begun(c, start, f, from)
    <2>1. start[1] = fr /\ start[2] = FALSE
      OBVIOUS
    <2>. HIDE DEF start
    <2>. QED
      BY <2>1 DEF Begun
  <1>. HIDE DEF start
  <1>4. from \in Int /\ n \in Int /\ from <= n /\ n \in from .. n
    BY <1>1
  <1>5. RowsRan(same, f, rows, start, from, n, R)
    <2>. HIDE DEF n
    <2>1. \E r : RowsSteps(same, f, rows, start, from, n, r)
      BY <1>4, RowsRuns
    <2>2. RowsSteps(same, f, rows, start, from, n, R)
      BY <2>1 DEF R
    <2>. HIDE DEF R
    <2>. QED
      BY <1>4, <2>2, RowsUnfold
  <1>. HIDE DEF R
  <1>6. from \in T
    BY <1>3, <1>4, <1>5 DEF RowsRan
  <1>7. ASSUME NEW y \in from .. n - 1, y \in T PROVE y + 1 \in T
    <2>1. y + 1 \in from + 1 .. n /\ y + 1 \in from .. n /\ (y + 1) - 1 = y /\ y \in 0 .. f.height - 1
      BY <1>1
    <2>. DEFINE b == R[y]
                r == R[y + 1]
                old_row == rows[y + 1]
    <2>2. r = put_row(same, b[1], f, y, old_row, b[2])
      BY <1>5, <2>1 DEF RowsRan, RowsStep
    <2>3. Begun(c, b, f, y)
      BY <1>7
    <2>4. Begun(c, r, f, y + 1)
      <3>. HIDE DEF b, r, old_row
      <3>. QED
        BY <2>1, <2>2, <2>3, RowPut
    <2>. QED
      BY <2>1, <2>4
  <1>. HIDE DEF T
  <1>8. from .. n \subseteq T
    <2>. HIDE DEF n
    <2>. QED
      BY <1>4, <1>6, <1>7, InductionFrom
  <1>9. Begun(c, ended, f, f.height)
    BY <1>4, <1>8 DEF T
  <1>10. Good(c, ended[1], f) /\ Located(c, ended[1], f)
    <2>. HIDE DEF ended
    <2>1. ~(f.height < f.height)
      BY <1>1
    <2>. QED
      BY <1>9, <2>1 DEF Begun
  <1>. QED
    BY <1>2, <1>10

-----------------------------------------------------------------------------
(* new_frame *)

\* Margins set, and the writer lost.
LEMMA RegionWritten ==
    ASSUME NEW c, NEW fr, NEW f, Fit(c, fr, f), NEW p \in Seq(Int),
           NEW fs, fs = <<CSI("DECSTBM", p)>>, NEW g, g = append(fr, fs)
    PROVE  /\ FrameOK(g) /\ Fit(c, g, f) /\ Free(Drawn(c, g))
           /\ p = <<>> /\ f.height > 1 => Good(c, g, f)
           /\ p = <<>> /\ Good(c, fr, f) => Good(c, g, f)
  <1>. DEFINE d == Drawn(c, fr)
              e == Drawn(c, g)
  <1>1. FrameOK(fr) /\ Shape(d) /\ Modest(d) /\ d.height = f.height
    BY SizesAgree DEF Fit
  <1>2. IsSeq(fs)
    BY OneFunction
  <1>3. FrameOK(g) /\ Drawn(c, g) = Act(Drawn(c, fr), fs)
    BY <1>1, <1>2, Appended
  <1>4. e = Act(d, <<CSI("DECSTBM", p)>>)
    BY <1>3
  <1>5. /\ Keeps(d, e) /\ Modest(e) /\ Free(e)
        /\ p = <<>> /\ d.height > 1 => Plain(e)
        /\ p = <<>> /\ Plain(d) => Plain(e)
    <2>. HIDE DEF d, e
    <2>. QED
      BY <1>1, <1>4, RegionSet
  <1>6. Fit(c, g, f)
    BY <1>3, <1>5, FitKept
  <1>. QED
    BY <1>1, <1>3, <1>5, <1>6 DEF Good

LEMMA LinesFed ==
    ASSUME NEW c, NEW fr, NEW f, Fit(c, fr, f), NEW n \in Nat, NEW fs, fs = Repeat(n, "LF"),
           NEW g, g = append(fr, fs)
    PROVE  FrameOK(g) /\ Fit(c, g, f)
  <1>1. FrameOK(fr) /\ Shape(Drawn(c, fr)) /\ IsSeq(fs)
    BY FilledFacts DEF Fit, Repeat
  <1>2. FrameOK(g) /\ Drawn(c, g) = Act(Drawn(c, fr), fs)
    BY <1>1, Appended
  <1>3. Drawn(c, g) = Act(Drawn(c, fr), Repeat(n, "LF"))
    BY <1>2
  <1>4. Keeps(Drawn(c, fr), Drawn(c, g)) /\ Touches(Drawn(c, fr), Drawn(c, g), Painting)
    BY <1>1, <1>3, LineFeeds
  <1>. QED
    BY <1>2, <1>4, GoodPainted

LEMMA AppendTwice ==
    ASSUME NEW fr, FrameOK(fr), NEW s, NEW t, IsSeq(s), IsSeq(t)
    PROVE  append(fr, s \o t) = append(append(fr, s), t)
  <1>. DEFINE o == fr.out
              h == append(fr, s)
  <1>1. FrameFields = {"out", "x", "y", "rendition", "cursor_visible"} /\ fr = [k \in FrameFields |-> fr[k]]
    BY DEF FrameFields, FrameOK
  <1>2. IsSeq(o)
    BY DEF FrameOK
  <1>3. o \o (s \o t) = (o \o s) \o t
    <2>. HIDE DEF o
    <2>. QED
      BY <1>2, ConcatFacts
  <1>4. h = [fr EXCEPT !.out = o \o s]
    BY DEF append
  <1>5. h.out = o \o s /\ append(h, t) = [h EXCEPT !.out = (o \o s) \o t]
    <2>1. h.out = o \o s
      BY <1>1, <1>4
    <2>2. append(h, t) = [h EXCEPT !.out = h.out \o t]
      BY DEF append
    <2>. HIDE DEF h, o
    <2>. QED
      BY <2>1, <2>2
  <1>6. append(fr, s \o t) = [fr EXCEPT !.out = (o \o s) \o t]
    <2>1. append(fr, s \o t) = [fr EXCEPT !.out = o \o (s \o t)]
      BY DEF append
    <2>. HIDE DEF o
    <2>. QED
      BY <1>3, <2>1
  <1>. DEFINE z == (o \o s) \o t
              y == o \o s
  <1>7. [h EXCEPT !.out = z] = [fr EXCEPT !.out = z]
    <2>1. h = [fr EXCEPT !.out = y]
      BY <1>4
    <2>. HIDE DEF h, z, y, o
    <2>. QED
      BY <1>1, <2>1
  <1>. HIDE DEF h, o
  <1>. QED
    BY <1>5, <1>6, <1>7 DEF h

\* At the bottom of the screen: carriage return and line feeds.
LEMMA ScrolledAtBottom ==
    ASSUME NEW c, NEW fr, NEW f, Good(c, fr, f), Sure(c, fr, f), fr.y = f.height - 1,
           NEW n \in Nat, NEW fs, fs = <<Control("CR")>> \o Repeat(n, "LF"),
           NEW a, a = append(fr, fs), NEW g, g = [a EXCEPT !.x = 0]
    PROVE  Good(c, g, f) /\ Sure(c, g, f)
  <1>. DEFINE d == Drawn(c, fr)
              s == <<Control("CR")>>
              t == Repeat(n, "LF")
              m == Act(d, s)
              e == Act(m, t)
  <1>1. /\ Fit(c, fr, f) /\ FrameOK(fr) /\ Shape(d) /\ Plain(d) /\ Modest(d) /\ d.height = f.height
        /\ f.height \in Nat \ {0} /\ f.width \in Nat \ {0} /\ d.cursor_row = fr.y
    BY SizesAgree, SureRow DEF Good, Fit
  <1>2. IsSeq(s) /\ IsSeq(t) /\ fs = s \o t
    BY OneFunction, FilledFacts DEF Repeat
  <1>3. m = Apply(d, Control("CR")) /\ e = Act(m, Repeat(n, "LF"))
    BY ActOne
  <1>. HIDE DEF s, t
  <1>4. Act(d, s \o t) = e
    <2>. HIDE DEF d
    <2>. QED
      BY <1>2, ActConcat
  <1>. HIDE DEF e, m
  <1>5. /\ Keeps(d, m) /\ Touches(d, m, Painting) /\ m.cursor_col = 0 /\ m.cursor_row = d.cursor_row
        /\ Free(m)
    <2>. HIDE DEF d
    <2>. QED
      BY <1>1, <1>3, CarriageReturn
  <1>6. Shape(m) /\ Plain(m) /\ m.height = f.height
    <2>. HIDE DEF d
    <2>. QED
      BY <1>1, <1>5, StillPlain DEF Keeps, SameSizes
  <1>7. /\ Keeps(m, e) /\ Touches(m, e, Painting) /\ e.cursor_col = m.cursor_col /\ Free(e)
        /\ e.cursor_row = IF m.cursor_row + n < m.height THEN m.cursor_row + n ELSE m.height - 1
    BY <1>3, <1>5, <1>6, LineFeeds
  <1>8. e.cursor_row = f.height - 1 /\ e.cursor_col = 0
    BY <1>1, <1>5, <1>6, <1>7
  <1>9. IsSeq(fs)
    BY <1>2, ConcatFacts
  <1>10. FrameOK(a) /\ a.x = fr.x /\ a.y = fr.y /\ Drawn(c, a) = e
    <2>1. FrameOK(a) /\ a.x = fr.x /\ a.y = fr.y /\ Drawn(c, a) = Act(Drawn(c, fr), fs)
      <3>1. FrameOK(fr) /\ IsSeq(fs)
        BY <1>1, <1>9
      <3>. HIDE DEF d
      <3>. QED
        BY <3>1, Appended
    <2>. QED
      BY <1>2, <1>4, <2>1
  <1>11. FrameOK(g) /\ g.y = a.y /\ g.x = 0 /\ Drawn(c, g) = Drawn(c, a)
    <2>1. FrameFields = {"out", "x", "y", "rendition", "cursor_visible"} /\ a = [k \in FrameFields |-> a[k]]
      BY <1>10 DEF FrameFields, FrameOK
    <2>2. g = [k \in FrameFields |-> g[k]] /\ g.out = a.out /\ g.x = 0 /\ g.y = a.y
      BY <2>1
    <2>. QED
      BY <1>10, <2>2 DEF FrameOK, Drawn
  <1>12. Keeps(d, e) /\ Touches(d, e, Painting)
    <2>. HIDE DEF d
    <2>. QED
      BY <1>5, <1>7, KeepsBoth, PaintingBoth
  <1>13. Good(c, g, f)
    BY <1>1, <1>10, <1>11, <1>12, GoodPainted
  <1>14. Sure(c, g, f)
    <2>1. f.height - 1 \in 0 .. f.height - 1 /\ 0 \in 0 .. f.width - 1
      BY <1>1
    <2>2. Near(e, f.height - 1, 0)
      BY <1>7, <1>8 DEF Near
    <2>. QED
      BY <1>10, <1>11, <2>1, <2>2 DEF Sure
  <1>. QED
    BY <1>13, <1>14

\* In a region: margins, the cursor below, line feeds, and no margins again.
LEMMA ScrolledInRegion ==
    ASSUME NEW c, NEW fr, NEW f, Good(c, fr, f), f.height > 1, NEW y \in 0 .. f.height - 1,
           NEW n \in Nat, NEW p, p = <<1, y + 1>>, NEW minus, minus = -1,
           NEW moved,
           moved = append_silent_move(At(append(fr, <<CSI("DECSTBM", p)>>), minus, minus), y, 0),
           NEW g,
           g = At(append(moved, Repeat(n, "LF") \o <<CSI("DECSTBM", <<>>)>>), minus, minus)
    PROVE  Good(c, g, f) /\ Lost(g)
  <1>. DEFINE s == <<CSI("DECSTBM", p)>>
              none == <<>>
              u == <<CSI("DECSTBM", none)>>
              t == Repeat(n, "LF")
              a == append(fr, s)
              b == At(a, minus, minus)
              h == append(moved, t)
              k == append(h, u)
  <1>1. Fit(c, fr, f) /\ f.height \in Nat /\ f.width \in Nat \ {0} /\ y \in Nat /\ minus \in Int
    <2>1. Fit(c, fr, f)
      BY DEF Good
    <2>2. f.width \in Nat \ {0} /\ f.height \in Nat
      BY <2>1, SizesAgree
    <2>. QED
      BY <2>1, <2>2
  <1>2. p \in Seq(Int) /\ none \in Seq(Int)
    <2>1. 1 \in Int /\ y + 1 \in Int
      BY <1>1
    <2>. QED
      BY <2>1
  <1>3. IsSeq(t) /\ IsSeq(u)
    BY OneFunction, FilledFacts DEF Repeat
  <1>4. FrameOK(a) /\ Fit(c, a, f)
    <2>1. s = <<CSI("DECSTBM", p)>> /\ a = append(fr, s)
      OBVIOUS
    <2>. HIDE DEF s, a
    <2>. QED
      BY <1>1, <1>2, <2>1, RegionWritten
  <1>5. FrameOK(b) /\ Fit(c, b, f) /\ Lost(b)
    <2>1. b = At(a, minus, minus)
      OBVIOUS
    <2>. HIDE DEF a, b
    <2>2. FrameOK(b) /\ b.y = minus /\ b.x = minus /\ Drawn(c, b) = Drawn(c, a)
      BY <1>1, <1>4, <2>1, NotedAt
    <2>. QED
      BY <1>4, <2>2 DEF Fit, Lost
  <1>6. Fit(c, moved, f) /\ FrameOK(moved)
    <2>. DEFINE zero == 0
    <2>1. moved = append_silent_move(b, y, zero)
      OBVIOUS
    <2>2. zero \in 0 .. f.width - 1
      BY <1>1
    <2>. HIDE DEF b, zero
    <2>. QED
      BY <1>5, <2>1, <2>2, SilentMoveAppended
  <1>7. FrameOK(h) /\ Fit(c, h, f)
    <2>1. h = append(moved, t) /\ t = Repeat(n, "LF")
      OBVIOUS
    <2>. HIDE DEF h, t
    <2>. QED
      BY <1>6, <2>1, LinesFed
  <1>8. FrameOK(k) /\ Good(c, k, f)
    <2>1. k = append(h, u) /\ u = <<CSI("DECSTBM", none)>> /\ none = <<>>
      OBVIOUS
    <2>. HIDE DEF h, k, u, none
    <2>. QED
      BY <1>2, <1>7, <2>1, RegionWritten
  <1>9. g = At(k, minus, minus)
    <2>1. append(moved, t \o u) = k
      <3>. HIDE DEF t, u
      <3>. QED
        BY <1>3, <1>6, AppendTwice
    <2>2. g = At(append(moved, t \o u), minus, minus)
      OBVIOUS
    <2>. HIDE DEF k, t, u
    <2>. QED
      BY <2>1, <2>2
  <1>. HIDE DEF k
  <1>10. FrameOK(g) /\ g.y = minus /\ g.x = minus /\ Drawn(c, g) = Drawn(c, k)
    BY <1>1, <1>8, <1>9, NotedAt
  <1>. QED
    BY <1>8, <1>10 DEF Good, Fit, Lost

\* The scroll at the start of a frame gives its margins back.
LEMMA TerminalScrolled ==
    ASSUME NEW c, NEW fr, NEW f, Good(c, fr, f), Sure(c, fr, f),
           NEW s, s.lines \in 1 .. f.height - 1, s.height \in 1 .. f.height - 1,
           s.lines + s.height <= f.height, NEW g, g = ScrollTerminal(fr, f, s)
    PROVE  Good(c, g, f) /\ Located(c, g, f)
  <1>. DEFINE on == TRUE
              r == initial_rendition
              plain == update_rendition(fr, r, on)
              y == s.lines + s.height - 1
              n == s.lines
              p == <<1, y + 1>>
              minus == -1
              moved == append_silent_move(At(append(plain, <<CSI("DECSTBM", p)>>), minus, minus), y, 0)
              region == At(append(moved, Repeat(n, "LF") \o <<CSI("DECSTBM", <<>>)>>), minus, minus)
              fs == <<Control("CR")>> \o Repeat(n, "LF")
              a == append(plain, fs)
              bottom == s.lines + s.height = f.height /\ plain.y + 1 = f.height
  <1>1. f.height \in Nat /\ Fit(c, fr, f)
    <2>1. Fit(c, fr, f)
      BY DEF Good
    <2>. QED
      BY <2>1, SizesAgree
  <1>2. f.height > 1 /\ y \in 0 .. f.height - 1 /\ n \in Nat /\ s.height \in Nat
    BY <1>1
  <1>3. Good(c, plain, f) /\ Sure(c, plain, f)
    <2>1. plain = update_rendition(fr, r, on)
      OBVIOUS
    <2>. HIDE DEF plain, on, r
    <2>. QED
      BY <1>1, <2>1, Rendered
  <1>4. g = IF bottom THEN [a EXCEPT !.x = 0] ELSE region
    BY DEF ScrollTerminal
  <1>. HIDE DEF plain
  <1>5. CASE bottom
    <2>1. plain.y \in Nat
      BY <1>3, SureRow DEF Good
    <2>2. plain.y = f.height - 1
      BY <1>1, <1>5, <2>1
    <2>3. g = [a EXCEPT !.x = 0] /\ a = append(plain, fs) /\ fs = <<Control("CR")>> \o Repeat(n, "LF")
      BY <1>4, <1>5
    <2>. HIDE DEF a, fs, n
    <2>. QED
      BY <1>2, <1>3, <2>2, <2>3, ScrolledAtBottom DEF Located
  <1>6. CASE ~bottom
    <2>1. g = region
      BY <1>4, <1>6
    <2>2. /\ p = <<1, y + 1>> /\ minus = -1
          /\ moved = append_silent_move(At(append(plain, <<CSI("DECSTBM", p)>>), minus, minus), y, 0)
          /\ g = At(append(moved, Repeat(n, "LF") \o <<CSI("DECSTBM", <<>>)>>), minus, minus)
      BY <2>1
    <2>. HIDE DEF moved, region, p, minus, n, y
    <2>3. Good(c, g, f) /\ Lost(g)
      BY <1>2, <1>3, <2>2, ScrolledInRegion
    <2>. QED
      BY <2>3 DEF Located
  <1>. QED
    BY <1>5, <1>6

LEMMA Home ==
    ASSUME NEW fb, Shape(fb), Modest(fb), NEW p, p = <<>>, NEW q, q = Act(fb, <<CSI("CUP", p)>>)
    PROVE  /\ Keeps(fb, q) /\ Touches(fb, q, Painting) /\ Free(q)
           /\ q.cursor_row = 0 /\ q.cursor_col = 0
  <1>. DEFINE zero == 0
              r == <<zero + 1, zero + 1>>
              g == Unwrapped(fb)
  <1>1. getparam(p, 1, 1) - 1 = zero /\ getparam(p, 2, 1) - 1 = zero
    <2>1. getparam(p, 1, 1) = 1 /\ getparam(p, 2, 1) = 1
      BY DEF getparam
    <2>. QED
      BY <2>1
  <1>2. getparam(r, 1, 1) - 1 = zero /\ getparam(r, 2, 1) - 1 = zero
    <2>1. Len(r) = 2 /\ r[1] = 1 /\ r[2] = 1
      OBVIOUS
    <2>2. getparam(r, 1, 1) = 1 /\ getparam(r, 2, 1) = 1
      BY <2>1 DEF getparam
    <2>. QED
      BY <2>2
  <1>3. q = Apply(fb, CSI("CUP", p))
    BY ActOne, Zenon
  <1>4. Act(fb, CUP(zero, zero)) = Apply(fb, CSI("CUP", r))
    <2>1. CUP(zero, zero) = <<CSI("CUP", r)>>
      BY DEF CUP
    <2>. QED
      BY <2>1, ActOne, Zenon
  <1>5. \A s : Apply(fb, CSI("CUP", s)) = CSI_CUP(g, s)
    BY Applied
  <1>. HIDE DEF r, g, zero
  <1>6. CSI_CUP(g, p) = CSI_CUP(g, r)
    BY <1>1, <1>2 DEF CSI_CUP
  <1>7. q = Act(fb, CUP(zero, zero))
    BY <1>3, <1>4, <1>5, <1>6
  <1>8. zero \in 0 .. fb.height - 1 /\ zero \in 0 .. fb.width - 1
    BY CursorTypes DEF zero
  <1>9. /\ Keeps(fb, q) /\ Touches(fb, q, Painting) /\ Free(q)
        /\ q.cursor_row = zero /\ q.cursor_col = zero
    BY <1>7, <1>8, MoveTo
  <1>. QED
    BY <1>9 DEF zero

LEMMA FourFunctions ==
    ASSUME NEW a, NEW b, NEW c, NEW d
    PROVE  <<a, b, c, d>> = <<a>> \o (<<b>> \o (<<c>> \o <<d>>))
  <1>1. <<c>> \o <<d>> = <<c, d>>
    BY TwoFunctions
  <1>2. <<b>> \o <<c, d>> = <<b, c, d>>
    <2>. DEFINE s == <<b>>
                t == <<c, d>>
                u == <<b, c, d>>
    <2>1. IsSeq(s) /\ IsSeq(t) /\ IsSeq(u)
      <3>. DEFINE S == {b, c, d}
      <3>1. s \in Seq(S) /\ t \in Seq(S) /\ u \in Seq(S)
        OBVIOUS
      <3>. HIDE DEF s, t, u, S
      <3>. QED
        BY <3>1, SeqIsSeq
    <2>2. Len(s) = 1 /\ Len(t) = 2 /\ Len(u) = 3
      OBVIOUS
    <2>3. s[1] = u[1] /\ t[1] = u[2] /\ t[2] = u[3]
      OBVIOUS
    <2>. HIDE DEF s, t, u
    <2>4. /\ IsSeq(s \o t) /\ Len(s \o t) = 3
          /\ \A i \in 1 .. 3 : (s \o t)[i] = IF i <= 1 THEN s[i] ELSE t[i - 1]
      <3>1. /\ IsSeq(s \o t) /\ Len(s \o t) = Len(s) + Len(t)
            /\ \A i \in 1 .. Len(s) + Len(t) :
                  (s \o t)[i] = IF i <= Len(s) THEN s[i] ELSE t[i - Len(s)]
        BY <2>1, ConcatFacts
      <3>. QED
        BY <2>2, <3>1
    <2>5. \A i \in 1 .. 3 : (s \o t)[i] = u[i]
      BY <2>3, <2>4
    <2>6. s \o t = u
      <3>1. IsSeq(u) /\ IsSeq(s \o t) /\ Len(u) = Len(s \o t)
        BY <2>1, <2>2, <2>4
      <3>2. u = [i \in 1 .. Len(u) |-> u[i]] /\ s \o t = [i \in 1 .. Len(u) |-> (s \o t)[i]]
        BY <3>1, SeqFacts
      <3>. QED
        BY <2>2, <2>5, <3>2
    <2>. QED
      BY <2>6 DEF s, t, u
  <1>3. <<a>> \o <<b, c, d>> = <<a, b, c, d>>
    <2>. DEFINE s == <<a>>
                t == <<b, c, d>>
                u == <<a, b, c, d>>
    <2>1. IsSeq(s) /\ IsSeq(t) /\ IsSeq(u)
      <3>. DEFINE S == {a, b, c, d}
      <3>1. s \in Seq(S) /\ t \in Seq(S) /\ u \in Seq(S)
        OBVIOUS
      <3>. HIDE DEF s, t, u, S
      <3>. QED
        BY <3>1, SeqIsSeq
    <2>2. Len(s) = 1 /\ Len(t) = 3 /\ Len(u) = 4
      OBVIOUS
    <2>3. s[1] = u[1] /\ t[1] = u[2] /\ t[2] = u[3] /\ t[3] = u[4]
      OBVIOUS
    <2>. HIDE DEF s, t, u
    <2>4. /\ IsSeq(s \o t) /\ Len(s \o t) = 4
          /\ \A i \in 1 .. 4 : (s \o t)[i] = IF i <= 1 THEN s[i] ELSE t[i - 1]
      <3>1. /\ IsSeq(s \o t) /\ Len(s \o t) = Len(s) + Len(t)
            /\ \A i \in 1 .. Len(s) + Len(t) :
                  (s \o t)[i] = IF i <= Len(s) THEN s[i] ELSE t[i - Len(s)]
        BY <2>1, ConcatFacts
      <3>. QED
        BY <2>2, <3>1
    <2>5. \A i \in 1 .. 4 : (s \o t)[i] = u[i]
      BY <2>3, <2>4
    <2>6. s \o t = u
      <3>1. IsSeq(u) /\ IsSeq(s \o t) /\ Len(u) = Len(s \o t)
        BY <2>1, <2>2, <2>4
      <3>2. u = [i \in 1 .. Len(u) |-> u[i]] /\ s \o t = [i \in 1 .. Len(u) |-> (s \o t)[i]]
        BY <3>1, SeqFacts
      <3>. QED
        BY <2>2, <2>5, <3>2
    <2>. QED
      BY <2>6 DEF s, t, u
  <1>. QED
    BY <1>1, <1>2, <1>3

LEMMA FrameBegun ==
    ASSUME NEW c, Shape(c), Modest(c), NEW f, SameSizes(f, c), NEW old, NEW pre, CalmRun(pre),
           NEW g, g = append(FrameState(old), pre)
    PROVE  /\ FrameOK(g) /\ g.x = 0 /\ g.y = 0 /\ Fit(c, g, f)
           /\ Calm(c, Drawn(c, g))
           /\ Plain(c) => Good(c, g, f)
  <1>. DEFINE fr == FrameState(old)
  <1>1. IsSeq(<<>>) /\ 0 \in Int
    BY CalmNone DEF CalmRun
  <1>2. FrameOK(fr) /\ fr.x = 0 /\ fr.y = 0 /\ fr.out = <<>>
    <2>1. fr = [k \in FrameFields |-> fr[k]] /\ fr.x = 0 /\ fr.y = 0 /\ fr.out = <<>>
      BY DEF FrameState, FrameFields
    <2>. HIDE DEF fr
    <2>. QED
      BY <1>1, <2>1 DEF FrameOK
  <1>. HIDE DEF fr
  <1>3. Drawn(c, fr) = c
    BY <1>2, ActNone DEF Drawn
  <1>4. Fit(c, fr, f)
    BY <1>2, <1>3 DEF Fit
  <1>5. g = append(fr, pre)
    BY DEF fr
  <1>6. FrameOK(g) /\ g.x = fr.x /\ g.y = fr.y /\ Calm(Drawn(c, fr), Drawn(c, g)) /\ Fit(c, g, f)
    BY <1>4, <1>5, CalmAppend
  <1>7. Plain(c) => Good(c, g, f)
    BY <1>3, <1>6, CalmIsPlain DEF Good
  <1>. QED
    BY <1>2, <1>3, <1>6, <1>7

\* What a frame is computed on: the screen it is meant for is as the writer believes it to be.
Believed(screen, old) ==
    /\ Shape(old) /\ Shape(screen) /\ SameSizes(old, screen) /\ Plain(screen)
    /\ Near(screen, old.cursor_row, old.cursor_col)

\* A frame that starts from a screen drawn before starts at its cursor,
LEMMA StartedThere ==
    ASSUME NEW c, NEW old, Believed(c, old), NEW f, SameSizes(f, c), NEW pre, CalmRun(pre),
           NEW same, same = TRUE, NEW g, g = StartFrame(append(FrameState(old), pre), same, old)
    PROVE  Good(c, g, f) /\ Sure(c, g, f)
  <1>. DEFINE fr == append(FrameState(old), pre)
              y == old.cursor_row
              x == old.cursor_col
              r == old.renditions
              a == At(fr, y, x)
  <1>1. Shape(c) /\ Plain(c) /\ Modest(c) /\ Near(c, y, x)
    BY DEF Believed, Plain
  <1>2. /\ y \in Nat /\ x \in Nat /\ y < c.height /\ x < c.width
        /\ c.width = f.width /\ c.height = f.height /\ f.width \in Nat /\ f.height \in Nat
    <2>1. /\ y \in Nat /\ x \in Nat /\ y < old.height /\ x < old.width
          /\ old.height \in Nat /\ old.width \in Nat
      BY CursorTypes DEF Believed
    <2>. HIDE DEF y, x
    <2>. QED
      BY <2>1 DEF Believed, SameSizes
  <1>3. FrameOK(fr) /\ Calm(c, Drawn(c, fr)) /\ Good(c, fr, f)
    <2>1. fr = append(FrameState(old), pre)
      OBVIOUS
    <2>. HIDE DEF fr
    <2>. QED
      BY <1>1, <2>1, FrameBegun
  <1>4. g = [a EXCEPT !.rendition = r]
    BY DEF StartFrame
  <1>. HIDE DEF fr, y, x, r
  <1>5. FrameOK(a) /\ a.y = y /\ a.x = x /\ Drawn(c, a) = Drawn(c, fr)
    <2>1. y \in Int /\ x \in Int
      BY <1>2
    <2>. QED
      BY <1>3, <2>1, NotedAt
  <1>. HIDE DEF a
  <1>6. FrameOK(g) /\ g.y = a.y /\ g.x = a.x /\ Drawn(c, g) = Drawn(c, a)
    BY <1>4, <1>5, NotedRest
  <1>7. Good(c, g, f)
    BY <1>3, <1>5, <1>6 DEF Good, Fit
  <1>8. Near(Drawn(c, g), y, x)
    <2>1. Drawn(c, fr).height = c.height
      BY <1>3 DEF Calm, Keeps, SameSizes
    <2>. QED
      BY <1>1, <1>3, <1>5, <1>6, <2>1 DEF Near, Calm
  <1>9. y \in 0 .. f.height - 1 /\ x \in 0 .. f.width - 1
    BY <1>2
  <1>. QED
    BY <1>5, <1>6, <1>7, <1>8, <1>9 DEF Sure

\* The functions that a first frame starts with.
AnewFunctions == <<CSI("DECSTBM", <<>>), CSI("SGR", <<0>>), CSI("CUP", <<>>), CSI("ED", <<2>>)>>

LEMMA AnewActs ==
    ASSUME NEW fb, Shape(fb), Plain(fb), NEW q, q = Act(fb, AnewFunctions)
    PROVE  /\ Keeps(fb, q) /\ Plain(q) /\ Free(q) /\ q.cursor_row = 0 /\ q.cursor_col = 0
           /\ IsSeq(AnewFunctions)
  <1>. DEFINE none == <<>>
              a == CSI("DECSTBM", none)
              b == CSI("SGR", <<0>>)
              c == CSI("CUP", none)
              d == CSI("ED", <<2>>)
              fa == Act(fb, <<a>>)
              fc == Apply(fa, b)
              fd == Act(fc, <<c>>)
              fe == Apply(fd, d)
  <1>1. AnewFunctions = <<a>> \o (<<b>> \o (<<c>> \o <<d>>))
    <2>1. AnewFunctions = <<a, b, c, d>>
      BY DEF AnewFunctions
    <2>. HIDE DEF a, b, c, d
    <2>. QED
      BY <2>1, FourFunctions
  <1>2. IsSeq(<<a>>) /\ IsSeq(<<b>>) /\ IsSeq(<<c>>) /\ IsSeq(<<d>>)
    BY OneFunction
  <1>3. IsSeq(<<c>> \o <<d>>) /\ IsSeq(<<b>> \o (<<c>> \o <<d>>)) /\ IsSeq(AnewFunctions)
    <2>. HIDE DEF a, b, c, d
    <2>1. IsSeq(<<c>> \o <<d>>)
      BY <1>2, ConcatFacts
    <2>2. IsSeq(<<b>> \o (<<c>> \o <<d>>))
      BY <1>2, <2>1, ConcatFacts
    <2>3. IsSeq(<<a>> \o (<<b>> \o (<<c>> \o <<d>>)))
      BY <1>2, <2>2, ConcatFacts
    <2>. QED
      BY <1>1, <2>1, <2>2, <2>3
  <1>4. q = fe
    <2>. DEFINE s == <<a>>
                t == <<b>>
                u == <<c>>
                v == <<d>>
    <2>1. IsSeq(s) /\ IsSeq(t) /\ IsSeq(u) /\ IsSeq(v) /\ IsSeq(u \o v) /\ IsSeq(t \o (u \o v))
          /\ q = Act(fb, s \o (t \o (u \o v)))
      BY <1>1, <1>2, <1>3
    <2>2. Act(Act(Act(Act(fb, s), t), u), v) = fe
      <3>1. \A w : Act(w, t) = Apply(w, b)
        BY ActOne
      <3>2. \A w : Act(w, v) = Apply(w, d)
        BY ActOne
      <3>. HIDE DEF a, b, c, d, t, v
      <3>. QED
        BY <3>1, <3>2
    <2>. HIDE DEF s, t, u, v, fe
    <2>3. q = Act(Act(fb, s), t \o (u \o v))
      BY <2>1, ActConcat
    <2>4. Act(Act(fb, s), t \o (u \o v)) = Act(Act(Act(fb, s), t), u \o v)
      BY <2>1, ActConcat
    <2>5. Act(Act(Act(fb, s), t), u \o v) = Act(Act(Act(Act(fb, s), t), u), v)
      BY <2>1, ActConcat
    <2>. QED
      BY <2>2, <2>3, <2>4, <2>5
  <1>5. Keeps(fb, fa) /\ Plain(fa)
    <2>1. none \in Seq(Int) /\ none = <<>> /\ fa = Act(fb, <<CSI("DECSTBM", none)>>) /\ Modest(fb)
      BY DEF Plain
    <2>. HIDE DEF fa, none
    <2>. QED
      BY <2>1, RegionSet
  <1>6. Calm(fa, fc)
    <2>. HIDE DEF fa
    <2>. QED
      BY <1>5, RenditionCalm DEF Keeps
  <1>. HIDE DEF fa
  <1>7. Keeps(fa, fc) /\ Plain(fc) /\ Shape(fc) /\ Modest(fc)
    <2>. HIDE DEF fc
    <2>. QED
      BY <1>5, <1>6, CalmIsPlain DEF Calm, Plain
  <1>. HIDE DEF fc
  <1>8. /\ Keeps(fc, fd) /\ Touches(fc, fd, Painting) /\ Free(fd)
        /\ fd.cursor_row = 0 /\ fd.cursor_col = 0
    <2>1. none = <<>> /\ fd = Act(fc, <<CSI("CUP", none)>>)
      OBVIOUS
    <2>. HIDE DEF fd, none
    <2>. QED
      BY <1>7, <2>1, Home
  <1>. HIDE DEF fd
  <1>9. Shape(fd) /\ Plain(fd)
    BY <1>7, <1>8, StillPlain DEF Keeps
  <1>10. Calm(fd, fe)
    <2>. DEFINE two == <<2>>
    <2>1. fe = Apply(fd, CSI("ED", two)) /\ "ED" \in {"EL", "ED", "ECH"}
      OBVIOUS
    <2>. HIDE DEF fe, two
    <2>. QED
      BY <1>9, <2>1, Erased
  <1>. HIDE DEF fe
  <1>11. Keeps(fd, fe) /\ Plain(fe) /\ Free(fe) /\ fe.cursor_row = 0 /\ fe.cursor_col = 0
    BY <1>8, <1>9, <1>10, CalmIsPlain DEF Calm
  <1>12. Keeps(fb, fe)
    BY <1>5, <1>7, <1>8, <1>11, KeepsBoth
  <1>. QED
    BY <1>3, <1>4, <1>11, <1>12

\* and one that starts anew clears the screen first.
LEMMA StartedAnew ==
    ASSUME NEW c, Shape(c), Plain(c), NEW f, SameSizes(f, c), NEW pre, CalmRun(pre), NEW old,
           NEW same, same = FALSE, NEW g, g = StartFrame(append(FrameState(old), pre), same, old)
    PROVE  Good(c, g, f) /\ Sure(c, g, f)
  <1>. DEFINE fr == append(FrameState(old), pre)
              off == FALSE
              hide == Mode(25, off)
              h == append(fr, AnewFunctions)
              a == append(h, hide)
  <1>1. FrameOK(fr) /\ fr.x = 0 /\ fr.y = 0 /\ Good(c, fr, f) /\ Fit(c, fr, f)
    <2>1. fr = append(FrameState(old), pre) /\ Modest(c)
      BY DEF Plain
    <2>. HIDE DEF fr
    <2>. QED
      BY <2>1, FrameBegun
  <1>2. g = [append(fr, AnewFunctions \o hide) EXCEPT !.cursor_visible = off]
    BY DEF StartFrame, AnewFunctions
  <1>. HIDE DEF fr
  <1>3. f.height \in Nat \ {0} /\ f.width \in Nat \ {0}
    BY <1>1, SizesAgree
  <1>4. CalmRun(hide)
    <2>1. 25 \in Harmless
      BY DEF Harmless
    <2>. QED
      BY <2>1, ModeCalmRun
  <1>5. IsSeq(AnewFunctions) /\ IsSeq(hide)
    <2>1. Shape(c)
      OBVIOUS
    <2>2. IsSeq(AnewFunctions)
      <3>. DEFINE q == Act(c, AnewFunctions)
      <3>1. q = Act(c, AnewFunctions)
        OBVIOUS
      <3>. HIDE DEF q
      <3>. QED
        BY <3>1, AnewActs
    <2>. QED
      BY <1>4, <2>2 DEF CalmRun
  <1>. HIDE DEF hide, off
  <1>6. FrameOK(h) /\ h.x = 0 /\ h.y = 0 /\ Drawn(c, h) = Act(Drawn(c, fr), AnewFunctions)
    BY <1>1, <1>5, Appended
  <1>7. append(fr, AnewFunctions \o hide) = a
    BY <1>1, <1>5, AppendTwice
  <1>. HIDE DEF h
  <1>8. /\ Keeps(Drawn(c, fr), Drawn(c, h)) /\ Plain(Drawn(c, h)) /\ Free(Drawn(c, h))
        /\ Drawn(c, h).cursor_row = 0 /\ Drawn(c, h).cursor_col = 0
    BY <1>1, <1>6, AnewActs DEF Good, Fit
  <1>9. Good(c, h, f) /\ Fit(c, h, f)
    <2>1. Modest(Drawn(c, h))
      BY <1>8 DEF Plain
    <2>2. Fit(c, h, f)
      BY <1>1, <1>6, <1>8, <2>1, FitKept
    <2>. QED
      BY <1>8, <2>2 DEF Good
  <1>10. Sure(c, h, f)
    <2>1. 0 \in 0 .. f.height - 1 /\ 0 \in 0 .. f.width - 1
      BY <1>3
    <2>2. Near(Drawn(c, h), 0, 0)
      BY <1>8 DEF Near
    <2>. QED
      BY <1>6, <2>1, <2>2 DEF Sure
  <1>11. FrameOK(a) /\ a.x = h.x /\ a.y = h.y /\ Good(c, a, f) /\ Sure(c, a, f)
    <2>1. a = append(h, hide)
      OBVIOUS
    <2>. HIDE DEF a
    <2>. QED
      BY <1>4, <1>9, <1>10, <2>1, CalmAppend
  <1>12. g = [a EXCEPT !.cursor_visible = off]
    BY <1>2, <1>7
  <1>. HIDE DEF a
  <1>13. FrameOK(g) /\ g.y = a.y /\ g.x = a.x /\ Drawn(c, g) = Drawn(c, a)
    BY <1>11, <1>12, NotedRest
  <1>. QED
    BY <1>11, <1>13 DEF Good, Fit, Sure

\* The cursor placed, and shown.
LEMMA CursorPlaced ==
    ASSUME NEW c, NEW fr, NEW f, Shape(f), Good(c, fr, f), Located(c, fr, f), NEW same,
           NEW g, g = PlaceCursor(fr, same, f)
    PROVE  FrameOK(g) /\ Good(c, g, f) /\ Near(Drawn(c, g), f.cursor_row, f.cursor_col)
  <1>. DEFINE y == f.cursor_row
              x == f.cursor_col
  <1>1. FrameOK(fr) /\ Fit(c, fr, f)
    BY DEF Good, Fit
  <1>2. y \in 0 .. f.height - 1 /\ x \in 0 .. f.width - 1 /\ f.height \in Nat /\ f.width \in Nat
    BY CursorTypes
  <1>3. (g = fr /\ fr.y = y /\ fr.x = x) \/ g = append_move(fr, y, x)
    BY DEF PlaceCursor
  <1>. HIDE DEF y, x
  <1>4. CASE g = fr /\ fr.y = y /\ fr.x = x
    <2>1. ~Lost(fr) /\ fr.x # f.width
      BY <1>2, <1>4 DEF Lost
    <2>2. Near(Drawn(c, fr), y, x)
      BY <1>4, <2>1 DEF Located, Sure
    <2>. QED
      BY <1>1, <1>4, <2>2 DEF y, x
  <1>5. CASE g = append_move(fr, y, x)
    <2>1. Lost(fr) \/ (Good(c, fr, f) /\ Sure(c, fr, f))
      BY DEF Located
    <2>2. Moves(c, fr, f, g, y, x)
      BY <1>1, <1>2, <1>5, <2>1, MoveAppended
    <2>3. Good(c, g, f)
      BY <1>1, <2>2, GoodPainted DEF Moves
    <2>. QED
      BY <2>2, <2>3 DEF Moves, y, x
  <1>. QED
    BY <1>3, <1>4, <1>5

\* Showing or hiding the cursor does not move it.
LEMMA CursorShown ==
    ASSUME NEW c, NEW fr, NEW f, Good(c, fr, f), NEW same, NEW g, g = ShowCursor(fr, same, f)
    PROVE  /\ FrameOK(g) /\ Good(c, g, f)
           /\ \A y, x : Near(Drawn(c, fr), y, x) => Near(Drawn(c, g), y, x)
  <1>. DEFINE fs == Mode(25, f.modes.cursor_visible)
              a == append(fr, fs)
  <1>1. FrameOK(fr) /\ Fit(c, fr, f)
    BY DEF Good, Fit
  <1>2. CalmRun(fs)
    <2>1. 25 \in Harmless
      BY DEF Harmless
    <2>. QED
      BY <2>1, ModeCalmRun
  <1>3. g = fr \/ g = a
    BY DEF ShowCursor
  <1>. HIDE DEF fs
  <1>4. CASE g = a
    <2>1. g = append(fr, fs)
      BY <1>4
    <2>. HIDE DEF a
    <2>. QED
      BY <1>1, <1>2, <2>1, CalmAppend
  <1>. QED
    BY <1>1, <1>3, <1>4

\* The screen is made as large as the new state, and is then plain.
LEMMA ResizedPlain ==
    ASSUME NEW screen, NEW old, Believed(screen, old), NEW f, Shape(f),
           NEW c, c = Resized(screen, old, f)
    PROVE  /\ Shape(c) /\ Plain(c) /\ SameSizes(f, c)
           /\ SameSize(old, f) => c = screen
  <1>1. /\ Shape(screen) /\ Plain(screen) /\ screen.width = old.width /\ screen.height = old.height
    BY DEF Believed, SameSizes
  <1>2. CASE SameSize(old, f)
    BY <1>1, <1>2 DEF Resized, SameSize, SameSizes
  <1>3. CASE ~SameSize(old, f)
    <2>. DEFINE w == f.width
                h == f.height
    <2>1. w \in Nat \ {0} /\ h \in Nat \ {0}
      BY CursorTypes
    <2>2. c = resize(screen, w, h)
      BY <1>3 DEF Resized
    <2>3. ~(screen.width = w /\ screen.height = h)
      BY <1>1, <1>3 DEF SameSize
    <2>. HIDE DEF w, h
    <2>4. /\ Shape(c) /\ c.width = w /\ c.height = h /\ c.modes = screen.modes
          /\ c.top = 0 /\ c.bottom = h - 1
      BY <1>1, <2>1, <2>2, <2>3, ResizeFacts
    <2>5. Plain(c)
      BY <1>1, <2>4 DEF Plain, Modest
    <2>. QED
      BY <1>3, <2>4, <2>5 DEF w, h, SameSizes
  <1>. QED
    BY <1>2, <1>3

LEMMA BeginningCalm ==
    ASSUME NEW initialized, NEW old, NEW f
    PROVE  CalmRun(Bell(old, f) \o Titles(initialized, old, f) \o Clipboard(old, f)
                   \o Changed(initialized, old, f, 5))
  <1>. DEFINE a == Bell(old, f)
              b == Titles(initialized, old, f)
              c == Clipboard(old, f)
              d == Changed(initialized, old, f, 5)
  <1>1. CalmRun(a) /\ CalmRun(b) /\ CalmRun(c)
    BY BellTitlesClipboardCalm
  <1>2. CalmRun(d)
    <2>1. 5 \in {5, 1004, 2004}
      OBVIOUS
    <2>. QED
      BY <2>1, ChangedCalm
  <1>. HIDE DEF a, b, c, d
  <1>3. CalmRun(a \o b)
    BY <1>1, CalmConcat
  <1>4. CalmRun((a \o b) \o c)
    BY <1>1, <1>3, CalmConcat
  <1>5. CalmRun(((a \o b) \o c) \o d)
    BY <1>2, <1>4, CalmConcat
  <1>. QED
    BY <1>5 DEF a, b, c, d

LEMMA MouseKinds ==
    ASSUME NEW fb, Shape(fb)
    PROVE  fb.mouse.reporting \in Reportings /\ fb.mouse.encoding \in Encodings
  <1>1. fb.mouse \in [reporting : Reportings, encoding : Encodings]
    BY LooseParts DEF MouseModes, Reportings, Encodings
  <1>. QED
    BY <1>1

\* The modes at the end of a frame.
LEMMA EndCalm ==
    ASSUME NEW same, NEW old, Shape(old), NEW f, Shape(f), NEW out, IsSeq(out), NEW c,
           NEW d, d = Act(c, out), Shape(d),
           NEW q, q = Act(c, out \o Changed(same, old, f, 2004)
                                 \o MouseReporting(same, old.mouse.reporting, f.mouse.reporting)
                                 \o Changed(same, old, f, 1004)
                                 \o MouseEncoding(same, old.mouse.encoding, f.mouse.encoding))
    PROVE  Calm(d, q)
  <1>. DEFINE s == Changed(same, old, f, 2004)
              t == MouseReporting(same, old.mouse.reporting, f.mouse.reporting)
              u == Changed(same, old, f, 1004)
              v == MouseEncoding(same, old.mouse.encoding, f.mouse.encoding)
              e == Act(d, s)
              g == Act(e, t)
              h == Act(g, u)
              i == Act(h, v)
  <1>1. CalmRun(s) /\ CalmRun(u)
    <2>1. 2004 \in {5, 1004, 2004} /\ 1004 \in {5, 1004, 2004}
      OBVIOUS
    <2>. QED
      BY <2>1, ChangedCalm
  <1>2. CalmRun(t) /\ CalmRun(v)
    <2>1. /\ old.mouse.reporting \in Reportings /\ f.mouse.reporting \in Reportings
          /\ old.mouse.encoding \in Encodings /\ f.mouse.encoding \in Encodings
      BY MouseKinds
    <2>2. CalmRun(t)
      BY <2>1, MouseReportingCalm
    <2>3. CalmRun(v)
      BY <2>1, MouseEncodingCalm
    <2>. QED
      BY <2>2, <2>3
  <1>3. q = Act(c, (((out \o s) \o t) \o u) \o v)
    OBVIOUS
  <1>. HIDE DEF s, t, u, v
  <1>4. IsSeq(s) /\ IsSeq(t) /\ IsSeq(u) /\ IsSeq(v)
    BY <1>1, <1>2 DEF CalmRun
  <1>5. IsSeq(out \o s) /\ IsSeq((out \o s) \o t) /\ IsSeq(((out \o s) \o t) \o u)
    <2>1. IsSeq(out \o s)
      BY <1>4, ConcatFacts
    <2>2. IsSeq((out \o s) \o t)
      BY <1>4, <2>1, ConcatFacts
    <2>3. IsSeq(((out \o s) \o t) \o u)
      BY <1>4, <2>2, ConcatFacts
    <2>. QED
      BY <2>1, <2>2, <2>3
  <1>6. Act(c, out \o s) = e
    BY <1>4, ActConcat
  <1>. HIDE DEF e
  <1>7. Act(c, (out \o s) \o t) = g
    BY <1>4, <1>5, <1>6, ActConcat
  <1>. HIDE DEF g
  <1>8. Act(c, ((out \o s) \o t) \o u) = h
    BY <1>4, <1>5, <1>7, ActConcat
  <1>. HIDE DEF h
  <1>9. Act(c, (((out \o s) \o t) \o u) \o v) = i
    BY <1>4, <1>5, <1>8, ActConcat
  <1>10. Calm(d, e)
    BY <1>1 DEF CalmRun, e
  <1>11. Shape(e) /\ Calm(e, g)
    BY <1>2, <1>10 DEF CalmRun, g, Calm, Keeps
  <1>12. Shape(g) /\ Calm(g, h)
    BY <1>1, <1>11 DEF CalmRun, h, Calm, Keeps
  <1>13. Calm(h, i)
    BY <1>2, <1>12 DEF CalmRun, Calm, Keeps
  <1>. HIDE DEF i
  <1>14. Calm(d, g) /\ Calm(d, h) /\ Calm(d, i)
    BY <1>10, <1>11, <1>12, <1>13, CalmTwice
  <1>. QED
    BY <1>3, <1>9, <1>14

\* How far a frame may scroll.
LEMMA ScrollBounds ==
    ASSUME NEW old, NEW f, Shape(f), NEW s \in Scrolls(old, f)
    PROVE  /\ s.height \in 0 .. f.height
           /\ s.lines > 0 => /\ s.lines \in 1 .. f.height - 1 /\ s.height \in 1 .. f.height - 1
                             /\ s.lines + s.height <= f.height
  <1>1. f.height \in Nat \ {0}
    BY CursorTypes
  <1>2. CASE s = NoScroll
    <2>1. s.lines = 0 /\ s.height = 0
      BY <1>2 DEF NoScroll
    <2>. QED
      BY <1>1, <2>1
  <1>3. CASE s # NoScroll
    <2>1. /\ s.lines \in 1 .. f.height - 1 /\ s.height \in 1 .. f.height - 1
          /\ s.lines + s.height <= f.height
      BY <1>3 DEF Scrolls
    <2>. QED
      BY <1>1, <2>1
  <1>. QED
    BY <1>2, <1>3

\* A frame computed on what the screen is believed to show leaves it where the new state
\* has its cursor, and plain.
LEMMA NewFrameActs ==
    ASSUME NEW screen, NEW old, Believed(screen, old), NEW f, Shape(f), NEW s \in Scrolls(old, f),
           NEW c, c = Resized(screen, old, f), NEW on, on = TRUE,
           NEW q, q = Act(c, new_frame(on, old, f, s))
    PROVE  Believed(q, f)
  <1>. DEFINE same == on /\ SameSize(old, f)
              pre == Bell(old, f) \o Titles(on, old, f) \o Clipboard(old, f) \o Changed(on, old, f, 5)
              started == StartFrame(append(FrameState(old), pre), same, old)
              scrolled == IF s.lines > 0 THEN ScrollTerminal(started, f, s) ELSE started
              rows == IF s.lines > 0 THEN ScrolledRows(OldRows(old, f), f, s) ELSE OldRows(old, f)
              from == s.height
              painted == PutRows(scrolled, same, f, rows, from)
              placed == PlaceCursor(painted, same, f)
              shown == ShowCursor(placed, same, f)
              force == ~same
              r == f.renditions
              rendered == update_rendition(shown, r, force)
              out == rendered.out
              y == f.cursor_row
              x == f.cursor_col
  <1>1. new_frame(on, old, f, s) =
            out \o Changed(same, old, f, 2004)
                \o MouseReporting(same, old.mouse.reporting, f.mouse.reporting)
                \o Changed(same, old, f, 1004)
                \o MouseEncoding(same, old.mouse.encoding, f.mouse.encoding)
    BY DEF new_frame
  <1>2. CalmRun(pre)
    BY BeginningCalm
  <1>. HIDE DEF pre
  <1>3. /\ Shape(c) /\ Plain(c) /\ SameSizes(f, c)
        /\ SameSize(old, f) => c = screen
    BY ResizedPlain
  <1>4. same = TRUE \/ same = FALSE
    BY DEF SameSize
  <1>5. Good(c, started, f) /\ Sure(c, started, f)
    <2>1. CASE same = TRUE
      <3>1. c = screen
        BY <1>3, <2>1
      <3>2. Believed(c, old) /\ started = StartFrame(append(FrameState(old), pre), same, old)
        BY <3>1
      <3>. HIDE DEF same, started
      <3>. QED
        BY <1>2, <1>3, <2>1, <3>2, StartedThere
    <2>2. CASE same = FALSE
      <3>1. started = StartFrame(append(FrameState(old), pre), same, old)
        OBVIOUS
      <3>. HIDE DEF same, started
      <3>. QED
        BY <1>2, <1>3, <2>2, <3>1, StartedAnew
    <2>. QED
      BY <1>4, <2>1, <2>2
  <1>. HIDE DEF same, started
  <1>6. /\ from \in 0 .. f.height
        /\ s.lines > 0 => /\ s.lines \in 1 .. f.height - 1 /\ s.height \in 1 .. f.height - 1
                          /\ s.lines + s.height <= f.height
    BY ScrollBounds
  <1>7. Good(c, scrolled, f) /\ Located(c, scrolled, f)
    <2>1. CASE s.lines > 0
      <3>1. scrolled = ScrollTerminal(started, f, s)
        BY <2>1
      <3>. HIDE DEF scrolled
      <3>. QED
        BY <1>5, <1>6, <2>1, <3>1, TerminalScrolled
    <2>2. CASE ~(s.lines > 0)
      BY <1>5, <2>2 DEF Located
    <2>. QED
      BY <2>1, <2>2
  <1>. HIDE DEF scrolled, rows
  <1>8. Good(c, painted, f) /\ Located(c, painted, f)
    <2>1. painted = PutRows(scrolled, same, f, rows, from)
      OBVIOUS
    <2>. HIDE DEF painted, from
    <2>. QED
      BY <1>6, <1>7, <2>1, RowsPut
  <1>. HIDE DEF painted
  <1>9. FrameOK(placed) /\ Good(c, placed, f) /\ Near(Drawn(c, placed), y, x)
    <2>1. placed = PlaceCursor(painted, same, f)
      OBVIOUS
    <2>. HIDE DEF placed
    <2>. QED
      BY <1>8, <2>1, CursorPlaced
  <1>. HIDE DEF placed, y, x
  <1>10. Good(c, shown, f) /\ Near(Drawn(c, shown), y, x)
    <2>1. shown = ShowCursor(placed, same, f)
      OBVIOUS
    <2>. HIDE DEF shown
    <2>. QED
      BY <1>9, <2>1, CursorShown
  <1>. HIDE DEF shown, force, r
  <1>11. Good(c, rendered, f) /\ Near(Drawn(c, rendered), y, x) /\ FrameOK(rendered)
    <2>1. rendered = update_rendition(shown, r, force) /\ Fit(c, shown, f)
      BY <1>10 DEF Good
    <2>. HIDE DEF rendered
    <2>2. FrameOK(rendered) /\ Good(c, rendered, f)
      BY <1>10, <2>1, Rendered
    <2>3. Near(Drawn(c, rendered), y, x)
      BY <1>10, <2>1, Rendered
    <2>. QED
      BY <2>2, <2>3
  <1>. HIDE DEF rendered
  <1>. DEFINE d == Act(c, out)
  <1>12. /\ IsSeq(out) /\ Shape(d) /\ Plain(d) /\ SameSizes(f, d) /\ Near(d, y, x)
    BY <1>11 DEF Good, Fit, FrameOK, Drawn
  <1>13. Calm(d, q)
    <2>1. q = Act(c, out \o Changed(same, old, f, 2004)
                         \o MouseReporting(same, old.mouse.reporting, f.mouse.reporting)
                         \o Changed(same, old, f, 1004)
                         \o MouseEncoding(same, old.mouse.encoding, f.mouse.encoding))
      BY <1>1
    <2>2. Shape(old)
      BY DEF Believed
    <2>. HIDE DEF out
    <2>3. d = Act(c, out)
      OBVIOUS
    <2>. HIDE DEF d
    <2>. QED
      BY <1>12, <2>1, <2>2, <2>3, EndCalm
  <1>. HIDE DEF d
  <1>14. Plain(q) /\ Shape(q) /\ SameSizes(f, q)
    BY <1>12, <1>13, CalmIsPlain DEF Calm, Keeps, SameSizes
  <1>15. Near(q, y, x)
    BY <1>12, <1>13, <1>14 DEF Near, Calm, SameSizes
  <1>. QED
    BY <1>14, <1>15 DEF Believed, y, x

-----------------------------------------------------------------------------
(* The screens *)

OfSize(fb) == <<fb.width, fb.height>> \in Sizes

\* The inductive invariant: what ScreensTypeOK says of the screens, and that the client's screen is
\* as the next frame believes it to be.
ScreensInv ==
    /\ Shape(server) /\ OfSize(server) /\ OfSize(last) /\ Believed(client, last)
    /\ rewritten \in BOOLEAN /\ cornered \in BOOLEAN
    /\ writes \in 0 .. MaxWrites /\ frames \in 0 .. MaxFrames

LEMMA WrittenKeeps ==
    ASSUME NEW fb, Shape(fb), NEW written \in Beginnings, NEW q, q = Act(fb, written)
    PROVE  Keeps(fb, q)
  <1>1. IsSeq(written) /\ \A i \in DOMAIN written : Delivered(written[i])
    BY WritesAssumption DEF IsSeq
  <1>2. DOMAIN written = 1 .. Len(written)
    BY <1>1, SeqFacts
  <1>. QED
    BY <1>1, <1>2, ActKeeps

\* A new screen is what a first frame is computed on.
LEMMA FreshIsBelieved ==
    ASSUME NEW fb, NEW width, NEW height, Fresh(fb, width, height) PROVE Believed(fb, fb)
  BY DEF Fresh, Believed, Plain, Modest, SameSizes, Near, Free

LEMMA ScreensBegin == ScreensInit => ScreensInv
  <1>. SUFFICES ASSUME ScreensInit PROVE ScreensInv
    OBVIOUS
  <1>1. PICK size \in Sizes, written \in Beginnings :
            LET blank == NewFramebuffer(size[1], size[2])
                shown == Act(blank, written)
            IN  /\ server = shown /\ last = shown
                /\ client = ApplyFrame(blank, blank, shown, NoScroll)
                /\ rewritten = FALSE /\ cornered = FALSE /\ writes = 0 /\ frames = 0
    BY DEF ScreensInit
  <1>. DEFINE w == size[1]
              h == size[2]
              blank == NewFramebuffer(w, h)
              shown == Act(blank, written)
              on == TRUE
              c == Resized(blank, blank, shown)
              s == NoScroll
  <1>2. w \in Nat \ {0} /\ h \in Nat \ {0} /\ <<w, h>> \in Sizes
    BY SizesAssumption
  <1>3. Fresh(blank, w, h)
    <2>. HIDE DEF w, h
    <2>1. blank = NewFramebuffer(w, h)
      OBVIOUS
    <2>. HIDE DEF blank
    <2>. QED
      BY <1>2, <2>1, NewScreen
  <1>4. client = Act(c, new_frame(on, blank, shown, s))
    BY <1>1 DEF ApplyFrame
  <1>5. /\ server = shown /\ last = shown /\ rewritten = FALSE /\ cornered = FALSE
        /\ writes = 0 /\ frames = 0
    BY <1>1
  <1>. HIDE DEF w, h, blank
  <1>6. Believed(blank, blank) /\ Shape(blank) /\ blank.width = w /\ blank.height = h
    BY <1>3, FreshIsBelieved DEF Fresh
  <1>7. Keeps(blank, shown)
    <2>1. shown = Act(blank, written)
      OBVIOUS
    <2>. HIDE DEF shown
    <2>. QED
      BY <1>6, <2>1, WrittenKeeps
  <1>. HIDE DEF shown
  <1>8. Shape(shown) /\ OfSize(shown)
    BY <1>2, <1>6, <1>7 DEF Keeps, SameSizes, OfSize
  <1>9. Believed(client, shown)
    <2>1. s \in Scrolls(blank, shown)
      BY DEF Scrolls
    <2>2. c = Resized(blank, blank, shown) /\ on = TRUE
      OBVIOUS
    <2>. HIDE DEF c, s, on
    <2>. QED
      BY <1>4, <1>6, <1>8, <2>1, <2>2, NewFrameActs
  <1>10. 0 \in 0 .. MaxWrites /\ 0 \in 0 .. MaxFrames
    BY BoundsAssumption
  <1>. QED
    BY <1>5, <1>8, <1>9, <1>10 DEF ScreensInv

\* Host writes and resizes touch only the server; a frame leaves the client as believed.
LEMMA ScreensStep == ScreensInv /\ [ScreensNext]_screens_vars => ScreensInv'
  <1>. SUFFICES ASSUME ScreensInv, [ScreensNext]_screens_vars PROVE ScreensInv'
    OBVIOUS
  <1>1. /\ Shape(server) /\ OfSize(server) /\ OfSize(last) /\ Believed(client, last)
        /\ rewritten \in BOOLEAN /\ cornered \in BOOLEAN
        /\ writes \in 0 .. MaxWrites /\ frames \in 0 .. MaxFrames
    BY DEF ScreensInv
  <1>2. CASE HostWritesOne
    <2>1. PICK f \in HostWrites :
              server' = Apply(server, f) /\ rewritten' = (rewritten \/ RewritesRows(f))
      BY <1>2 DEF HostWritesOne
    <2>2. Delivered(f)
      BY WritesAssumption
    <2>3. Keeps(server, server')
      BY <1>1, <2>1, <2>2, ApplyKeeps
    <2>4. Shape(server') /\ OfSize(server')
      BY <1>1, <2>3 DEF Keeps, SameSizes, OfSize
    <2>5. writes' \in 0 .. MaxWrites
      BY <1>1, <1>2, BoundsAssumption DEF HostWritesOne
    <2>6. last' = last /\ client' = client /\ cornered' = cornered /\ frames' = frames
      BY <1>2 DEF HostWritesOne
    <2>7. rewritten' \in BOOLEAN
      BY <2>1 DEF RewritesRows
    <2>. QED
      BY <1>1, <2>4, <2>5, <2>6, <2>7 DEF ScreensInv
  <1>3. CASE WindowResized
    <2>1. PICK size \in Sizes :
              /\ server' = resize(server, size[1], size[2])
              /\ rewritten' = (rewritten \/ ~SameSize(server, server'))
      BY <1>3 DEF WindowResized
    <2>. DEFINE w == size[1]
                h == size[2]
    <2>2. w \in Nat \ {0} /\ h \in Nat \ {0} /\ <<w, h>> \in Sizes /\ server' = resize(server, w, h)
      BY <2>1, SizesAssumption
    <2>. HIDE DEF w, h
    <2>3. Shape(server') /\ server'.width = w /\ server'.height = h
      <3>. DEFINE fb == server
                  q == server'
      <3>1. Shape(fb) /\ w \in Nat \ {0} /\ h \in Nat \ {0} /\ q = resize(fb, w, h)
        BY <1>1, <2>2
      <3>. HIDE DEF fb, q
      <3>2. Shape(q) /\ q.width = w /\ q.height = h
        BY <3>1, ResizeFacts
      <3>. QED
        BY <3>2 DEF q
    <2>4. OfSize(server')
      BY <2>2, <2>3 DEF OfSize
    <2>5. writes' \in 0 .. MaxWrites
      BY <1>1, <1>3, BoundsAssumption DEF WindowResized
    <2>6. last' = last /\ client' = client /\ cornered' = cornered /\ frames' = frames
      BY <1>3 DEF WindowResized
    <2>7. rewritten' \in BOOLEAN
      BY <2>1 DEF SameSize
    <2>. QED
      BY <1>1, <2>3, <2>4, <2>5, <2>6, <2>7 DEF ScreensInv
  <1>4. CASE FrameSent
    <2>. DEFINE on == TRUE
                c == Resized(client, last, server)
    <2>1. PICK s \in Scrolls(last, server) :
              /\ client' = Act(c, new_frame(on, last, server, s))
              /\ cornered' = (cornered \/ BackspacesFromTheEdge(c, new_frame(on, last, server, s)))
      BY <1>4 DEF FrameSent
    <2>2. c = Resized(client, last, server) /\ on = TRUE
      OBVIOUS
    <2>. HIDE DEF c, on
    <2>3. Believed(client', server)
      BY <1>1, <2>1, <2>2, NewFrameActs
    <2>4. cornered' \in BOOLEAN
      BY <2>1 DEF BackspacesFromTheEdge
    <2>5. frames' \in 0 .. MaxFrames
      BY <1>1, <1>4, BoundsAssumption DEF FrameSent
    <2>6. last' = server /\ server' = server /\ writes' = writes /\ rewritten' = FALSE
      BY <1>4 DEF FrameSent
    <2>. QED
      BY <1>1, <2>3, <2>4, <2>5, <2>6 DEF ScreensInv
  <1>5. CASE UNCHANGED screens_vars
    BY <1>1, <1>5 DEF ScreensInv, screens_vars, OfSize
  <1>. QED
    BY <1>2, <1>3, <1>4, <1>5 DEF ScreensNext

LEMMA ShapeIsOK == ASSUME NEW fb, Shape(fb), OfSize(fb) PROVE FramebufferOK(fb)
  <1>1. /\ fb.cursor_col \in 0 .. fb.width - 1 /\ fb.cursor_row \in 0 .. fb.height - 1
        /\ fb.top \in 0 .. fb.bottom /\ fb.tabs \subseteq 0 .. fb.width - 1
    BY LooseParts
  <1>2. fb.bottom < fb.height
    BY CursorTypes
  <1>3. Len(fb.rows) = fb.height /\ \A y \in DOMAIN fb.rows : Len(fb.rows[y]) = fb.width
    BY RowsAre DEF Lines
  <1>. QED
    BY <1>1, <1>2, <1>3 DEF FramebufferOK, OfSize

LEMMA ScreensInvIsEnough == ScreensInv => ScreensTypeOK /\ ClientStaysPlain
  <1>. SUFFICES ASSUME ScreensInv PROVE ScreensTypeOK /\ ClientStaysPlain
    OBVIOUS
  <1>1. /\ Shape(server) /\ OfSize(server) /\ OfSize(last) /\ Believed(client, last)
        /\ rewritten \in BOOLEAN /\ cornered \in BOOLEAN
        /\ writes \in 0 .. MaxWrites /\ frames \in 0 .. MaxFrames
    BY DEF ScreensInv
  <1>2. Shape(last) /\ Shape(client) /\ OfSize(client) /\ Plain(client) /\ Free(client)
    BY <1>1 DEF Believed, SameSizes, OfSize, Near
  <1>3. ScreensTypeOK
    BY <1>1, <1>2, ShapeIsOK DEF ScreensTypeOK
  <1>4. ClientStaysPlain
    BY <1>2 DEF ClientStaysPlain, Plain, Modest, Free
  <1>. QED
    BY <1>3, <1>4

\* The inductive invariant holds: each frame finds the client's screen as new_frame believes it
\* to be, and leaves it so.
THEOREM ScreensInvariance == ScreensSpec => []ScreensInv
  BY ScreensBegin, ScreensStep, PTL DEF ScreensSpec

\* Whatever the host writes and however the window changes, every screen keeps its shape: rows
\* and cells are as many as its size says, and cursor, margins and tab stops lie inside.
THEOREM ScreensKeepTheirShape == ScreensSpec => []ScreensTypeOK
  BY ScreensInvariance, ScreensInvIsEnough, PTL

\* A frame leaves the client's emulator as the next frame expects it.
THEOREM ClientPlain == ScreensSpec => []ClientStaysPlain
  BY ScreensInvariance, ScreensInvIsEnough, PTL
=============================================================================
