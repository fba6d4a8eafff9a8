--------------------------- MODULE FragmentsProofs ---------------------------
(***************************************************************************)
(* Whatever becomes of the fragments, what is assembled was sent: for any  *)
(* instructions, any sizes of datagrams, and any number of ids.            *)
(*                                                                         *)
(* An id stands for one instruction cut for one size (Sender), so pieces   *)
(* collected under one id fit together.  The receiver counts what it has   *)
(* (Receiver): it knows the total if and only if it has the final          *)
(* fragment, and has then all of them only when it assembles them.         *)
(***************************************************************************)
EXTENDS Fragments, FiniteSetTheorems, SequenceTheorems, TLAPS

\* The fragments of inst that are sent, and those on the way under an id.
Slices(id, inst, mtu) ==
    {Slice(id, inst, mtu, num) : num \in {n \in 0 .. FragmentLimit - 1 : n < Count(inst, mtu)}}
Under(id) == {f \in net : f.id = id}

Sender ==
    /\ next_instruction_id \in 0 .. MaxId /\ MTU \in PathMTU
    /\ sent \subseteq Instruction /\ delivered \subseteq sent
    /\ \A f \in net : f.id \in 1 .. next_instruction_id
    /\ \A id \in 1 .. next_instruction_id :
          \E inst \in sent, mtu \in PathMTU : Under(id) = Slices(id, inst, mtu)
    /\ IF next_instruction_id = 0 THEN last_instruction = NoInstruction
       ELSE /\ last_instruction \in sent /\ last_MTU \in PathMTU
            /\ Under(next_instruction_id) =
                   Slices(next_instruction_id, last_instruction, last_MTU)

Present(q) == {i \in 1 .. Len(q) : q[i] # Missing}

\* The pieces q of the instruction numbered id, as the receiver collects them.
Pieces(q, id, S) ==
    /\ q \in Seq(S \cup {Missing})
    /\ \A i \in Present(q) : q[i] \in S /\ q[i].id = id /\ q[i].fragment_num = i - 1
    /\ Len(q) # 0 => Len(q) \in Present(q)

\* The number of pieces is known when the final one is here.
Counted(q, arrived, total) ==
    /\ arrived = Cardinality(Present(q))
    /\ \/ total = Unknown /\ \A i \in Present(q) : ~q[i].final
       \/ total = Len(q) /\ Len(q) # 0 /\ q[Len(q)].final

Receiver ==
    /\ ~receiver_dead /\ current_id \in 0 .. next_instruction_id
    /\ Pieces(fragments, current_id, net)
    /\ Counted(fragments, fragments_arrived, fragments_total)
    /\ fragments_arrived # fragments_total

IInv == Sender /\ Receiver

-----------------------------------------------------------------------------
(* Fragments *)

LEMMA SliceFacts ==
    ASSUME NEW id, NEW inst \in Instruction, NEW mtu \in PathMTU, NEW f \in Slices(id, inst, mtu)
    PROVE  /\ f.id = id /\ f.of = inst /\ f # Missing
           /\ f.fragment_num \in Nat /\ f.fragment_num < Count(inst, mtu)
           /\ f.fragment_num < FragmentLimit
           /\ f.final <=> f.fragment_num + 1 = Count(inst, mtu)
           /\ f.final \in BOOLEAN
           /\ f = Slice(id, inst, mtu, f.fragment_num)
           /\ Count(inst, mtu) \in Int
  <1>1. PICK num \in 0 .. FragmentLimit - 1 :
            num < Count(inst, mtu) /\ f = Slice(id, inst, mtu, num)
    BY DEF Slices
  <1>2. /\ f.id = id /\ f.of = inst /\ f.fragment_num = num
        /\ f.final = (num + 1 = Count(inst, mtu))
    BY <1>1 DEF Slice
  <1>3. inst # NoInstruction /\ FragmentLimit \in Nat
        /\ Length[inst] \in Nat /\ mtu \in Nat /\ mtu # 0
    BY FragmentAssumption
  <1>4. f # Missing
    BY <1>2, <1>3 DEF Missing
  <1>5. Count(inst, mtu) \in Int
    BY <1>3 DEF Count
  <1>6. (f.final <=> f.fragment_num + 1 = Count(inst, mtu)) /\ f.final \in BOOLEAN
    BY <1>2, Zenon
  <1>7. f = Slice(id, inst, mtu, f.fragment_num)
    BY <1>1, <1>2
  <1>. QED
    BY <1>1, <1>2, <1>3, <1>4, <1>5, <1>6, <1>7

\* What fragments of one id have to do with each other
Fit(S) ==
    /\ \A f \in S : f # Missing /\ f.fragment_num \in Nat /\ f.final \in BOOLEAN
    /\ \A f, g \in S : f.id = g.id =>
          /\ f.fragment_num = g.fragment_num => f = g
          /\ f.final => g.fragment_num <= f.fragment_num

LEMMA NetFits == ASSUME Sender PROVE Fit(net)
  <1>1. ASSUME NEW f \in net
        PROVE  \E inst \in Instruction, mtu \in PathMTU :
                   Under(f.id) = Slices(f.id, inst, mtu) /\ f \in Under(f.id)
    BY DEF Sender, Under
  <1>2. ASSUME NEW f \in net PROVE f # Missing /\ f.fragment_num \in Nat /\ f.final \in BOOLEAN
    BY <1>1, SliceFacts
  <1>3. ASSUME NEW f \in net, NEW g \in net, f.id = g.id
        PROVE  /\ f.fragment_num = g.fragment_num => f = g
               /\ f.final => g.fragment_num <= f.fragment_num
    <2>1. PICK inst \in Instruction, mtu \in PathMTU : Under(f.id) = Slices(f.id, inst, mtu)
      BY <1>1
    <2>2. f \in Slices(f.id, inst, mtu) /\ g \in Slices(f.id, inst, mtu)
      BY <1>3, <2>1 DEF Under
    <2>3. /\ f = Slice(f.id, inst, mtu, f.fragment_num) /\ f.fragment_num \in Nat
          /\ f.final => f.fragment_num + 1 = Count(inst, mtu)
          /\ Count(inst, mtu) \in Int
      BY <2>2, SliceFacts
    <2>4. /\ g = Slice(f.id, inst, mtu, g.fragment_num) /\ g.fragment_num \in Nat
          /\ g.fragment_num < Count(inst, mtu)
      BY <2>2, SliceFacts
    <2>. QED
      BY <2>3, <2>4
  <1>. QED
    BY <1>2, <1>3 DEF Fit

-----------------------------------------------------------------------------
(* The assembly *)

LEMMA PresentFacts ==
    ASSUME NEW S, NEW q \in Seq(S)
    PROVE  /\ Len(q) \in Nat /\ Present(q) \subseteq 1 .. Len(q)
           /\ IsFiniteSet(Present(q)) /\ Cardinality(Present(q)) \in Nat
           /\ Cardinality(Present(q)) <= Len(q)
           /\ Cardinality(Present(q)) = Len(q) => Present(q) = 1 .. Len(q)
  <1>1. Len(q) \in Nat /\ Present(q) \subseteq 1 .. Len(q)
    BY DEF Present
  <1>2. IsFiniteSet(1 .. Len(q)) /\ Cardinality(1 .. Len(q)) = Len(q)
    <2>. DEFINE n == Len(q)
    <2>1. n \in Nat
      BY <1>1
    <2>. HIDE DEF n
    <2>2. /\ IsFiniteSet(1 .. n)
          /\ Cardinality(1 .. n) = IF 1 > n THEN 0 ELSE n - 1 + 1
      BY <2>1, FS_Interval
    <2>3. IsFiniteSet(1 .. n) /\ Cardinality(1 .. n) = n
      BY <2>1, <2>2
    <2>. QED
      BY <2>3 DEF n
  <1>3. IsFiniteSet(Present(q)) /\ Cardinality(Present(q)) \in Nat
    BY <1>1, <1>2, FS_Subset, FS_CardinalityType
  <1>4. /\ Cardinality(Present(q)) <= Cardinality(1 .. Len(q))
        /\ Cardinality(1 .. Len(q)) = Cardinality(Present(q)) => 1 .. Len(q) = Present(q)
    BY <1>1, <1>2, FS_Subset
  <1>. QED
    BY <1>1, <1>2, <1>3, <1>4

\* p is q with the fragment f put where there was none.
With(p, q, f, n, S) ==
    /\ p \in Seq(S \cup {Missing})
    /\ Len(q) < n => Len(p) = n
    /\ ~(Len(q) < n) => Len(p) = Len(q)
    /\ p[n] = f /\ Present(p) = Present(q) \cup {n}
    /\ \A i \in Present(q) : p[i] = q[i]
    /\ Cardinality(Present(p)) = Cardinality(Present(q)) + 1

LEMMA PutFacts ==
    ASSUME NEW S, NEW q \in Seq(S \cup {Missing}), NEW f \in S, f # Missing,
           f.fragment_num \in Nat, NEW n, n = f.fragment_num + 1, n \notin Present(q)
    PROVE  With(Put(q, f), q, f, n, S)
  <1>. DEFINE p == Put(q, f)
              len == IF Len(q) < n THEN n ELSE Len(q)
  <1>1. n \in Nat /\ 1 <= n /\ Len(q) \in Nat /\ \A i \in 1 .. Len(q) : q[i] \in S \cup {Missing}
    OBVIOUS
  <1>2. p = [i \in 1 .. len |-> IF i = n THEN f ELSE IF i <= Len(q) THEN q[i] ELSE Missing]
    BY DEF Put, Resize
  <1>3. len \in Nat /\ n \in 1 .. len /\ Len(q) <= len
    BY <1>1
  <1>. HIDE DEF len
  <1>4. /\ p \in Seq(S \cup {Missing}) /\ Len(p) = len
        /\ \A i \in 1 .. len :
              p[i] = IF i = n THEN f ELSE IF i <= Len(q) THEN q[i] ELSE Missing
    <2>1. \A i \in 1 .. len : (IF i = n THEN f ELSE IF i <= Len(q) THEN q[i] ELSE Missing)
                                \in S \cup {Missing}
      BY <1>1
    <2>. HIDE DEF p
    <2>. QED
      BY <1>2, <1>3, <2>1
  <1>. HIDE DEF p
  <1>5. Present(p) = Present(q) \cup {n}
    <2>1. \A i \in 1 .. len : p[i] # Missing <=> i = n \/ i \in Present(q)
      BY <1>1, <1>3, <1>4 DEF Present
    <2>2. Present(p) = {i \in 1 .. len : i = n \/ i \in Present(q)}
      BY <1>4, <2>1 DEF Present
    <2>3. Present(q) \subseteq 1 .. len
      BY <1>1, <1>3 DEF Present
    <2>. QED
      BY <1>3, <2>2, <2>3
  <1>6. \A i \in Present(q) : p[i] = q[i]
    <2>1. \A i \in Present(q) : i \in 1 .. Len(q) /\ i \in 1 .. len /\ i # n
      BY <1>1, <1>3 DEF Present
    <2>. QED
      BY <1>4, <2>1
  <1>7. Cardinality(Present(p)) = Cardinality(Present(q)) + 1
    <2>1. IsFiniteSet(Present(q)) /\ n \notin Present(q)
      BY PresentFacts
    <2>. QED
      BY <1>5, <2>1, FS_AddElement
  <1>. QED
    BY <1>1, <1>3, <1>4, <1>5, <1>6, <1>7 DEF p, len, With

\* After the three cases of add_fragment, and before the final bit is looked at
Collected(f, n, q, arrived, total) ==
    /\ Pieces(q, f.id, net) /\ n \in Present(q) /\ q[n] = f
    /\ arrived = Cardinality(Present(q))
    /\ \/ total = Unknown /\ \A i \in Present(q) : q[i].final => q[i] = f
       \/ total = Len(q) /\ q[Len(q)].final

LEMMA AddedFacts ==
    ASSUME IInv, NEW f \in net, NEW n, n = f.fragment_num + 1
    PROVE  /\ Collected(f, n, Added(f).fragments, Added(f).arrived, Added(f).total)
           /\ current_id = f.id /\ Have(f) => fragments[n] = f
  <1>1. Fit(net) /\ f # Missing /\ f.fragment_num \in Nat /\ n \in Nat /\ 1 <= n
    BY NetFits DEF IInv, Fit
  <1>2. /\ Pieces(fragments, current_id, net) /\ fragments \in Seq(net \cup {Missing})
        /\ Counted(fragments, fragments_arrived, fragments_total)
        /\ Len(fragments) \in Nat
    BY DEF IInv, Receiver, Pieces
  <1>3. current_id = f.id /\ Have(f) => fragments[n] = f
    <2>. SUFFICES ASSUME current_id = f.id, Have(f) PROVE fragments[n] = f
      OBVIOUS
    <2>1. n \in Present(fragments)
      BY <1>1, <1>2 DEF Have, Present
    <2>2. /\ fragments[n] \in net /\ fragments[n].id = f.id
          /\ fragments[n].fragment_num = f.fragment_num
      BY <1>1, <1>2, <2>1 DEF Pieces
    <2>. QED
      BY <1>1, <2>2 DEF Fit
  <1>4. CASE current_id # f.id
    <2>. DEFINE e == <<>>
                p == Put(e, f)
    <2>1. /\ Added(f) = [fragments |-> p, arrived |-> 1, total |-> Unknown]
      BY <1>4 DEF Added
    <2>2. e \in Seq(net \cup {Missing}) /\ Present(e) = {} /\ Len(e) = 0
      BY DEF Present
    <2>. HIDE DEF e
    <2>3. With(p, e, f, n, net)
      BY <1>1, <2>2, PutFacts
    <2>. HIDE DEF p
    <2>. USE <2>3 DEF With
    <2>4. Cardinality(Present(e)) = 0
      BY <2>2, FS_EmptySet
    <2>5. Len(p) = n /\ Present(p) = {n} /\ Cardinality(Present(p)) = 1
      BY <1>1, <2>2, <2>3, <2>4
    <2>6. Pieces(p, f.id, net)
      BY <1>1, <2>3, <2>5 DEF Pieces
    <2>7. Collected(f, n, p, 1, Unknown)
      BY <2>3, <2>5, <2>6 DEF Collected
    <2>. QED
      BY <1>3, <2>1, <2>7
  <1>5. CASE current_id = f.id /\ Have(f)
    <2>1. Added(f) = [fragments |-> fragments, arrived |-> fragments_arrived,
                      total |-> fragments_total]
      BY <1>5 DEF Added
    <2>2. n \in Present(fragments)
      BY <1>1, <1>2, <1>5 DEF Have, Present
    <2>3. Collected(f, n, fragments, fragments_arrived, fragments_total)
      BY <1>2, <1>3, <1>5, <2>2 DEF Counted, Collected
    <2>. QED
      BY <1>3, <2>1, <2>3
  <1>6. CASE current_id = f.id /\ ~Have(f)
    <2>. DEFINE p == Put(fragments, f)
    <2>1. /\ Added(f) = [fragments |-> p, arrived |-> fragments_arrived + 1,
                         total |-> fragments_total]
      BY <1>6 DEF Added
    <2>2. n \notin Present(fragments)
      BY <1>1, <1>2, <1>6 DEF Have, Present
    <2>3. With(p, fragments, f, n, net)
      BY <1>1, <1>2, <2>2, PutFacts
    <2>. HIDE DEF p
    <2>. USE <2>3 DEF With
    <2>4. Pieces(p, f.id, net)
      <3>1. \A i \in Present(p) : p[i] \in net /\ p[i].id = f.id /\ p[i].fragment_num = i - 1
        BY <1>1, <1>2, <1>6, <2>3 DEF Pieces
      <3>2. Len(p) \in Present(p)
        BY <1>1, <1>2, <2>3 DEF Pieces
      <3>. QED
        BY <2>3, <3>1, <3>2 DEF Pieces
    <2>5. \/ fragments_total = Unknown /\ \A i \in Present(p) : p[i].final => p[i] = f
          \/ fragments_total = Len(p) /\ p[Len(p)].final
      <3>1. CASE fragments_total = Unknown /\ \A i \in Present(fragments) : ~fragments[i].final
        BY <2>3, <3>1
      <3>2. CASE /\ fragments_total = Len(fragments) /\ Len(fragments) # 0
                 /\ fragments[Len(fragments)].final
        <4>. DEFINE g == fragments[Len(fragments)]
        <4>1. /\ Len(fragments) \in Present(fragments) /\ g \in net /\ g.id = f.id
              /\ g.fragment_num = Len(fragments) - 1 /\ g.final
          BY <1>2, <1>6, <3>2 DEF Pieces
        <4>2. f.fragment_num <= Len(fragments) - 1
          BY <1>1, <4>1 DEF Fit
        <4>3. Len(p) = Len(fragments)
          BY <1>1, <1>2, <2>3, <4>2
        <4>. QED
          BY <2>3, <3>2, <4>1, <4>3
      <3>. QED
        BY <1>2, <3>1, <3>2 DEF Counted
    <2>6. fragments_arrived + 1 = Cardinality(Present(p))
      BY <1>2, <2>3 DEF Counted
    <2>7. Collected(f, n, p, fragments_arrived + 1, fragments_total)
      BY <2>3, <2>4, <2>5, <2>6 DEF Collected
    <2>. QED
      BY <1>3, <2>1, <2>7
  <1>. QED
    BY <1>4, <1>5, <1>6

\* add_fragment, up to the test whether all are there
LEMMA FinishedFacts ==
    ASSUME IInv, NEW f \in net
    PROVE  /\ AssertionsHold(f) /\ Pieces(Finished(f).fragments, f.id, net)
           /\ Counted(Finished(f).fragments, Finished(f).arrived, Finished(f).total)
           /\ f.fragment_num + 1 \in Present(Finished(f).fragments)
  <1>. DEFINE n == f.fragment_num + 1
              q == Added(f).fragments
              a == Added(f).arrived
              t == Added(f).total
  <1>1. /\ Pieces(q, f.id, net) /\ n \in Present(q) /\ q[n] = f
        /\ a = Cardinality(Present(q))
        /\ \/ t = Unknown /\ \A i \in Present(q) : q[i].final => q[i] = f
           \/ t = Len(q) /\ q[Len(q)].final
        /\ current_id = f.id /\ Have(f) => fragments[n] = f
    BY AddedFacts DEF Collected
  <1>2. Added(f) = [fragments |-> q, arrived |-> a, total |-> t]
    BY DEF Added
  <1>3. /\ q \in Seq(net \cup {Missing}) /\ Len(q) \in Nat /\ n \in 1 .. Len(q)
        /\ Len(q) \in Present(q) /\ Cardinality(Present(q)) <= Len(q)
    <2>1. q \in Seq(net \cup {Missing}) /\ Len(q) \in Nat /\ n \in 1 .. Len(q)
      BY <1>1 DEF Pieces, Present
    <2>. QED
      BY <1>1, <2>1, PresentFacts DEF Pieces
  <1>4. f.final \in BOOLEAN /\ Fit(net) /\ f.fragment_num \in Nat
    BY NetFits DEF IInv, Fit
  <1>. HIDE DEF q, a, t
  <1>5. CASE f.final
    <2>1. Len(q) = n
      <3>1. q[Len(q)] \in net /\ q[Len(q)].id = f.id /\ q[Len(q)].fragment_num = Len(q) - 1
        BY <1>1, <1>3 DEF Pieces
      <3>2. Len(q) - 1 <= f.fragment_num
        BY <1>4, <1>5, <3>1 DEF Fit
      <3>. QED
        BY <1>3, <1>4, <3>2
    <2>2. Resize(q, n) = q
      <3>1. Resize(q, n) = [i \in 1 .. Len(q) |-> q[i]]
        BY <1>3, <2>1 DEF Resize
      <3>. QED
        BY <1>3, <3>1
    <2>3. Finished(f) = [fragments |-> q, arrived |-> a, total |-> Len(q)]
      <3>1. Finished(f) = [fragments |-> Resize(Added(f).fragments, f.fragment_num + 1),
                           arrived |-> Added(f).arrived, total |-> f.fragment_num + 1]
        BY <1>5 DEF Finished
      <3>2. Added(f).fragments = q /\ Added(f).arrived = a
        BY <1>2
      <3>. QED
        BY <2>1, <2>2, <3>1, <3>2
    <2>4. Counted(q, a, Len(q))
      BY <1>1, <1>3, <1>5, <2>1 DEF Counted
    <2>5. AssertionsHold(f)
      BY <1>1, <1>2, <1>3, <1>5, <2>1, <2>3 DEF AssertionsHold
    <2>. QED
      BY <1>1, <2>3, <2>4, <2>5
  <1>6. CASE ~f.final
    <2>1. Finished(f) = [fragments |-> q, arrived |-> a, total |-> t]
      BY <1>2, <1>6 DEF Finished
    <2>2. Counted(q, a, t)
      BY <1>1, <1>3, <1>6 DEF Counted
    <2>3. AssertionsHold(f)
      BY <1>1, <1>3, <1>6, <2>1 DEF AssertionsHold
    <2>. QED
      BY <1>1, <2>1, <2>2, <2>3
  <1>. QED
    BY <1>5, <1>6

\* All are there: they are the pieces of one instruction that was sent.
LEMMA AssembledFacts ==
    ASSUME IInv, NEW f \in net, Complete(f)
    PROVE  \E inst \in sent : Parsed(Finished(f).fragments) = {inst}
  <1>. DEFINE q == Finished(f).fragments
              a == Finished(f).arrived
              t == Finished(f).total
  <1>1. Pieces(q, f.id, net) /\ Counted(q, a, t) /\ f.fragment_num + 1 \in Present(q) /\ a = t
    BY FinishedFacts DEF Complete
  <1>2. PICK inst \in sent, mtu \in PathMTU : Under(f.id) = Slices(f.id, inst, mtu)
    BY DEF IInv, Sender
  <1>3. inst \in Instruction /\ mtu \in Nat
    BY FragmentAssumption DEF IInv, Sender
  <1>. HIDE DEF q, a, t
  <1>4. /\ q \in Seq(net \cup {Missing}) /\ Len(q) \in Nat /\ Present(q) \subseteq 1 .. Len(q)
        /\ Cardinality(Present(q)) \in Nat
        /\ Cardinality(Present(q)) = Len(q) => Present(q) = 1 .. Len(q)
    <2>1. q \in Seq(net \cup {Missing})
      BY <1>1 DEF Pieces
    <2>. QED
      BY <2>1, PresentFacts
  <1>5. t = Len(q) /\ Len(q) # 0 /\ q[Len(q)].final /\ Present(q) = 1 .. Len(q)
    BY <1>1, <1>4 DEF Counted, Unknown
  <1>6. ASSUME NEW i \in 1 .. Len(q)
        PROVE  /\ q[i] \in Slices(f.id, inst, mtu)
               /\ q[i] = Slice(f.id, inst, mtu, i - 1) /\ q[i] # Missing /\ q[i].of = inst
    <2>1. q[i] \in net /\ q[i].id = f.id /\ q[i].fragment_num = i - 1
      BY <1>1, <1>5 DEF Pieces
    <2>2. q[i] \in Slices(f.id, inst, mtu)
      BY <1>2, <2>1 DEF Under
    <2>. QED
      BY <1>3, <2>1, <2>2, SliceFacts
  <1>7. Len(q) = Count(inst, mtu)
    <2>1. Len(q) \in 1 .. Len(q)
      BY <1>4, <1>5
    <2>2. q[Len(q)] \in Slices(f.id, inst, mtu) /\ q[Len(q)].fragment_num = Len(q) - 1
      BY <1>1, <1>5, <1>6, <2>1 DEF Pieces
    <2>3. q[Len(q)].final <=> q[Len(q)].fragment_num + 1 = Count(inst, mtu)
      BY <1>3, <2>2, SliceFacts
    <2>. QED
      BY <1>4, <1>5, <2>2, <2>3
  <1>8. Parses(q, inst)
    <2>1. ASSUME NEW i \in 1 .. Len(q)
          PROVE  /\ q[i].first = (i - 1) * mtu + 1
                 /\ i = Len(q) => q[i].last = Length[inst]
                 /\ i # Len(q) => q[i].last = i * mtu
      <3>1. (i - 1) + 1 = i
        BY <1>4
      <3>. QED
        BY <1>6, <1>7, <3>1 DEF Slice
    <2>2. q[1].first = 1 /\ q[Len(q)].last = Length[inst]
      <3>1. 1 \in 1 .. Len(q) /\ Len(q) \in 1 .. Len(q)
        BY <1>4, <1>5
      <3>2. q[1].first = (1 - 1) * mtu + 1
        BY <2>1, <3>1
      <3>. QED
        BY <1>3, <2>1, <3>1, <3>2
    <2>3. ASSUME NEW i \in 1 .. Len(q) - 1 PROVE q[i + 1].first = q[i].last + 1
      <3>1. i \in 1 .. Len(q) /\ i + 1 \in 1 .. Len(q) /\ i # Len(q) /\ (i + 1) - 1 = i
        BY <1>4
      <3>2. q[i + 1].first = ((i + 1) - 1) * mtu + 1
        BY <2>1, <3>1
      <3>3. q[i].last = i * mtu
        BY <2>1, <3>1
      <3>. QED
        BY <3>1, <3>2, <3>3
    <2>4. DOMAIN q = 1 .. Len(q)
      BY <1>4
    <2>. QED
      BY <1>6, <2>2, <2>3, <2>4 DEF Parses
  <1>9. ASSUME NEW other \in Instruction, Parses(q, other) PROVE other = inst
    <2>1. 1 \in 1 .. Len(q) /\ DOMAIN q = 1 .. Len(q)
      BY <1>4, <1>5
    <2>. QED
      BY <1>6, <1>9, <2>1 DEF Parses
  <1>10. {i \in Instruction : Parses(q, i)} = {inst}
    BY <1>3, <1>8, <1>9
  <1>. QED
    BY <1>10 DEF Parsed, q

-----------------------------------------------------------------------------
(* The steps *)

LEMMA PiecesMonotone ==
    ASSUME NEW S, NEW T, S \subseteq T, NEW q, NEW id, Pieces(q, id, S)
    PROVE  Pieces(q, id, T)
  <1>1. q \in Seq(S \cup {Missing}) /\ S \cup {Missing} \subseteq T \cup {Missing}
    BY DEF Pieces
  <1>2. q \in Seq(T \cup {Missing})
    <2>1. Len(q) \in Nat /\ q = [i \in 1 .. Len(q) |-> q[i]] /\ \A i \in 1 .. Len(q) : q[i] \in T \cup {Missing}
      BY <1>1
    <2>. QED
      BY <2>1
  <1>. QED
    BY <1>2 DEF Pieces

LEMMA InitHolds == ASSUME Init PROVE IInv
  <1>1. Sender
    <2>1. 0 \in 0 .. MaxId /\ \A id \in 1 .. 0 : FALSE
      BY FragmentAssumption
    <2>. QED
      BY <2>1 DEF Init, Sender
  <1>2. Present(<<>>) = {} /\ Cardinality(Present(<<>>)) = 0
    BY FS_EmptySet DEF Present
  <1>3. Receiver
    BY <1>2 DEF Init, Receiver, Pieces, Counted, Unknown
  <1>. QED
    BY <1>1, <1>3 DEF IInv

LEMMA SendKeeps == ASSUME IInv, Send PROVE IInv'
  <1>. PICK inst \in Instruction :
          LET id == InstructionId(inst) IN
          /\ id <= MaxId
          /\ next_instruction_id' = id
          /\ last_instruction' = inst /\ last_MTU' = MTU
          /\ net' = net \cup Slices(id, inst, MTU)
          /\ sent' = sent \cup {inst}
          /\ UNCHANGED <<MTU, assembly, receiver_dead, delivered>>
    BY DEF Send, Slices
  <1>. PICK id : id = InstructionId(inst)
    OBVIOUS
  <1>1. net' = net \cup Slices(id, inst, MTU) /\ next_instruction_id' = id /\ id <= MaxId
    OBVIOUS
  <1>2. /\ next_instruction_id \in 0 .. MaxId /\ MTU \in PathMTU /\ MTU' = MTU
        /\ \A f \in net : f.id \in 1 .. next_instruction_id
        /\ MaxId \in Nat /\ NoInstruction \notin Instruction
    BY FragmentAssumption DEF IInv, Sender
  <1>3. \A f \in Slices(id, inst, MTU) : f.id = id
    BY <1>2, SliceFacts
  <1>4. CASE inst = last_instruction /\ MTU = last_MTU
    <2>1. id = next_instruction_id
      BY <1>4 DEF InstructionId
    <2>2. next_instruction_id # 0 /\ last_instruction \in sent
      BY <1>2, <1>4 DEF IInv, Sender
    <2>3. net' = net /\ sent' = sent
      <3>1. Slices(id, inst, MTU) = Under(next_instruction_id)
        BY <1>4, <2>1, <2>2 DEF IInv, Sender
      <3>. QED
        BY <1>1, <1>4, <2>2, <3>1 DEF Under
    <2>4. /\ next_instruction_id' = next_instruction_id
          /\ last_instruction' = last_instruction /\ last_MTU' = last_MTU
      BY <1>1, <1>4, <2>1
    <2>. QED
      BY <1>2, <2>3, <2>4 DEF IInv, Sender, Under, Receiver, assembly
  <1>5. CASE ~(inst = last_instruction /\ MTU = last_MTU)
    <2>1. id = next_instruction_id + 1
      BY <1>5 DEF InstructionId
    <2>2. Under(id)' = Slices(id, inst, MTU)
      BY <1>1, <1>2, <1>3, <2>1 DEF Under
    <2>3. ASSUME NEW k \in 1 .. next_instruction_id PROVE Under(k)' = Under(k)
      <3>1. k # id
        BY <1>2, <2>1
      <3>2. \A f \in Slices(id, inst, MTU) : f.id # k
        BY <1>3, <3>1
      <3>. QED
        BY <1>1, <3>2 DEF Under
    <2>4. \A f \in net' : f.id \in 1 .. id
      BY <1>1, <1>2, <1>3, <2>1
    <2>5. ASSUME NEW k \in 1 .. id
          PROVE  \E i \in sent', mtu \in PathMTU : Under(k)' = Slices(k, i, mtu)
      <3>1. CASE k = id
        <4>1. inst \in sent'
          OBVIOUS
        <4>2. Under(k)' = Slices(k, inst, MTU)
          BY <2>2, <3>1
        <4>. QED
          BY <1>2, <4>1, <4>2
      <3>2. CASE k # id
        <4>1. k \in 1 .. next_instruction_id
          BY <1>2, <2>1, <3>2
        <4>. QED
          BY <2>3, <4>1 DEF IInv, Sender
      <3>. QED
        BY <3>1, <3>2
    <2>6. Sender'
      <3>1. id \in 0 .. MaxId /\ id # 0
        BY <1>1, <1>2, <2>1
      <3>2. sent' \subseteq Instruction /\ delivered' \subseteq sent' /\ last_instruction' \in sent'
        BY DEF IInv, Sender
      <3>3. /\ next_instruction_id' = id /\ MTU' \in PathMTU /\ last_MTU' \in PathMTU
            /\ last_instruction' = inst /\ last_MTU' = MTU
        BY <1>1, <1>2
      <3>4. Under(next_instruction_id)' =
                Slices(next_instruction_id', last_instruction', last_MTU')
        <4>1. Under(next_instruction_id)' = Under(id)'
          BY <3>3 DEF Under
        <4>. QED
          BY <2>2, <3>3, <4>1
      <3>. QED
        BY <2>4, <2>5, <3>1, <3>2, <3>3, <3>4 DEF Sender
    <2>7. Receiver'
      <3>1. Pieces(fragments, current_id, net')
        BY <1>1, PiecesMonotone DEF IInv, Receiver
      <3>2. current_id \in 0 .. id
        BY <1>2, <2>1 DEF IInv, Receiver
      <3>. QED
        BY <1>1, <3>1, <3>2 DEF IInv, Receiver, assembly
    <2>. QED
      BY <2>6, <2>7 DEF IInv
  <1>. QED
    BY <1>4, <1>5

LEMMA ChangeMTUKeeps == ASSUME IInv, ChangeMTU PROVE IInv'
  BY DEF IInv, Sender, Under, Receiver, ChangeMTU, fragmenter, assembly

LEMMA UnchangedKeeps == ASSUME IInv, UNCHANGED vars PROVE IInv'
  BY DEF IInv, Sender, Under, Receiver, vars, fragmenter, assembly

LEMMA AddFragmentKeeps ==
    ASSUME IInv, AddFragment
    PROVE  /\ IInv'
           /\ \/ UNCHANGED delivered
              \/ \E inst \in sent : delivered' = delivered \cup {inst}
  <1>. PICK f \in net : Collect(f) \/ Assemble(f)
    BY DEF AddFragment
  <1>1. UNCHANGED <<fragmenter, MTU, net, sender_dead, sent>>
    BY DEF AddFragment
  <1>2. /\ AssertionsHold(f) /\ Pieces(Finished(f).fragments, f.id, net)
        /\ Counted(Finished(f).fragments, Finished(f).arrived, Finished(f).total)
    BY FinishedFacts
  <1>3. f.id \in 0 .. next_instruction_id
    <2>1. f.id \in 1 .. next_instruction_id /\ next_instruction_id \in Nat
      BY DEF IInv, Sender
    <2>. QED
      BY <2>1
  <1>4. ASSUME delivered' \subseteq sent PROVE Sender'
    BY <1>1, <1>4 DEF IInv, Sender, Under, fragmenter
  <1>5. CASE Collect(f)
    <2>1. Receiver'
      BY <1>1, <1>2, <1>3, <1>5 DEF Collect, Complete, Receiver, fragmenter
    <2>2. delivered' = delivered
      BY <1>5 DEF Collect
    <2>. QED
      BY <1>4, <2>1, <2>2 DEF IInv, Sender
  <1>6. CASE Assemble(f)
    <2>1. PICK inst \in sent : Parsed(Finished(f).fragments) = {inst}
      BY <1>6, AssembledFacts DEF Assemble
    <2>2. delivered' = delivered \cup {inst} /\ receiver_dead' = FALSE
      <3>1. inst # NoInstruction
        BY FragmentAssumption DEF IInv, Sender
      <3>. QED
        BY <1>2, <1>6, <2>1, <3>1 DEF Assemble
    <2>3. Pieces(<<>>, f.id, net) /\ Counted(<<>>, 0, Unknown) /\ 0 # Unknown
      <3>1. Present(<<>>) = {} /\ Cardinality(Present(<<>>)) = 0
        BY FS_EmptySet DEF Present
      <3>. QED
        BY <3>1 DEF Pieces, Counted, Unknown
    <2>4. Receiver'
      BY <1>1, <1>3, <1>6, <2>2, <2>3 DEF Assemble, Receiver, fragmenter
    <2>. QED
      BY <1>4, <2>2, <2>4 DEF IInv, Sender
  <1>. QED
    BY <1>5, <1>6

LEMMA Invariance == Spec => []IInv
  <1>1. Init => IInv
    BY InitHolds
  <1>2. IInv /\ [Next]_vars => IInv'
    BY SendKeeps, ChangeMTUKeeps, AddFragmentKeeps, UnchangedKeeps DEF Next
  <1>. QED
    BY <1>1, <1>2, PTL DEF Spec

-----------------------------------------------------------------------------
(***************************************************************************)
(* No assertion of the receiver ever fails, and whenever the receiver has  *)
(* a fragment of an instruction whose final fragment was sent, one of its  *)
(* fragments is still missing: what is whole was passed on at once.        *)
(***************************************************************************)
LEMMA IInvHoldsNothingBack == ASSUME IInv PROVE NothingHeldBack
  <1>. SUFFICES ASSUME NEW g \in net, g.id = current_id, g.final,
                       \A f \in net : f.id = current_id => \E i \in DOMAIN fragments : fragments[i] = f
                PROVE  FALSE
    BY DEF NothingHeldBack, NoAbort, IInv, Receiver
  <1>1. /\ Pieces(fragments, current_id, net) /\ fragments \in Seq(net \cup {Missing})
        /\ Counted(fragments, fragments_arrived, fragments_total)
        /\ fragments_arrived # fragments_total
    BY DEF IInv, Receiver, Pieces
  <1>2. /\ Len(fragments) \in Nat /\ DOMAIN fragments = 1 .. Len(fragments)
        /\ Present(fragments) \subseteq 1 .. Len(fragments)
        /\ Cardinality(1 .. Len(fragments)) = Len(fragments)
    <2>1. Len(fragments) \in Nat /\ DOMAIN fragments = 1 .. Len(fragments)
      BY <1>1
    <2>2. Cardinality(1 .. Len(fragments)) = Len(fragments)
      <3>. DEFINE n == Len(fragments)
      <3>1. n \in Nat
        BY <2>1
      <3>. HIDE DEF n
      <3>2. Cardinality(1 .. n) = IF 1 > n THEN 0 ELSE n - 1 + 1
        BY <3>1, FS_Interval
      <3>3. Cardinality(1 .. n) = n
        BY <3>1, <3>2
      <3>. QED
        BY <3>3 DEF n
    <2>. QED
      BY <1>1, <2>1, <2>2, PresentFacts
  <1>3. ASSUME NEW f \in net, f.id = current_id
        PROVE  \E i \in Present(fragments) : fragments[i] = f
    <2>1. f # Missing
      BY NetFits DEF IInv, Fit
    <2>. QED
      BY <1>2, <1>3, <2>1 DEF Present
  <1>. DEFINE final == fragments[Len(fragments)]
  <1>4. /\ fragments_total = Len(fragments) /\ Len(fragments) # 0 /\ final.final
        /\ final \in net /\ final.id = current_id /\ final.fragment_num = Len(fragments) - 1
    <2>1. PICK i \in Present(fragments) : fragments[i] = g
      BY <1>3
    <2>2. fragments_total = Len(fragments) /\ Len(fragments) # 0 /\ final.final
      BY <1>1, <2>1 DEF Counted
    <2>. QED
      BY <1>1, <2>2 DEF Pieces
  <1>5. PICK inst \in Instruction, mtu \in PathMTU : Under(current_id) = Slices(current_id, inst, mtu)
    BY DEF IInv, Sender
  <1>. HIDE DEF final
  <1>6. Len(fragments) = Count(inst, mtu) /\ Len(fragments) <= FragmentLimit /\ FragmentLimit \in Nat
    <2>1. final \in Slices(current_id, inst, mtu)
      BY <1>4, <1>5 DEF Under
    <2>2. /\ final.final <=> final.fragment_num + 1 = Count(inst, mtu)
          /\ final.fragment_num < FragmentLimit
      BY <2>1, SliceFacts
    <2>. QED
      BY <1>2, <1>4, <2>2, FragmentAssumption
  <1>7. ASSUME NEW n \in 1 .. Len(fragments) PROVE n \in Present(fragments)
    <2>. DEFINE f == Slice(current_id, inst, mtu, n - 1)
    <2>1. n - 1 \in 0 .. FragmentLimit - 1 /\ n - 1 < Count(inst, mtu)
      BY <1>2, <1>6
    <2>2. f \in Under(current_id)
      BY <1>5, <2>1 DEF Slices
    <2>3. f.fragment_num = n - 1
      BY DEF Slice
    <2>. HIDE DEF f
    <2>4. PICK i \in Present(fragments) : fragments[i] = f
      BY <1>3, <2>2 DEF Under
    <2>5. f.fragment_num = i - 1 /\ i \in Int
      BY <1>1, <1>2, <2>4 DEF Pieces
    <2>. QED
      BY <2>3, <2>4, <2>5
  <1>8. Present(fragments) = 1 .. Len(fragments)
    BY <1>2, <1>7
  <1>. QED
    BY <1>1, <1>2, <1>4, <1>8 DEF Counted

THEOREM WholeInstructionsPass == Spec => []NothingHeldBack
  <1>1. IInv => NothingHeldBack
    BY IInvHoldsNothingBack
  <1>. QED
    BY <1>1, Invariance, PTL

(***************************************************************************)
(* Fragmentation is the channel Transport relies on: instructions may be   *)
(* lost, repeated and reordered, never altered or made up.                 *)
(***************************************************************************)
THEOREM FragmentsImplementChannel == Spec => ImplementsChannel
  <1>1. Init => Channel!Init
    BY DEF Init, Channel!Init
  <1>2. IInv /\ [Next]_vars => [Channel!Send \/ Channel!Deliver]_<<sent, delivered>>
    <2>. SUFFICES ASSUME IInv, [Next]_vars PROVE [Channel!Send \/ Channel!Deliver]_<<sent, delivered>>
      OBVIOUS
    <2>1. CASE Send
      BY <2>1 DEF Send, Channel!Send
    <2>2. CASE AddFragment
      <3>1. UNCHANGED sent
        BY <2>2 DEF AddFragment
      <3>. QED
        BY <2>2, <3>1, AddFragmentKeeps DEF Channel!Deliver
    <2>3. CASE ChangeMTU \/ UNCHANGED vars
      BY <2>3 DEF ChangeMTU, vars
    <2>. QED
      BY <2>1, <2>2, <2>3 DEF Next
  <1>. QED
    BY <1>1, <1>2, Invariance, PTL DEF Spec, ImplementsChannel, Channel!Spec
=============================================================================
