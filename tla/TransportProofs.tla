-------------------------- MODULE TransportProofs --------------------------
(***************************************************************************)
(* Transport keeps its promises for any set of states, any queue limits    *)
(* with 3 <= CullBack <= SentLimit, and any bounds on the numbers used.    *)
(*                                                                         *)
(* The argument goes one direction at a time: e sends, Peer(e) receives.   *)
(* Three facts carry it.  A number names one state (Queue).  No            *)
(* instruction tells the receiver to throw away what the sender still has  *)
(* as its front, or the instruction's own reference (Carried).  And an     *)
(* acknowledgment on its way either names a state the receiver still       *)
(* holds, or one below the sender's whole queue, where it has no effect    *)
(* (Acks).                                                                 *)
(***************************************************************************)
EXTENDS Transport, FiniteSetTheorems, TLAPS

Functional(S) == \A s, t \in S : s.num = t.num => s = t

Queue(e) ==
    /\ IsFiniteSet(sent[e])
    /\ sent[e] \subseteq published[e]
    /\ Functional(published[e])
    /\ \E f \in sent[e] : IsFront(f, sent[e])
    /\ \E b \in sent[e] : IsBack(b, published[e])
    /\ extra[e] # 0 => ShutdownNum \in Nums(sent[e])

Final(e) ==
    \A s \in published[e] : s.num = ShutdownNum => shutdown[e] /\ s.state = current[e]

Carried(e) ==
    \A m \in net[e] :
        /\ [num |-> m.old, state |-> m.from] \in published[e]
        /\ [num |-> m.new, state |-> m.to] \in published[e]
        /\ m.throwaway <= m.old
        /\ \A s \in sent[e] : m.throwaway <= s.num

Held(e) ==
    /\ received[Peer(e)] \subseteq published[e]
    /\ \A f \in sent[e] : IsFront(f, sent[e]) => f \in received[Peer(e)]
    /\ \E r \in received[Peer(e)] :
          IsBack(r, received[Peer(e)]) /\ r.num = ack_num[Peer(e)]

AckSafe(a, e) ==
    \/ a \in Nums(received[Peer(e)])
    \/ \A s \in sent[e] : a < s.num

Acks(e) ==
    /\ AckSafe(last_ack[Peer(e)], e)
    /\ \A m \in net[Peer(e)] : AckSafe(m.ack, e)

Direction(e) == Queue(e) /\ Final(e) /\ Carried(e) /\ Held(e) /\ Acks(e)

IInv == TypeOK /\ \A e \in Endpoint : Direction(e)

-----------------------------------------------------------------------------
LEMMA PeerFacts ==
    \A e \in Endpoint : Peer(e) \in Endpoint /\ Peer(e) # e /\ Peer(Peer(e)) = e
  BY EndsDiffer DEF Endpoint, Peer

LEMMA OtherIsPeer == ASSUME NEW e \in Endpoint, NEW f \in Endpoint, f # e PROVE f = Peer(e)
  BY EndsDiffer DEF Endpoint, Peer

(***************************************************************************)
(* What culling leaves: the front, the state just pushed, and the state    *)
(* that was the back before it.                                            *)
(***************************************************************************)
LEMMA CullKeeps ==
    ASSUME NEW S \in SUBSET TimestampedState, IsFiniteSet(S), NEW c \in Nat
    PROVE  /\ Cull(S, c) \subseteq S
           /\ \A s \in S : IsBack(s, S) => s \in Cull(S, c)
           /\ \A f \in S : (\A t \in S \ {f} : f.num < t.num) => f \in Cull(S, c)
           /\ \A b, s \in S : (c = 0 /\ b # s /\ b.num < s.num
                  /\ \A t \in S \ {b, s} : t.num < b.num) => b \in Cull(S, c)
<1>1. Cull(S, c) \subseteq S
  BY DEF Cull
<1>2. ASSUME NEW s \in S, IsBack(s, S) PROVE s \in Cull(S, c)
  <2>1. {u \in S : u.num > s.num} = {}
    BY <1>2 DEF IsBack, TimestampedState, Num
  <2> QED BY <2>1 DEF Cull
<1>3. ASSUME NEW f \in S, \A t \in S \ {f} : f.num < t.num PROVE f \in Cull(S, c)
  <2>1. {u \in S : u.num > f.num} = S \ {f}
    BY <1>3 DEF TimestampedState, Num
  <2>2. Cardinality(S \ {f}) = Cardinality(S) - 1 /\ Cardinality(S) \in Nat
    BY FS_RemoveElement, FS_CardinalityType
  <2>3. TooMany(S, c) => Cardinality(S \ {f}) + c # CullBack - 1
    BY <2>2, LimitAssumption DEF TooMany
  <2> QED BY <2>1, <2>3 DEF Cull
<1>4. ASSUME NEW b \in S, NEW s \in S, c = 0, b # s, b.num < s.num,
             \A t \in S \ {b, s} : t.num < b.num
      PROVE  b \in Cull(S, c)
  <2>1. {u \in S : u.num > b.num} = {s}
    BY <1>4 DEF TimestampedState, Num
  <2>2. Cardinality({s}) = 1
    BY FS_Singleton
  <2>3. Cardinality({u \in S : u.num > b.num}) + c # CullBack - 1
    BY <2>1, <2>2, <1>4, LimitAssumption
  <2> QED BY <2>3 DEF Cull
<1> QED BY <1>1, <1>2, <1>3, <1>4

-----------------------------------------------------------------------------
(***************************************************************************)
(* After either kind of send, s is the record the instruction carries:     *)
(* the queue has it as its back, and still has the front and the back it   *)
(* had before.                                                             *)
(***************************************************************************)
Pushed(e, back, s) ==
    /\ sent' = [sent EXCEPT ![e] = sent'[e]]
    /\ sent'[e] \subseteq sent[e] \cup {s}
    /\ s \in sent'[e] /\ back \in sent'[e]
    /\ \A f \in sent[e] : IsFront(f, sent[e]) => f \in sent'[e]
    /\ IsFiniteSet(sent'[e])
    /\ published' = [published EXCEPT ![e] = @ \cup {s}]
    /\ \A t \in published[e] : t.num < s.num \/ t = s
    /\ extra' = [extra EXCEPT ![e] = extra'[e]]
    /\ extra'[e] \in 0 .. MaxExtra
    /\ extra'[e] # 0 => s.num = ShutdownNum

Fresh(e, back, s) ==
    /\ s \in [num : Num, state : {current[e]}]
    /\ \/ s.num = back.num + 1 /\ s.num # ShutdownNum
       \/ s.num = ShutdownNum /\ shutdown[e]

Current(e, s) ==
    s \in [num : Num, state : {current[e]}] /\ (s.num = ShutdownNum => shutdown[e])

LEMMA BackIsNewest ==
    ASSUME IInv, NEW e \in Endpoint, NEW back \in sent[e], IsBack(back, sent[e])
    PROVE  IsBack(back, published[e])
<1>1. PICK b \in sent[e] : IsBack(b, published[e])
  BY DEF IInv, Direction, Queue
<1>2. b.num = back.num /\ sent[e] \subseteq published[e] /\ Functional(published[e])
  <2>1. sent[e] \subseteq published[e] /\ Functional(published[e])
    BY DEF IInv, Direction, Queue
  <2>2. b.num \in Nat /\ back.num \in Nat
    BY DEF IInv, TypeOK, TimestampedState, Num
  <2> QED BY <1>1, <2>1, <2>2 DEF IsBack
<1> QED BY <1>1, <1>2 DEF Functional

LEMMA NewestIsOld ==
    ASSUME IInv, NEW e \in Endpoint, NEW back \in sent[e], IsBack(back, sent[e]),
           NEW s, Fresh(e, back, s)
    PROVE  /\ \A t \in published[e] : t.num < s.num \/ t = s
           /\ \A t \in published[e] : t.num \in Nat
           /\ s \in sent[e] => s = back
           /\ s.num \in Nat
<1>1. IsBack(back, published[e]) /\ sent[e] \subseteq published[e] /\ Functional(published[e])
  BY BackIsNewest DEF IInv, Direction, Queue
<1>2. s.num \in Num /\ s.state = current[e] /\ s = [num |-> s.num, state |-> s.state]
  BY DEF Fresh
<1>3. published[e] \subseteq TimestampedState
  BY DEF IInv, TypeOK
<1>4. \A t \in published[e] : t.num \in Num /\ t = [num |-> t.num, state |-> t.state]
  BY <1>3 DEF TimestampedState
<1>5. ASSUME NEW t \in published[e] PROVE t.num < s.num \/ t = s
  <2>1. CASE s.num = back.num + 1
    BY <2>1, <1>1, <1>2, <1>4 DEF IsBack, Num
  <2>2. CASE s.num = ShutdownNum
    <3>1. CASE t.num = ShutdownNum
      <4>1. t.state = current[e]
        BY <3>1 DEF IInv, Direction, Final
      <4> QED BY <4>1, <3>1, <2>2, <1>2, <1>4
    <3>2. CASE t.num # ShutdownNum
      BY <3>2, <2>2, <1>2, <1>4, BoundAssumption DEF Num
    <3> QED BY <3>1, <3>2
  <2> QED BY <2>1, <2>2 DEF Fresh
<1>6. s \in sent[e] => s = back
  BY <1>1, <1>2, <1>4, <1>5 DEF IsBack, Num
<1> QED BY <1>2, <1>4, <1>5, <1>6 DEF Num

LEMMA AddPushes ==
    ASSUME IInv, NEW e \in Endpoint, NEW back \in sent[e], IsBack(back, sent[e]),
           NEW s, Fresh(e, back, s), AddSentState(e, s)
    PROVE  Pushed(e, back, s)
<1> DEFINE grown == sent[e] \cup {s}
           c == IF s \in sent[e] THEN extra[e] + 1 ELSE extra[e]
<1>1. /\ sent[e] \subseteq published[e] /\ IsFiniteSet(sent[e]) /\ Functional(published[e])
      /\ IsBack(back, published[e])
      /\ extra[e] # 0 => ShutdownNum \in Nums(sent[e])
      /\ extra[e] \in Nat
      /\ sent \in [Endpoint -> SUBSET TimestampedState]
      /\ extra \in [Endpoint -> 0 .. MaxExtra]
      /\ current[e] \in State
  BY BackIsNewest, BoundAssumption DEF IInv, TypeOK, Direction, Queue
<1>2. /\ \A t \in published[e] : t.num < s.num \/ t = s
      /\ \A t \in published[e] : t.num \in Nat
      /\ s \in sent[e] => s = back
      /\ s.num \in Nat
  BY NewestIsOld
<1>3. s \in TimestampedState
  BY <1>1 DEF Fresh, TimestampedState
<1>4. grown \in SUBSET TimestampedState /\ IsFiniteSet(grown)
  BY <1>1, <1>3, FS_AddElement
<1>5. c \in Nat
  BY <1>1
<1>6. /\ c <= MaxExtra
      /\ sent' = [sent EXCEPT ![e] = Cull(grown, c)]
      /\ extra' = [extra EXCEPT ![e] = CullExtra(grown, c)]
      /\ published' = [published EXCEPT ![e] = @ \cup {s}]
  BY DEF AddSentState
<1>7. sent'[e] = Cull(grown, c) /\ extra'[e] = CullExtra(grown, c)
  BY <1>1, <1>6
<1> HIDE DEF grown
<1>8. Cull(grown, c) \subseteq grown
  BY <1>4, <1>5, CullKeeps
<1>9. s \in Cull(grown, c)
  <2>1. s \in grown /\ IsBack(s, grown)
    BY <1>1, <1>2 DEF IsBack, grown
  <2> QED BY <2>1, <1>4, <1>5, CullKeeps
<1>10. ASSUME NEW f \in sent[e], IsFront(f, sent[e]) PROVE f \in Cull(grown, c)
  <2>1. CASE f = s
    BY <2>1, <1>9
  <2>2. CASE f # s
    <3>1. \A t \in sent[e] : f.num <= t.num /\ (t.num = f.num => t = f)
      BY <1>1, <1>10 DEF IsFront, Functional
    <3>2. f \in grown /\ \A t \in grown \ {f} : f.num < t.num
      BY <3>1, <1>1, <1>2, <2>2 DEF grown
    <3> QED BY <3>2, <1>4, <1>5, CullKeeps
  <2> QED BY <2>1, <2>2
<1>11. back \in Cull(grown, c)
  <2>1. CASE back = s
    BY <2>1, <1>9
  <2>2. CASE back # s
    <3>1. s \notin sent[e] /\ back.num < s.num
      BY <1>1, <1>2, <2>2
    <3>2. extra[e] = 0
      BY <3>1, <1>1, <1>2, BoundAssumption DEF Nums, Fresh, Num
    <3>3. \A t \in sent[e] : t.num <= back.num /\ (t.num = back.num => t = back)
      BY <1>1 DEF IsBack, Functional
    <3>4. \A t \in grown \ {back, s} : t.num < back.num
      BY <3>3, <1>1, <1>2 DEF grown
    <3>5. back \in grown /\ s \in grown /\ c = 0
      BY <3>1, <3>2 DEF grown
    <3> QED BY <3>1, <3>4, <3>5, <2>2, <1>4, <1>5, CullKeeps
  <2> QED BY <2>1, <2>2
<1>12. IsFiniteSet(Cull(grown, c))
  BY <1>4, <1>8, FS_Subset
<1>13. CullExtra(grown, c) \in 0 .. MaxExtra /\ (CullExtra(grown, c) # 0 => c # 0)
  BY <1>5, <1>6, LimitAssumption, BoundAssumption DEF CullExtra
<1>14. c # 0 => s.num = ShutdownNum
  <2>1. CASE s \in sent[e]
    <3>1. s.num # back.num + 1
      BY <2>1, <1>2
    <3> QED BY <3>1 DEF Fresh
  <2>2. CASE s \notin sent[e]
    BY <2>2, <1>1, <1>2, BoundAssumption DEF Nums, Fresh, Num
  <2> QED BY <2>1, <2>2
<1>15. sent'[e] \subseteq sent[e] \cup {s}
  BY <1>7, <1>8 DEF grown
<1> QED BY <1>2, <1>6, <1>7, <1>9, <1>10, <1>11, <1>12, <1>13, <1>14, <1>15 DEF Pushed

(***************************************************************************)
(* Sending keeps the invariant, in the direction of the instruction and in *)
(* the other, whose states it acknowledges.                                *)
(***************************************************************************)
LEMMA SendKeeps ==
    ASSUME IInv, NEW e \in Endpoint, NEW back \in sent[e], IsBack(back, sent[e]),
           NEW base \in sent[e], IsFront(base, sent[e]) \/ base = back,
           NEW s, Current(e, s), Pushed(e, back, s), SendInFragments(e, base, s.num)
    PROVE  IInv'
<1> USE PeerFacts
<1>1. PICK old \in IF base \in sent'[e] THEN {base.num} ELSE Num, front \in sent'[e] :
          /\ IsFront(front, sent'[e])
          /\ net' = [net EXCEPT ![e] = @ \cup
                 {[old |-> old, new |-> s.num, ack |-> ack_num[e],
                   throwaway |-> front.num, from |-> base.state, to |-> current[e]]}]
          /\ last_ack' = [last_ack EXCEPT ![e] = ack_num[e]]
          /\ UNCHANGED <<current, ack_num, shutdown, received>>
  BY DEF SendInFragments
<1> DEFINE m0 == [old |-> base.num, new |-> s.num, ack |-> ack_num[e],
                  throwaway |-> front.num, from |-> base.state, to |-> current[e]]
<1>2. /\ TypeOK
      /\ Queue(e) /\ Final(e) /\ Carried(e) /\ Held(e) /\ Acks(e)
      /\ Direction(Peer(e))
  BY DEF IInv, Direction
<1>3. base \in sent'[e]
  BY DEF Pushed
<1>4. net' = [net EXCEPT ![e] = @ \cup {m0}]
  BY <1>1, <1>3
<1>5. /\ s \in TimestampedState /\ s = [num |-> s.num, state |-> current[e]]
      /\ s.num \in Nat /\ s.state = current[e]
      /\ s.num = ShutdownNum => shutdown[e]
  BY <1>2 DEF Current, TypeOK, TimestampedState, Num
<1>6. /\ published[e] \subseteq TimestampedState /\ sent[e] \subseteq TimestampedState
      /\ \A t \in TimestampedState : t.num \in Nat /\ t = [num |-> t.num, state |-> t.state]
      /\ sent[e] \subseteq published[e]
  BY <1>2 DEF TypeOK, TimestampedState, Num, Queue
<1>7. /\ sent'[e] \subseteq sent[e] \cup {s} /\ s \in sent'[e]
      /\ published'[e] = published[e] \cup {s}
      /\ sent'[Peer(e)] = sent[Peer(e)] /\ published'[Peer(e)] = published[Peer(e)]
      /\ extra'[Peer(e)] = extra[Peer(e)]
      /\ \A t \in published[e] : t.num < s.num \/ t = s
  BY <1>2 DEF Pushed, TypeOK
<1>8. front \in sent[e] /\ IsFront(front, sent[e])
  <2>1. PICK f \in sent[e] : IsFront(f, sent[e])
    BY <1>2 DEF Queue
  <2>2. f \in sent'[e]
    BY <2>1 DEF Pushed
  <2>3. f.num <= s.num
    BY <2>1, <1>5, <1>6, <1>7
  <2>4. front.num = f.num
    <3>1. front.num <= f.num
      BY <1>1, <2>2 DEF IsFront
    <3>2. f.num <= front.num
      BY <1>7, <2>1, <2>3 DEF IsFront
    <3>3. front.num \in Nat /\ f.num \in Nat
      BY <1>1, <1>5, <1>6, <1>7, <2>1
    <3> QED BY <3>1, <3>2, <3>3
  <2>5. front \in published'[e] /\ f \in published[e] /\ Functional(published[e])
    BY <1>1, <1>2, <1>6, <1>7, <2>1 DEF Queue
  <2>6. front = f
    BY <2>4, <2>5, <1>6, <1>7 DEF Functional
  <2> QED BY <2>1, <2>6
<1>9. TypeOK'
  <2>1. /\ ack_num[e] \in Num /\ base.num \in Num /\ s.num \in Num /\ front.num \in Num
        /\ base.state \in State \cup {Corrupt} /\ current[e] \in State \cup {Corrupt}
    BY <1>2, <1>5, <1>6, <1>8 DEF TypeOK, TimestampedState
  <2>2. m0 \in Instruction
    BY <2>1 DEF Instruction
  <2>3. net' \in [Endpoint -> SUBSET Instruction]
    BY <2>2, <1>4, <1>2 DEF TypeOK
  <2>4. sent'[e] \in SUBSET TimestampedState
    BY <1>5, <1>6, <1>7
  <2>5. sent' \in [Endpoint -> SUBSET TimestampedState]
    BY <2>4, <1>2 DEF TypeOK, Pushed
  <2>6. published' \in [Endpoint -> SUBSET TimestampedState]
    BY <1>5, <1>2 DEF TypeOK, Pushed
  <2>7. extra' \in [Endpoint -> 0 .. MaxExtra]
    BY <1>2 DEF TypeOK, Pushed
  <2>8. last_ack' \in [Endpoint -> Num]
    BY <1>1, <1>2 DEF TypeOK
  <2> QED BY <2>3, <2>5, <2>6, <2>7, <2>8, <1>1, <1>2 DEF TypeOK
<1>10. Queue(e)'
  <2>1. IsFiniteSet(sent'[e])
    BY DEF Pushed
  <2>2. sent'[e] \subseteq published'[e]
    BY <1>6, <1>7
  <2>3. Functional(published'[e])
    BY <1>2, <1>5, <1>6, <1>7 DEF Functional, Queue
  <2>4. s \in sent'[e] /\ IsBack(s, published'[e])
    BY <1>5, <1>6, <1>7 DEF IsBack
  <2>5. extra'[e] # 0 => ShutdownNum \in Nums(sent'[e])
    BY <1>7 DEF Pushed, Nums
  <2> QED BY <2>1, <2>2, <2>3, <2>4, <2>5, <1>1 DEF Queue
<1>11. Final(e)'
  BY <1>1, <1>2, <1>5, <1>7 DEF Final
<1>12. Carried(e)'
  <2> SUFFICES ASSUME NEW m \in net'[e]
               PROVE  /\ [num |-> m.old, state |-> m.from] \in published'[e]
                      /\ [num |-> m.new, state |-> m.to] \in published'[e]
                      /\ m.throwaway <= m.old
                      /\ \A t \in sent'[e] : m.throwaway <= t.num
    BY DEF Carried
  <2>1. net'[e] = net[e] \cup {m0}
    BY <1>2, <1>4 DEF TypeOK
  <2>2. CASE m = m0
    <3>1. [num |-> m.old, state |-> m.from] = base /\ [num |-> m.new, state |-> m.to] = s
      BY <2>2, <1>5, <1>6
    <3>2. m.throwaway = front.num
      BY <2>2
    <3>3. \A t \in sent'[e] : front.num <= t.num
      BY <1>1 DEF IsFront
    <3> QED BY <3>1, <3>2, <3>3, <1>3, <1>6, <1>7, <2>2
  <2>3. CASE m \in net[e]
    <3>1. /\ [num |-> m.old, state |-> m.from] \in published[e]
          /\ [num |-> m.new, state |-> m.to] \in published[e]
          /\ m.throwaway <= m.old
          /\ \A t \in sent[e] : m.throwaway <= t.num
      BY <2>3, <1>2 DEF Carried
    <3>2. m.throwaway \in Nat
      BY <2>3, <1>2 DEF TypeOK, Instruction, Num
    <3>3. m.throwaway <= back.num /\ (back.num < s.num \/ back = s)
      BY <3>1, <1>6, <1>7
    <3> QED BY <3>1, <3>2, <3>3, <1>5, <1>6, <1>7
  <2> QED BY <2>1, <2>2, <2>3
<1>13. Held(e)'
  <2>1. \A f \in sent'[e] : IsFront(f, sent'[e]) => f = front
    <3> SUFFICES ASSUME NEW f \in sent'[e], IsFront(f, sent'[e]) PROVE f = front
      OBVIOUS
    <3>1. f.num = front.num
      BY <1>1, <1>5, <1>6, <1>7 DEF IsFront
    <3> QED BY <3>1, <1>10, <1>1 DEF Queue, Functional
  <2>2. front \in received[Peer(e)]
    BY <1>2, <1>8 DEF Held
  <2> QED BY <2>1, <2>2, <1>1, <1>2, <1>7 DEF Held
<1>14. Acks(e)'
  <2>1. ASSUME NEW a \in Nat, AckSafe(a, e) PROVE AckSafe(a, e)'
    <3>1. CASE a \in Nums(received[Peer(e)])
      BY <3>1, <1>1 DEF AckSafe
    <3>2. CASE \A t \in sent[e] : a < t.num
      <4>1. a < back.num /\ (back.num < s.num \/ back = s)
        BY <3>2, <1>6, <1>7
      <4> QED BY <4>1, <3>2, <1>5, <1>6, <1>7 DEF AckSafe
    <3> QED BY <3>1, <3>2, <2>1 DEF AckSafe
  <2>2. last_ack'[Peer(e)] = last_ack[Peer(e)] /\ net'[Peer(e)] = net[Peer(e)]
    BY <1>1, <1>2, <1>4 DEF TypeOK
  <2>3. last_ack[Peer(e)] \in Nat /\ \A m \in net[Peer(e)] : m.ack \in Nat
    BY <1>2 DEF TypeOK, Instruction, Num
  <2> QED BY <2>1, <2>2, <2>3, <1>2 DEF Acks
<1>15. Direction(Peer(e))'
  <2>1. /\ net'[Peer(e)] = net[Peer(e)] /\ net'[e] = net[e] \cup {m0}
        /\ last_ack'[e] = ack_num[e]
    BY <1>1, <1>2, <1>4 DEF TypeOK
  <2>2. Queue(Peer(e))' /\ Final(Peer(e))' /\ Carried(Peer(e))' /\ Held(Peer(e))'
    BY <1>1, <1>2, <1>7, <2>1 DEF Direction, Queue, Final, Carried, Held
  <2>3. ack_num[e] \in Nums(received[e])
    BY <1>2 DEF Direction, Held, Nums
  <2>4. Acks(Peer(e))'
    BY <2>1, <2>3, <1>1, <1>2, <1>7 DEF Direction, Acks, AckSafe
  <2> QED BY <2>2, <2>4 DEF Direction
<1>16. Direction(e)'
  BY <1>10, <1>11, <1>12, <1>13, <1>14 DEF Direction
<1> QED BY <1>9, <1>15, <1>16, OtherIsPeer DEF IInv

LEMMA TickPushes ==
    ASSUME IInv, NEW e \in Endpoint, Tick(e)
    PROVE  \E back, base \in sent[e] : \E s :
              /\ IsBack(back, sent[e]) /\ (IsFront(base, sent[e]) \/ base = back)
              /\ Current(e, s) /\ Pushed(e, back, s) /\ SendInFragments(e, base, s.num)
<1>1. PICK front \in sent[e], back \in sent[e] :
          /\ IsFront(front, sent[e]) /\ IsBack(back, sent[e])
          /\ \E base \in DiffBases(e, front, back) :
                SendEmptyAck(e, base, back) \/ SendToReceiver(e, base, back)
  BY DEF Tick
<1>2. PICK base \in {front, back} : SendEmptyAck(e, base, back) \/ SendToReceiver(e, base, back)
  BY <1>1 DEF DiffBases
<1>3. /\ back.num \in Num /\ back = [num |-> back.num, state |-> back.state]
      /\ back \in published[e] /\ IsBack(back, published[e])
      /\ MaxNum[e] < ShutdownNum /\ MaxAckNum[e] < ShutdownNum
      /\ MaxNum[e] \in Nat /\ MaxAckNum[e] \in Nat /\ ShutdownNum \in Nat
  BY <1>1, BackIsNewest, BoundAssumption DEF IInv, TypeOK, TimestampedState, IsBack
<1>4. CASE SendEmptyAck(e, base, back)
  <2> DEFINE new_num == IF shutdown[e] THEN ShutdownNum ELSE back.num + 1
             s == [num |-> new_num, state |-> current[e]]
  <2>1. Fresh(e, back, s)
    BY <1>3, <1>4 DEF SendEmptyAck, Fresh, Num
  <2>2. AddSentState(e, s) /\ SendInFragments(e, base, s.num)
    BY <1>4 DEF SendEmptyAck
  <2> HIDE DEF s
  <2>3. Pushed(e, back, s)
    BY <2>1, <2>2, <1>1, AddPushes
  <2>4. Current(e, s)
    BY <2>1 DEF Fresh, Current
  <2> QED BY <2>2, <2>3, <2>4, <1>1, <1>2
<1>5. CASE SendToReceiver(e, base, back)
  <2> DEFINE new_num == SendNum(e, back)
             s == [num |-> new_num, state |-> current[e]]
  <2>1. SendInFragments(e, base, s.num) /\ (shutdown[e] \/ new_num <= MaxNum[e])
    BY <1>5 DEF SendToReceiver
  <2>2. CASE new_num # back.num
    <3>1. Fresh(e, back, s)
      BY <2>1, <2>2, <1>3 DEF Fresh, Num, SendNum
    <3>2. AddSentState(e, s)
      BY <2>2, <1>5 DEF SendToReceiver
    <3> HIDE DEF s
    <3>3. Pushed(e, back, s)
      BY <3>1, <3>2, <1>1, AddPushes
    <3>4. Current(e, s)
      BY <3>1 DEF Fresh, Current
    <3> QED BY <3>3, <3>4, <2>1, <1>1, <1>2
  <2>3. CASE new_num = back.num
    <3>1. UNCHANGED <<sent, extra, published>>
      BY <2>3, <1>5 DEF SendToReceiver
    <3>2. back.state = current[e]
      BY <2>3, <1>3 DEF IInv, Direction, Final, Num, SendNum
    <3>3. s = back
      BY <2>3, <3>2, <1>3
    <3>4. Current(e, s)
      BY <2>3, <3>3, <1>3 DEF Current, IInv, Direction, Final
    <3> HIDE DEF s
    <3>5. Pushed(e, back, s)
      <4>1. /\ sent[e] \subseteq published[e] /\ IsFiniteSet(sent[e]) /\ Functional(published[e])
            /\ extra[e] # 0 => ShutdownNum \in Nums(sent[e])
            /\ extra[e] \in 0 .. MaxExtra
            /\ published[e] \subseteq TimestampedState
        BY DEF IInv, Direction, Queue, TypeOK
      <4>2. sent' = sent /\ extra' = extra /\ published' = published
        BY <3>1
      <4>3. sent = [sent EXCEPT ![e] = sent[e]] /\ extra = [extra EXCEPT ![e] = extra[e]]
            /\ published = [published EXCEPT ![e] = @ \cup {back}]
        BY <1>3 DEF IInv, TypeOK
      <4>4. \A t \in published[e] : t.num < back.num \/ t = back
        BY <1>3, <4>1 DEF IsBack, Functional, TimestampedState, Num
      <4>5. extra[e] # 0 => back.num = ShutdownNum
        BY <1>1, <1>3, <4>1 DEF IsBack, Nums, Num
      <4> QED BY <1>1, <3>3, <4>1, <4>2, <4>3, <4>4, <4>5 DEF Pushed
    <3> QED BY <3>4, <3>5, <2>1, <1>1, <1>2
  <2> QED BY <2>2, <2>3
<1> QED BY <1>2, <1>4, <1>5

LEMMA TickKeeps == ASSUME IInv, NEW e \in Endpoint, Tick(e) PROVE IInv'
  BY TickPushes, SendKeeps

(***************************************************************************)
(* Receiving: the queue of the receiver's own states loses its             *)
(* acknowledged prefix, and an ack that has an effect names a state the    *)
(* other end holds.                                                        *)
(***************************************************************************)
LEMMA AckKeeps ==
    ASSUME IInv, NEW e \in Endpoint, NEW m \in net[Peer(e)], Receive(e, m)
    PROVE  Direction(e)' /\ sent' \in [Endpoint -> SUBSET TimestampedState]
<1> USE PeerFacts
<1>1. /\ TypeOK
      /\ Queue(e) /\ Final(e) /\ Carried(e) /\ Held(e) /\ Acks(e)
      /\ m.ack \in Nat /\ AckSafe(m.ack, e)
  BY DEF IInv, Direction, Acks, TypeOK, Instruction, Num
<1>2. /\ sent' = [sent EXCEPT ![e] = AckThrough(@, m.ack)]
      /\ UNCHANGED <<current, extra, shutdown, last_ack, net, published>>
      /\ received' = [received EXCEPT ![e] = received'[e]]
      /\ ack_num' = [ack_num EXCEPT ![e] = ack_num'[e]]
  BY <1>1 DEF Receive, Ignore, Quench, Accept, TypeOK
<1>3. /\ sent'[e] = AckThrough(sent[e], m.ack)
      /\ received'[Peer(e)] = received[Peer(e)] /\ ack_num'[Peer(e)] = ack_num[Peer(e)]
  BY <1>1, <1>2 DEF TypeOK
<1>4. sent'[e] \subseteq sent[e]
  BY <1>3 DEF AckThrough
<1>5. /\ \A s \in sent[e] : s.num \in Num /\ s.num \in Nat
      /\ sent[e] \subseteq published[e] /\ Functional(published[e])
  BY <1>1 DEF TypeOK, TimestampedState, Num, Queue
<1>6. PICK f \in sent'[e] : IsFront(f, sent'[e]) /\ f \in received[Peer(e)]
  <2>1. CASE m.ack \in Nums(sent[e])
    <3>1. PICK g \in sent[e] : g.num = m.ack
      BY <2>1 DEF Nums
    <3>2. sent'[e] = {s \in sent[e] : s.num >= m.ack}
      BY <2>1, <1>3 DEF AckThrough
    <3>3. g \in sent'[e] /\ IsFront(g, sent'[e])
      BY <3>1, <3>2, <1>1, <1>5 DEF IsFront
    <3>4. m.ack \in Nums(received[Peer(e)])
      BY <3>1, <1>1, <1>5 DEF AckSafe
    <3>5. PICK r \in received[Peer(e)] : r.num = m.ack
      BY <3>4 DEF Nums
    <3>6. r = g
      BY <3>1, <3>5, <1>1, <1>5 DEF Held, Functional
    <3> QED BY <3>3, <3>5, <3>6
  <2>2. CASE m.ack \notin Nums(sent[e])
    BY <2>2, <1>1, <1>3 DEF AckThrough, Queue, Held
  <2> QED BY <2>1, <2>2
<1>7. Queue(e)'
  <2>1. IsFiniteSet(sent'[e])
    BY <1>1, <1>4, FS_Subset DEF Queue
  <2>2. PICK b \in sent[e] : IsBack(b, published[e])
    BY <1>1 DEF Queue
  <2>3. b \in sent'[e]
    BY <2>2, <1>3, <1>5 DEF IsBack, AckThrough, Nums
  <2>4. ShutdownNum \in Nums(sent[e]) => ShutdownNum \in Nums(sent'[e])
    <3> SUFFICES ASSUME NEW s \in sent[e], s.num = ShutdownNum PROVE s \in sent'[e]
      BY DEF Nums
    <3>1. m.ack \in Nums(sent[e]) => m.ack <= ShutdownNum
      BY <1>5 DEF Nums, Num
    <3> QED BY <3>1, <1>1, <1>3, BoundAssumption DEF AckThrough
  <2> QED BY <2>1, <2>2, <2>3, <2>4, <1>1, <1>2, <1>4, <1>6 DEF Queue, IsBack
<1>8. Final(e)' /\ Carried(e)'
  BY <1>1, <1>2, <1>4 DEF Final, Carried
<1>9. Held(e)'
  <2>1. ASSUME NEW g \in sent'[e], IsFront(g, sent'[e]) PROVE g = f
    <3>1. g.num = f.num
      BY <2>1, <1>4, <1>5, <1>6 DEF IsFront
    <3> QED BY <3>1, <1>4, <1>5, <1>6 DEF Functional
  <2> QED BY <2>1, <1>1, <1>2, <1>3, <1>6 DEF Held
<1>10. Acks(e)'
  BY <1>1, <1>2, <1>3, <1>4 DEF Acks, AckSafe
<1>11. sent' \in [Endpoint -> SUBSET TimestampedState]
  BY <1>1, <1>2, <1>3, <1>4 DEF TypeOK
<1> QED BY <1>7, <1>8, <1>9, <1>10, <1>11 DEF Direction

(***************************************************************************)
(* And the queue of states received from the other end keeps the front the *)
(* sender relies on, the state it acknowledges, and everything a           *)
(* late acknowledgment may still name.                                     *)
(***************************************************************************)
LEMMA ThrowawayKeeps ==
    ASSUME IInv, NEW e \in Endpoint, NEW m \in net[Peer(e)],
           NEW kept, kept = ThrowawayUntil(received[e], m.throwaway)
    PROVE  /\ kept \subseteq received[e]
           /\ \A f \in sent[Peer(e)] : IsFront(f, sent[Peer(e)]) => f \in kept
           /\ \A r \in received[e] : IsBack(r, received[e]) => r \in kept
           /\ \A r \in received[e] \ kept : \A s \in sent[Peer(e)] : r.num < s.num
<1> DEFINE p == Peer(e)
<1>1. p \in Endpoint /\ Peer(p) = e
  BY PeerFacts
<1>2. /\ Queue(p) /\ Carried(p) /\ Held(p)
      /\ \A s \in sent[p] : s.num \in Nat
      /\ \A r \in received[e] : r.num \in Nat
      /\ m.throwaway \in Nat
  BY <1>1 DEF IInv, Direction, TypeOK, TimestampedState, Instruction, Num
<1>3. \A s \in sent[p] : m.throwaway <= s.num
  BY <1>2 DEF Carried
<1>4. kept = {r \in received[e] : r.num >= m.throwaway}
  BY DEF ThrowawayUntil
<1>5. \A f \in sent[p] : IsFront(f, sent[p]) => f \in kept
  BY <1>1, <1>2, <1>3, <1>4 DEF Held
<1>6. \A r \in received[e] : IsBack(r, received[e]) => r \in kept
  BY <1>2, <1>4, <1>5 DEF IsBack, Queue
<1>7. \A r \in received[e] \ kept : \A s \in sent[p] : r.num < s.num
  BY <1>2, <1>3, <1>4
<1> QED BY <1>4, <1>5, <1>6, <1>7

\* What Accept adds is the state the sender had under that number.
LEMMA RebuiltIsSent ==
    ASSUME IInv, NEW e \in Endpoint, NEW m \in net[Peer(e)], ~LacksReference(e, m),
           NEW s \in Rebuilt(ThrowawayUntil(received[e], m.throwaway), m)
    PROVE  s = m.to
<1> DEFINE p == Peer(e)
           kept == ThrowawayUntil(received[e], m.throwaway)
<1>1. p \in Endpoint /\ Peer(p) = e
  BY PeerFacts
<1>2. /\ [num |-> m.old, state |-> m.from] \in published[p]
      /\ m.throwaway <= m.old /\ m.old \in Nat /\ m.throwaway \in Nat
      /\ received[e] \subseteq published[p] /\ Functional(published[p])
  <2>1. Carried(p) /\ Held(p) /\ Queue(p) /\ m \in net[p]
    BY <1>1 DEF IInv, Direction
  <2>2. m \in Instruction
    BY <2>1, <1>1 DEF IInv, TypeOK
  <2>3. [num |-> m.old, state |-> m.from] \in published[p] /\ m.throwaway <= m.old
    BY <2>1 DEF Carried
  <2>4. m.old \in Nat /\ m.throwaway \in Nat
    BY <2>2 DEF Instruction, Num
  <2>5. received[e] \subseteq published[p] /\ Functional(published[p])
    BY <2>1, <1>1 DEF Held, Queue
  <2> QED BY <2>3, <2>4, <2>5
<1>3. PICK r0 \in received[e] : r0.num = m.old
  BY DEF LacksReference, Nums
<1>4. m.old \in Nums(kept)
  BY <1>2, <1>3 DEF ThrowawayUntil, Nums
<1>5. PICK r \in kept : r.num = m.old /\ s = Apply(r.state, m)
  BY <1>4 DEF Rebuilt
<1>6. r = [num |-> m.old, state |-> m.from]
  BY <1>2, <1>5 DEF Functional, ThrowawayUntil
<1> QED BY <1>5, <1>6 DEF Apply

LEMMA StoreKeeps ==
    ASSUME IInv, NEW e \in Endpoint, NEW m \in net[Peer(e)], Receive(e, m)
    PROVE  /\ Direction(Peer(e))'
           /\ received' \in [Endpoint -> SUBSET TimestampedState]
           /\ ack_num' \in [Endpoint -> Num]
<1> DEFINE p == Peer(e)
           kept == ThrowawayUntil(received[e], m.throwaway)
           new == [num |-> m.new, state |-> m.to]
<1>1. p \in Endpoint /\ Peer(p) = e /\ p # e
  BY PeerFacts
<1>2. /\ TypeOK
      /\ Queue(p) /\ Final(p) /\ Carried(p) /\ Held(p) /\ Acks(p)
      /\ new \in published[p] /\ new \in TimestampedState
      /\ new.num = m.new
  BY <1>1 DEF IInv, Direction, Carried, TypeOK, Instruction, TimestampedState
<1>3. /\ sent'[p] = sent[p]
      /\ UNCHANGED <<current, extra, shutdown, last_ack, net, published>>
  BY <1>1, <1>2 DEF Receive, TypeOK
<1>4. /\ kept \subseteq received[e]
      /\ \A f \in sent[p] : IsFront(f, sent[p]) => f \in kept
      /\ \A r \in received[e] : IsBack(r, received[e]) => r \in kept
      /\ \A r \in received[e] \ kept : \A s \in sent[p] : r.num < s.num
  BY ThrowawayKeeps
<1>5. PICK b \in received[e] : IsBack(b, received[e]) /\ b.num = ack_num[e]
  BY <1>1, <1>2 DEF Held
<1>6. /\ \A r \in received[e] : r.num \in Nat
      /\ new.num \in Nat /\ received[e] \subseteq published[p]
  BY <1>1, <1>2 DEF TypeOK, TimestampedState, Num, Held
<1> HIDE DEF kept, new
<1>7. \* the three outcomes
      \/ received'[e] = received[e] /\ ack_num'[e] = ack_num[e]
      \/ received'[e] = kept /\ ack_num'[e] = ack_num[e]
      \/ /\ received'[e] = kept \cup {new}
         /\ ack_num'[e] = IF \E r \in kept : r.num > new.num THEN ack_num[e] ELSE new.num
  <2>1. CASE Ignore(e, m)
    BY <2>1 DEF Ignore
  <2>2. CASE Quench(e, m)
    BY <2>2, <1>2 DEF Quench, TypeOK, kept
  <2>3. CASE Accept(e, m)
    <3>1. PICK s \in Rebuilt(kept, m) :
              received' = [received EXCEPT ![e] = kept \cup {[num |-> m.new, state |-> s]}]
      BY <2>3 DEF Accept, kept
    <3>2. s = m.to
      BY <2>3, <3>1, RebuiltIsSent DEF Accept, kept
    <3>3. ack_num' = [ack_num EXCEPT ![e] = IF \E r \in kept : r.num > m.new THEN @ ELSE m.new]
      BY <2>3 DEF Accept, AckNum, kept
    <3> QED BY <3>1, <3>2, <3>3, <1>2 DEF TypeOK, new
  <2> QED BY <2>1, <2>2, <2>3 DEF Receive
<1>8. b \in kept
  BY <1>4, <1>5
<1>9. /\ received'[e] \subseteq published[p]
      /\ kept \subseteq received'[e]
      /\ \A r \in received'[e] : r \in received[e] \/ r = new
  BY <1>2, <1>4, <1>6, <1>7
<1>10. \E r \in received'[e] : IsBack(r, received'[e]) /\ r.num = ack_num'[e]
  <2>1. CASE ack_num'[e] = ack_num[e] /\ (new \in received'[e] => new.num <= b.num)
    BY <2>1, <1>5, <1>6, <1>8, <1>9 DEF IsBack
  <2>2. CASE ack_num'[e] = new.num /\ received'[e] = kept \cup {new}
             /\ \A r \in kept : ~(r.num > new.num)
    BY <2>2, <1>4, <1>6 DEF IsBack
  <2>3. CASE received'[e] = kept \cup {new} /\ ack_num'[e] = ack_num[e]
             /\ \E r \in kept : r.num > new.num
    <3>1. new.num <= b.num
      BY <2>3, <1>4, <1>5, <1>6 DEF IsBack
    <3> QED BY <2>1, <2>3, <3>1
  <2>4. CASE received'[e] \subseteq received[e] /\ ack_num'[e] = ack_num[e]
    <3>1. new \in received'[e] => new.num <= b.num
      BY <2>4, <1>5 DEF IsBack
    <3> QED BY <2>1, <2>4, <3>1
  <2> QED BY <2>2, <2>3, <2>4, <1>4, <1>7
<1>11. Held(p)'
  BY <1>1, <1>3, <1>4, <1>9, <1>10 DEF Held
<1>12. Acks(p)'
  <2>1. ASSUME NEW a \in Nat, AckSafe(a, p) PROVE AckSafe(a, p)'
    <3>1. CASE \A s \in sent[p] : a < s.num
      BY <3>1, <1>3 DEF AckSafe
    <3>2. CASE a \in Nums(received[e])
      <4>1. PICK r \in received[e] : r.num = a
        BY <3>2 DEF Nums
      <4>2. CASE r \in kept
        BY <4>1, <4>2, <1>1, <1>9 DEF AckSafe, Nums
      <4>3. CASE r \notin kept
        BY <4>1, <4>3, <1>3, <1>4 DEF AckSafe
      <4> QED BY <4>2, <4>3
    <3> QED BY <3>1, <3>2, <2>1, <1>1 DEF AckSafe
  <2>2. last_ack[e] \in Nat /\ \A n \in net[e] : n.ack \in Nat
    BY <1>2 DEF TypeOK, Instruction, Num
  <2> QED BY <2>1, <2>2, <1>1, <1>2, <1>3 DEF Acks
<1>13. Queue(p)' /\ Final(p)' /\ Carried(p)'
  BY <1>2, <1>3 DEF Queue, Final, Carried
<1>14. received' \in [Endpoint -> SUBSET TimestampedState] /\ ack_num' \in [Endpoint -> Num]
  <2>1. received'[e] \subseteq TimestampedState
    BY <1>2, <1>9 DEF TypeOK
  <2>2. ack_num'[e] \in Num
    <3>1. PICK r \in received'[e] : r.num = ack_num'[e]
      BY <1>10
    <3> QED BY <3>1, <2>1 DEF TimestampedState
  <2>3. /\ received' = [received EXCEPT ![e] = received'[e]]
        /\ ack_num' = [ack_num EXCEPT ![e] = ack_num'[e]]
    BY <1>2 DEF Receive, Ignore, Quench, Accept, TypeOK
  <2> QED BY <2>1, <2>2, <2>3, <1>2 DEF TypeOK
<1> QED BY <1>11, <1>12, <1>13, <1>14 DEF Direction

LEMMA RecvKeeps == ASSUME IInv, NEW e \in Endpoint, Recv(e) PROVE IInv'
<1>1. PICK m \in net[Peer(e)] : Receive(e, m)
  BY DEF Recv
<1>2. /\ Direction(e)' /\ sent' \in [Endpoint -> SUBSET TimestampedState]
      /\ Direction(Peer(e))'
      /\ received' \in [Endpoint -> SUBSET TimestampedState]
      /\ ack_num' \in [Endpoint -> Num]
  BY <1>1, AckKeeps, StoreKeeps
<1>3. TypeOK'
  BY <1>1, <1>2 DEF Receive, TypeOK, IInv
<1> QED BY <1>2, <1>3, OtherIsPeer DEF IInv

-----------------------------------------------------------------------------
LEMMA InitHolds == Init => IInv
<1> SUFFICES ASSUME Init PROVE IInv
  OBVIOUS
<1> USE PeerFacts
<1>1. Blank \in TimestampedState /\ Blank.num = 0 /\ 0 \in Num
  BY StateAssumption, BoundAssumption DEF Blank, TimestampedState, Num
<1>2. TypeOK
  BY <1>1, StateAssumption, BoundAssumption DEF Init, TypeOK
<1>3. ASSUME NEW e \in Endpoint PROVE Direction(e)
  <2>1. /\ sent[e] = {Blank} /\ published[e] = {Blank} /\ net[e] = {} /\ net[Peer(e)] = {}
        /\ received[Peer(e)] = {Blank} /\ ack_num[Peer(e)] = 0 /\ last_ack[Peer(e)] = 0
        /\ extra[e] = 0 /\ shutdown[e] = FALSE
    BY DEF Init
  <2>2. IsFront(Blank, {Blank}) /\ IsBack(Blank, {Blank})
    BY <1>1 DEF IsFront, IsBack
  <2>3. Queue(e)
    BY <2>1, <2>2, FS_Singleton DEF Queue, Functional
  <2>4. ShutdownNum # 0
    BY BoundAssumption
  <2>5. Final(e)
    BY <2>1, <2>4, <1>1 DEF Final
  <2>6. Carried(e) /\ Held(e)
    BY <2>1, <2>2, <1>1 DEF Carried, Held
  <2>7. Acks(e)
    BY <2>1, <1>1 DEF Acks, AckSafe, Nums
  <2> QED BY <2>3, <2>5, <2>6, <2>7 DEF Direction
<1> QED BY <1>2, <1>3 DEF IInv

LEMMA NextKeeps == IInv /\ [Next]_vars => IInv'
<1> SUFFICES ASSUME IInv, [Next]_vars PROVE IInv'
  OBVIOUS
<1> USE PeerFacts
<1>1. ASSUME NEW e \in Endpoint, SetCurrentState(e) PROVE IInv'
  <2>1. /\ UNCHANGED <<sent, extra, ack_num, shutdown, last_ack, received, net, published>>
        /\ \A f \in Endpoint : f # e => current'[f] = current[f]
        /\ current' \in [Endpoint -> State]
        /\ ~shutdown[e]
    BY <1>1 DEF SetCurrentState, IInv, TypeOK
  <2>2. TypeOK'
    BY <2>1 DEF IInv, TypeOK
  <2>3. ASSUME NEW f \in Endpoint PROVE Direction(f)'
    <3>1. Final(f)'
      BY <2>1 DEF IInv, Direction, Final
    <3> QED BY <3>1, <2>1 DEF IInv, Direction, Queue, Carried, Held, Acks, AckSafe
  <2> QED BY <2>2, <2>3 DEF IInv
<1>2. ASSUME NEW e \in Endpoint, StartShutdown(e) PROVE IInv'
  <2>1. /\ UNCHANGED <<current, sent, extra, ack_num, last_ack, received, net, published>>
        /\ \A f \in Endpoint : shutdown[f] => shutdown'[f]
        /\ shutdown' \in [Endpoint -> BOOLEAN]
    BY <1>2 DEF StartShutdown, IInv, TypeOK
  <2>2. TypeOK'
    BY <2>1 DEF IInv, TypeOK
  <2>3. ASSUME NEW f \in Endpoint PROVE Direction(f)'
    <3>1. Final(f)'
      BY <2>1 DEF IInv, Direction, Final
    <3> QED BY <3>1, <2>1 DEF IInv, Direction, Queue, Carried, Held, Acks, AckSafe
  <2> QED BY <2>2, <2>3 DEF IInv
<1>3. ASSUME NEW e \in Endpoint, Tick(e) PROVE IInv'
  BY <1>3, TickKeeps
<1>4. ASSUME NEW e \in Endpoint, Recv(e) PROVE IInv'
  BY <1>4, RecvKeeps
<1>5. CASE UNCHANGED vars
  BY <1>5 DEF vars, IInv, TypeOK, Direction, Queue, Final, Carried, Held, Acks, AckSafe
<1> QED BY <1>1, <1>2, <1>3, <1>4, <1>5 DEF Next

LEMMA Invariance == Spec => []IInv
  BY InitHolds, NextKeeps, PTL DEF Spec

-----------------------------------------------------------------------------
(***************************************************************************)
(* The variables keep their types: no number runs past ShutdownNum, and    *)
(* the copies of the shutdown state stay counted.                          *)
(***************************************************************************)
THEOREM TypeCorrect == Spec => []TypeOK
  BY Invariance, PTL DEF IInv

(***************************************************************************)
(* For any queue limits, the first of sent_states is a state the other end *)
(* holds: rationalize_states and every retransmission may rely on it.      *)
(***************************************************************************)
THEOREM KnownState == Spec => []KnownStateIsHeld
<1>1. IInv => KnownStateIsHeld
  BY DEF IInv, Direction, Held, KnownStateIsHeld
<1> QED BY <1>1, Invariance, PTL

(***************************************************************************)
(* recv never rebuilds a state its sender did not publish.                 *)
(***************************************************************************)
THEOREM Integrity == Spec => []ReceivedIsPublished
<1>1. IInv => ReceivedIsPublished
  <2> SUFFICES ASSUME IInv, NEW e \in Endpoint, NEW r \in received[e]
               PROVE  /\ r \in published[Peer(e)]
                      /\ \A s \in published[Peer(e)] : s.num = r.num => s = r
    BY DEF ReceivedIsPublished
  <2>1. Held(Peer(e)) /\ Queue(Peer(e)) /\ Peer(Peer(e)) = e
    BY PeerFacts DEF IInv, Direction
  <2> QED BY <2>1 DEF Held, Queue, Functional
<1> QED BY <1>1, Invariance, PTL

(***************************************************************************)
(* process_throwaway_until, called by recv between the lookup of           *)
(* reference_state and its use, never erases that state.                   *)
(***************************************************************************)
THEOREM ReferenceIsValid == Spec => []ReferenceSurvivesThrowaway
<1>1. IInv => ReferenceSurvivesThrowaway
  <2> SUFFICES ASSUME IInv, NEW e \in Endpoint, NEW m \in net[Peer(e)], ~LacksReference(e, m)
               PROVE  m.old \in Nums(ThrowawayUntil(received[e], m.throwaway))
    BY DEF ReferenceSurvivesThrowaway
  <2>1. Carried(Peer(e)) /\ m \in Instruction
    BY PeerFacts DEF IInv, Direction, TypeOK
  <2>2. PICK r \in received[e] : r.num = m.old
    BY DEF LacksReference, Nums
  <2>3. r.num >= m.throwaway
    BY <2>1, <2>2 DEF Carried, Instruction, Num
  <2> QED BY <2>2, <2>3 DEF ThrowawayUntil, Nums
<1> QED BY <1>1, Invariance, PTL

(***************************************************************************)
(* An endpoint acknowledges the newest state it holds.                     *)
(***************************************************************************)
THEOREM AcksNewest == Spec => []AckedIsLatest
<1>1. IInv => AckedIsLatest
  <2> SUFFICES ASSUME IInv, NEW e \in Endpoint
               PROVE  \E r \in received[e] : IsBack(r, received[e]) /\ r.num = ack_num[e]
    BY DEF AckedIsLatest
  <2>1. Held(Peer(e)) /\ Peer(Peer(e)) = e
    BY PeerFacts DEF IInv, Direction
  <2> QED BY <2>1 DEF Held
<1> QED BY <1>1, Invariance, PTL

(***************************************************************************)
(* The assertion of make_fragments never fails.                            *)
(***************************************************************************)
THEOREM DiffIsDetermined == Spec => []SameNumsSameDiff
<1>1. IInv => SameNumsSameDiff
  <2> SUFFICES ASSUME IInv, NEW e \in Endpoint, NEW m \in net[e], NEW n \in net[e],
                      m.old = n.old, m.new = n.new
               PROVE  m.from = n.from /\ m.to = n.to
    BY DEF SameNumsSameDiff
  <2>1. Carried(e) /\ Functional(published[e])
    BY DEF IInv, Direction, Queue
  <2>2. /\ [num |-> m.old, state |-> m.from] = [num |-> n.old, state |-> n.from]
        /\ [num |-> m.new, state |-> m.to] = [num |-> n.new, state |-> n.to]
    BY <2>1 DEF Carried, Functional
  <2> QED BY <2>2
<1> QED BY <1>1, Invariance, PTL

(***************************************************************************)
(* A clean shutdown loses nothing.                                         *)
(***************************************************************************)
THEOREM CleanShutdown == Spec => []CleanShutdownIsComplete
<1>1. IInv => CleanShutdownIsComplete
  <2> SUFFICES ASSUME IInv, NEW e \in Endpoint, NEW final,
                      final = [num |-> ShutdownNum, state |-> current[e]]
               PROVE  /\ ShutdownAcknowledged(e) => shutdown[e] /\ final \in received[Peer(e)]
                      /\ CounterpartyShutdownAckSent(Peer(e)) =>
                            shutdown[e] /\ final \in received[Peer(e)]
    BY DEF CleanShutdownIsComplete
  <2>1. /\ Queue(e) /\ Final(e) /\ Held(e) /\ Acks(e)
        /\ \A s \in received[Peer(e)] : s = [num |-> s.num, state |-> s.state]
        /\ \A s \in sent[e] : s.num \in Num
    BY PeerFacts DEF IInv, Direction, TypeOK, TimestampedState
  <2>2. ASSUME NEW r \in received[Peer(e)], r.num = ShutdownNum
        PROVE  shutdown[e] /\ final \in received[Peer(e)]
    BY <2>1, <2>2 DEF Held, Final
  <2>3. ASSUME ShutdownAcknowledged(e) PROVE \E r \in received[Peer(e)] : r.num = ShutdownNum
    BY <2>1, <2>3 DEF ShutdownAcknowledged, Held
  <2>4. ASSUME CounterpartyShutdownAckSent(Peer(e))
        PROVE  \E r \in received[Peer(e)] : r.num = ShutdownNum
    <3>1. AckSafe(ShutdownNum, e)
      BY <2>1, <2>4 DEF Acks, CounterpartyShutdownAckSent
    <3>2. ~(\A s \in sent[e] : ShutdownNum < s.num)
      BY <2>1, BoundAssumption DEF Queue, Num
    <3> QED BY <3>1, <3>2 DEF AckSafe, Nums
  <2> QED BY <2>2, <2>3, <2>4
<1> QED BY <1>1, Invariance, PTL

-----------------------------------------------------------------------------
\* The latest remote state is the one record the CHOOSE can mean.
LEMMA LatestIsBack ==
    ASSUME IInv, NEW e \in Endpoint
    PROVE  /\ LatestRemoteState(e) \in received[e]
           /\ LatestRemoteState(e).num = ack_num[e]
           /\ \A r \in received[e] : r.num = ack_num[e] => r = LatestRemoteState(e)
<1>1. Held(Peer(e)) /\ Queue(Peer(e)) /\ Peer(Peer(e)) = e
  BY PeerFacts DEF IInv, Direction
<1>2. \E r \in received[e] : IsBack(r, received[e]) /\ r.num = ack_num[e]
  BY <1>1 DEF Held
<1>3. LatestRemoteState(e) \in received[e] /\ IsBack(LatestRemoteState(e), received[e])
  BY <1>2 DEF LatestRemoteState
<1>4. \A r \in received[e] : r.num \in Nat
  BY DEF IInv, TypeOK, TimestampedState, Num
<1>5. LatestRemoteState(e).num = ack_num[e]
  BY <1>2, <1>3, <1>4 DEF IsBack
<1> QED BY <1>1, <1>3, <1>5 DEF Held, Queue, Functional

LEMMA StepMovesForward ==
    ASSUME IInv, [Next]_vars, NEW e \in Endpoint
    PROVE  /\ ack_num[e] <= ack_num'[e]
           /\ \A r \in received'[e] :
                 IsBack(r, received'[e]) => \A s \in received[e] : s.num <= r.num
<1>1. /\ \A r \in received[e] : r.num \in Nat
      /\ ack_num[e] \in Nat
      /\ \A r \in received[e] : r.num <= ack_num[e]
      /\ \E r \in received[e] : IsBack(r, received[e]) /\ r.num = ack_num[e]
  <2>1. Held(Peer(e)) /\ Peer(Peer(e)) = e
    BY PeerFacts DEF IInv, Direction
  <2>2. (\A r \in received[e] : r.num \in Nat) /\ ack_num[e] \in Nat
    BY DEF IInv, TypeOK, TimestampedState, Num
  <2> QED BY <2>1, <2>2 DEF Held, IsBack
<1>2. CASE received'[e] = received[e] /\ ack_num'[e] = ack_num[e]
  BY <1>1, <1>2 DEF IsBack
<1>3. ASSUME NEW m \in net[Peer(e)], Receive(e, m)
      PROVE  /\ ack_num[e] <= ack_num'[e]
             /\ \A r \in received'[e] :
                   IsBack(r, received'[e]) => \A s \in received[e] : s.num <= r.num
  <2> DEFINE kept == ThrowawayUntil(received[e], m.throwaway)
  <2>1. PICK b \in received[e] : IsBack(b, received[e]) /\ b.num = ack_num[e]
    BY <1>1
  <2>2. b \in kept
    BY <2>1, ThrowawayKeeps
  <2>3. kept \subseteq received'[e] \/ received'[e] = received[e]
    BY <1>3 DEF Receive, Ignore, Quench, Accept, IInv, TypeOK
  <2>4. b \in received'[e]
    BY <2>1, <2>2, <2>3
  <2>5. ack_num[e] <= ack_num'[e]
    <3>1. PICK r \in received'[e] : IsBack(r, received'[e]) /\ r.num = ack_num'[e]
      <4>1. Held(Peer(e))'
        BY <1>3, StoreKeeps DEF Direction
      <4> QED BY <4>1, PeerFacts DEF Held
    <3> QED BY <3>1, <2>1, <2>4 DEF IsBack
  <2>6. ASSUME NEW r \in received'[e], IsBack(r, received'[e]), NEW s \in received[e]
        PROVE  s.num <= r.num
    <3>1. b.num <= r.num /\ s.num <= b.num
      BY <2>1, <2>4, <2>6 DEF IsBack
    <3>2. r.num \in Nat
      BY <1>3, StoreKeeps DEF TimestampedState, Num
    <3> QED BY <3>1, <3>2, <2>1, <1>1
  <2> QED BY <2>5, <2>6
<1>4. (\E m \in net[Peer(e)] : Receive(e, m)) \/ (received'[e] = received[e] /\ ack_num'[e] = ack_num[e])
  <2>1. ASSUME NEW f \in Endpoint, f # e, Recv(f)
        PROVE  received'[e] = received[e] /\ ack_num'[e] = ack_num[e]
    BY <2>1 DEF Recv, Receive, Ignore, Quench, Accept, IInv, TypeOK
  <2>2. ASSUME NEW f \in Endpoint, SetCurrentState(f) \/ StartShutdown(f) \/ Tick(f)
        PROVE  received'[e] = received[e] /\ ack_num'[e] = ack_num[e]
    <3>1. CASE Tick(f)
      BY <3>1, TickPushes DEF SendInFragments
    <3> QED BY <3>1, <2>2 DEF SetCurrentState, StartShutdown
  <2> QED BY <2>1, <2>2 DEF Next, Recv, vars
<1> QED BY <1>2, <1>3, <1>4

(***************************************************************************)
(* No step, whatever arrives in whatever order, takes the newest state an  *)
(* endpoint shows, or the number it acknowledges, backwards.               *)
(***************************************************************************)
THEOREM Monotone == Spec => ViewNeverRegresses
<1>1. IInv /\ [Next]_vars =>
          [ViewMovesForward /\ \A e \in Endpoint : ack_num[e] <= ack_num'[e]]_vars
  BY StepMovesForward DEF ViewMovesForward
<1> QED BY <1>1, Invariance, PTL DEF Spec, ViewNeverRegresses

(***************************************************************************)
(* What a step does to the direction from e: a tick of e may publish one   *)
(* snapshot above all others, a recv of the other end may advance its view *)
(* to a snapshot already published.                                        *)
(***************************************************************************)
DirectionStep(e) ==
    \/ /\ \E s \in [num : Num, state : State] :
             /\ \A t \in published[e] : t.num < s.num
             /\ published'[e] = published[e] \cup {s}
       /\ LatestRemoteState(Peer(e))' = LatestRemoteState(Peer(e))
    \/ /\ published'[e] = published[e]
       /\ \E s \in published[e] :
             s.num > LatestRemoteState(Peer(e)).num /\ LatestRemoteState(Peer(e))' = s
    \/ /\ published'[e] = published[e]
       /\ LatestRemoteState(Peer(e))' = LatestRemoteState(Peer(e))

LEMMA StepMaps == ASSUME IInv, [Next]_vars, NEW e \in Endpoint PROVE DirectionStep(e)
<1> DEFINE p == Peer(e)
<1>1. p \in Endpoint /\ p # e
  BY PeerFacts
<1>2. IInv'
  BY NextKeeps
<1>3. ASSUME received'[p] = received[p]
      PROVE  LatestRemoteState(p)' = LatestRemoteState(p)
  BY <1>3 DEF LatestRemoteState
<1>4. ASSUME Tick(e) PROVE DirectionStep(e)
  <2>1. PICK s : \E back \in sent[e] :
                   Current(e, s) /\ Pushed(e, back, s) /\ UNCHANGED received
    BY <1>4, TickPushes DEF SendInFragments
  <2>2. /\ published'[e] = published[e] \cup {s}
        /\ \A t \in published[e] : t.num < s.num \/ t = s
    BY <2>1 DEF Pushed, IInv, TypeOK
  <2>3. s \in [num : Num, state : State]
    BY <2>1 DEF Current, IInv, TypeOK
  <2>4. LatestRemoteState(p)' = LatestRemoteState(p)
    BY <2>1, <1>3
  <2>5. CASE s \in published[e]
    BY <2>2, <2>4, <2>5 DEF DirectionStep
  <2>6. CASE s \notin published[e]
    BY <2>2, <2>3, <2>4, <2>6 DEF DirectionStep
  <2> QED BY <2>5, <2>6
<1>5. ASSUME Recv(p) PROVE DirectionStep(e)
  <2>1. published' = published
    BY <1>5 DEF Recv, Receive
  <2>2. /\ LatestRemoteState(p)' \in received'[p]
        /\ LatestRemoteState(p)'.num = ack_num'[p]
        /\ LatestRemoteState(p).num = ack_num[p]
        /\ LatestRemoteState(p) \in received[p]
    <3>1. LatestRemoteState(p) \in received[p] /\ LatestRemoteState(p).num = ack_num[p]
      BY <1>1, LatestIsBack
    <3>2. PICK r \in received'[p] : IsBack(r, received'[p]) /\ r.num = ack_num'[p]
      BY <1>2 DEF IInv, Direction, Held
    <3>3. LatestRemoteState(p)' \in received'[p] /\ IsBack(LatestRemoteState(p)', received'[p])
      BY <3>2 DEF LatestRemoteState
    <3>4. \A q \in received'[p] : q.num \in Nat
      BY <1>1, <1>2 DEF IInv, TypeOK, TimestampedState, Num
    <3>5. LatestRemoteState(p)'.num = ack_num'[p]
      BY <3>2, <3>3, <3>4 DEF IsBack
    <3> QED BY <3>1, <3>3, <3>5
  <2>3. ack_num[p] <= ack_num'[p] /\ ack_num[p] \in Nat /\ ack_num'[p] \in Nat
    BY <1>1, <1>2, StepMovesForward DEF IInv, TypeOK, Num
  <2>4. /\ received'[p] \subseteq published[e] /\ received[p] \subseteq published[e]
        /\ Functional(published[e])
    BY <1>2, <2>1 DEF IInv, Direction, Held, Queue
  <2>5. CASE ack_num[p] = ack_num'[p]
    BY <2>1, <2>2, <2>4, <2>5 DEF DirectionStep, Functional
  <2>6. CASE ack_num[p] < ack_num'[p]
    BY <2>1, <2>2, <2>3, <2>4, <2>6 DEF DirectionStep
  <2> QED BY <2>3, <2>5, <2>6
<1>6. ASSUME Recv(e) \/ Tick(p) PROVE DirectionStep(e)
  <2>1. published'[e] = published[e] /\ received'[p] = received[p]
    <3>1. CASE Recv(e)
      BY <3>1, <1>1 DEF Recv, Receive, Ignore, Quench, Accept, IInv, TypeOK
    <3>2. CASE Tick(p)
      BY <3>2, <1>1, TickPushes DEF SendInFragments, Pushed, IInv, TypeOK
    <3> QED BY <3>1, <3>2, <1>6
  <2> QED BY <2>1, <1>3 DEF DirectionStep
<1>7. ASSUME UNCHANGED <<published, received>> PROVE DirectionStep(e)
  BY <1>7, <1>3 DEF DirectionStep
<1>8. (\E f \in Endpoint : Tick(f) \/ Recv(f)) \/ UNCHANGED <<published, received>>
  BY DEF Next, SetCurrentState, StartShutdown, vars
<1> QED BY <1>4, <1>5, <1>6, <1>7, <1>8, OtherIsPeer

LEMMA InitMaps ==
    ASSUME Init, NEW e \in Endpoint
    PROVE  /\ published[e] = {[num |-> 0, state |-> InitState]}
           /\ LatestRemoteState(Peer(e)) = [num |-> 0, state |-> InitState]
<1>1. published[e] = {Blank} /\ received[Peer(e)] = {Blank}
  BY PeerFacts DEF Init
<1>2. IInv
  BY InitHolds
<1>3. LatestRemoteState(Peer(e)) \in received[Peer(e)]
  BY <1>2, PeerFacts, LatestIsBack
<1> QED BY <1>1, <1>3 DEF Blank

(***************************************************************************)
(* Each direction of the protocol implements StateSync: whatever is lost,  *)
(* repeated or reordered, the other end sees snapshots the sender          *)
(* published, in the order it published them.                              *)
(***************************************************************************)
THEOREM ClientImplementsStateSync == Spec => ClientToServer
<1> Client \in Endpoint /\ Peer(Client) = Server
  BY DEF Endpoint, Peer
<1>1. Init => ClientSync!Init
  BY InitMaps DEF ClientSync!Init
<1>2. IInv /\ [Next]_vars => [ClientSync!Next]_(ClientSync!vars)
  BY StepMaps DEF DirectionStep, ClientSync!Next, ClientSync!Publish, ClientSync!Advance,
     ClientSync!vars, ClientSync!Snapshot, Num
<1> QED BY <1>1, <1>2, Invariance, PTL DEF Spec, ClientToServer, ClientSync!Spec

(***************************************************************************)
(* The same from the server to the client: the user never sees a screen    *)
(* the server did not have, nor an earlier one than before.                *)
(***************************************************************************)
THEOREM ServerImplementsStateSync == Spec => ServerToClient
<1> Server \in Endpoint /\ Peer(Server) = Client
  BY EndsDiffer DEF Endpoint, Peer
<1>1. Init => ServerSync!Init
  BY InitMaps DEF ServerSync!Init
<1>2. IInv /\ [Next]_vars => [ServerSync!Next]_(ServerSync!vars)
  BY StepMaps DEF DirectionStep, ServerSync!Next, ServerSync!Publish, ServerSync!Advance,
     ServerSync!vars, ServerSync!Snapshot, Num
<1> QED BY <1>1, <1>2, Invariance, PTL DEF Spec, ServerToClient, ServerSync!Spec
=============================================================================
