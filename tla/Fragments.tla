----------------------------- MODULE Fragments -----------------------------
(***************************************************************************)
(* network/transportfragment.cc: a Fragmenter cuts every instruction into  *)
(* fragments that fit a datagram, a FragmentAssembly at the other end puts *)
(* one instruction at a time together again.                               *)
(*                                                                         *)
(* Abstractions.                                                           *)
(*  - An instruction stands for the fields make_fragments compares, its    *)
(*    numbers and its chaff: the diff is a function of the numbers, which  *)
(*    Transport proves (SameNumsSameDiff) and make_fragments asserts.      *)
(*  - Its serialised and compressed form has Length bytes.  A fragment's   *)
(*    contents are an interval of them.  A concatenation of intervals that *)
(*    is the whole of one instruction parses to it; any other may fail to  *)
(*    parse, or parse to something else.                                   *)
(*  - The network loses, repeats and reorders fragments.  Connection       *)
(*    passes on what is old or repeated as well as what is new.            *)
(***************************************************************************)
EXTENDS Integers, FiniteSets, Sequences

CONSTANTS
    Instruction,
    NoInstruction,   \* last_instruction at first: its numbers are uint64_t( -1 )
    Length,          \* bytes to be sent for each instruction
    PathMTU,         \* the sizes left for a fragment's contents
    FragmentLimit,   \* 0x8000: fragment_num has 15 bits
    MaxId            \* bound: the last next_instruction_id

ASSUME FragmentAssumption ==
    /\ NoInstruction \notin Instruction
    /\ Length \in [Instruction -> Nat \ {0}]
    /\ PathMTU \subseteq Nat \ {0}
    /\ FragmentLimit \in Nat \ {0} /\ MaxId \in Nat

VARIABLES
    next_instruction_id, last_instruction, last_MTU,    \* Fragmenter
    MTU,                 \* what get_MTU() leaves for the contents
    net,                 \* the fragments sent
    fragments, current_id, fragments_arrived, fragments_total,   \* FragmentAssembly
    sender_dead,         \* the sender's fatal_assert failed
    receiver_dead,       \* an assertion of the receiver failed
    sent, delivered      \* history: the instructions sent, and assembled

fragmenter == <<next_instruction_id, last_instruction, last_MTU>>
assembly == <<fragments, current_id, fragments_arrived, fragments_total>>
vars == <<fragmenter, MTU, net, assembly, sender_dead, receiver_dead, sent, delivered>>

Fragment ==
    [id : 1 .. MaxId, fragment_num : 0 .. FragmentLimit - 1, final : BOOLEAN,
     of : Instruction, first : Nat, last : Nat]

\* A Fragment that is not initialized.
Missing == [id |-> 0, fragment_num |-> 0, final |-> FALSE,
            of |-> NoInstruction, first |-> 0, last |-> 0]

Unknown == -1

Init ==
    /\ next_instruction_id = 0 /\ last_instruction = NoInstruction /\ last_MTU = 0
    /\ MTU \in PathMTU
    /\ net = {}
    /\ fragments = <<>> /\ current_id = 0
    /\ fragments_arrived = 0 /\ fragments_total = Unknown
    /\ sender_dead = FALSE /\ receiver_dead = FALSE
    /\ sent = {} /\ delivered = {}

(***************************************************************************)
(* make_fragments, and tostring of each fragment in turn.                  *)
(***************************************************************************)
\* mutant: last_MTU is not compared
InstructionIdAnyMTU(inst) ==
    IF inst = last_instruction THEN next_instruction_id ELSE next_instruction_id + 1

\* What is sent again as it was keeps its id.
InstructionId(inst) ==
    IF inst = last_instruction /\ MTU = last_MTU
    THEN next_instruction_id ELSE next_instruction_id + 1

\* How many fragments inst is cut into, and one of them.
Count(inst, mtu) == (Length[inst] + mtu - 1) \div mtu

Slice(id, inst, mtu, num) ==
    [id |-> id, fragment_num |-> num, final |-> num + 1 = Count(inst, mtu), of |-> inst,
     first |-> num * mtu + 1,
     last |-> IF num + 1 = Count(inst, mtu) THEN Length[inst] ELSE (num + 1) * mtu]

Send ==
    \E inst \in Instruction :
        LET id == InstructionId(inst) IN
        /\ ~sender_dead
        /\ id <= MaxId
        /\ next_instruction_id' = id
        /\ last_instruction' = inst /\ last_MTU' = MTU
        /\ net' = net \cup {Slice(id, inst, MTU, num) :
                              num \in {n \in 0 .. FragmentLimit - 1 : n < Count(inst, MTU)}}
        /\ sender_dead' = (Count(inst, MTU) > FragmentLimit)
        /\ sent' = sent \cup {inst}
        /\ UNCHANGED <<MTU, assembly, receiver_dead, delivered>>

\* sendto() failed with EMSGSIZE, or the address family changed.
ChangeMTU ==
    /\ MTU' \in PathMTU \ {MTU}
    /\ UNCHANGED <<fragmenter, net, assembly, sender_dead, receiver_dead, sent, delivered>>

(***************************************************************************)
(* add_fragment.                                                           *)
(***************************************************************************)
Resize(q, n) == [i \in 1 .. n |-> IF i <= Len(q) THEN q[i] ELSE Missing]

Have(f) ==
    /\ Len(fragments) > f.fragment_num
    /\ fragments[f.fragment_num + 1] # Missing

Put(q, f) ==
    LET n == f.fragment_num + 1 IN
    [Resize(q, IF Len(q) < n THEN n ELSE Len(q)) EXCEPT ![n] = f]

\* A fragment of another instruction drops what was collected of this one.
Added(f) ==
    IF current_id # f.id
    THEN [fragments |-> Put(<<>>, f), arrived |-> 1, total |-> Unknown]
    ELSE IF Have(f)
    THEN [fragments |-> fragments, arrived |-> fragments_arrived, total |-> fragments_total]
    ELSE [fragments |-> Put(fragments, f), arrived |-> fragments_arrived + 1,
          total |-> fragments_total]

\* mutant: the total is only learnt from a first fragment
FinishedFirst(f) ==
    IF f.final /\ Added(f).arrived = 1
    THEN [fragments |-> Resize(Added(f).fragments, f.fragment_num + 1),
          arrived |-> Added(f).arrived, total |-> f.fragment_num + 1]
    ELSE Added(f)
Finished(f) ==
    IF f.final
    THEN [fragments |-> Resize(Added(f).fragments, f.fragment_num + 1),
          arrived |-> Added(f).arrived, total |-> f.fragment_num + 1]
    ELSE Added(f)

AssertionsHold(f) ==
    /\ current_id = f.id /\ Have(f) => fragments[f.fragment_num + 1] = f
    /\ f.final => Len(Added(f).fragments) <= f.fragment_num + 1
    /\ Finished(f).total # Unknown => Finished(f).arrived <= Finished(f).total

Complete(f) == Finished(f).arrived = Finished(f).total

(***************************************************************************)
(* get_assembly: the contents, put together, are those of one instruction. *)
(* Pieces that do not belong together fail the fatal_assert of             *)
(* ParseFromString, or parse to what nobody sent.                          *)
(***************************************************************************)
Parses(q, inst) ==
    /\ \A i \in DOMAIN q : q[i] # Missing /\ q[i].of = inst
    /\ q[1].first = 1 /\ q[Len(q)].last = Length[inst]
    /\ \A i \in 1 .. Len(q) - 1 : q[i + 1].first = q[i].last + 1

Parsed(q) ==
    LET whole == {inst \in Instruction : Parses(q, inst)}
    IN  IF whole = {} THEN {NoInstruction} ELSE whole

Collect(f) ==
    /\ ~Complete(f)
    /\ receiver_dead' = ~AssertionsHold(f)
    /\ fragments' = Finished(f).fragments
    /\ fragments_arrived' = Finished(f).arrived
    /\ fragments_total' = Finished(f).total
    /\ current_id' = f.id
    /\ UNCHANGED delivered

Assemble(f) ==
    /\ Complete(f)
    /\ \E inst \in Parsed(Finished(f).fragments) :
          /\ delivered' = delivered \cup {inst}
          /\ receiver_dead' = (~AssertionsHold(f) \/ inst = NoInstruction)
    /\ fragments' = <<>> /\ fragments_arrived' = 0 /\ fragments_total' = Unknown
    /\ current_id' = f.id

AddFragment ==
    /\ ~receiver_dead
    /\ \E f \in net : Collect(f) \/ Assemble(f)
    /\ UNCHANGED <<fragmenter, MTU, net, sender_dead, sent>>

Next == Send \/ ChangeMTU \/ AddFragment

Spec == Init /\ [][Next]_vars

-----------------------------------------------------------------------------
(***************************************************************************)
(* The assertions of add_fragment and get_assembly hold whatever fragments *)
(* are repeated, lost and reordered, and whatever the sender sends again,  *)
(* whole or cut for another MTU, under an id it used before.               *)
(***************************************************************************)
NoAbort == ~receiver_dead

(***************************************************************************)
(* An instruction all of whose fragments arrived with none of another in   *)
(* between, in any order, was assembled by a receiver that lives: none is  *)
(* held back (unless it was too long and its final fragment was never      *)
(* sent).                                                                  *)
(***************************************************************************)
NothingHeldBack ==
    /\ NoAbort
    /\ (\E i \in DOMAIN fragments : fragments[i] # Missing)
       /\ (\E f \in net : f.id = current_id /\ f.final)
       => \E f \in net : f.id = current_id /\ \A i \in DOMAIN fragments : fragments[i] # f

(***************************************************************************)
(* Fragmentation implements the channel Transport relies on: what is       *)
(* assembled is an instruction that was sent, never parts of two.          *)
(***************************************************************************)
Channel == INSTANCE InstructionChannel
ImplementsChannel == Channel!Spec
=============================================================================
