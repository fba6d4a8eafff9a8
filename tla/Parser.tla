------------------------------- MODULE Parser -------------------------------
(***************************************************************************)
(* From the bytes a host writes to the functions of the emulator:          *)
(* util/mbrtowc_utf8.cc and terminal/parser.cc decode UTF-8, the states of *)
(* terminal/parserstate.cc take the characters, and the Dispatcher of      *)
(* terminal/terminaldispatcher.cc collects what a sequence is made of.     *)
(*                                                                         *)
(* Bytes and characters are their numbers.  ReadByte is                    *)
(* UTF8Parser::input, which may decode no, one or two characters; they     *)
(* wait in pending for ReadChar, which is Parser::input followed by the    *)
(* actions' act_on_terminal.  What the emulator is then asked to do is     *)
(* call.  A transition to the same state (NULL in the code) runs neither   *)
(* the exit nor the enter action; Hook, Put and Unhook do nothing.         *)
(***************************************************************************)
EXTENDS Integers, Sequences

CONSTANTS
    Bytes,        \* the bytes that may arrive
    ParamLimit,   \* 100: characters of parameters that are kept
    CharLimit,    \* 8: intermediate and final characters that are kept
    TextLimit,    \* 16 * 1024: characters of an OSC that are kept
    MaxBytes      \* bound: bytes read

ASSUME BytesAssumption == Bytes \subseteq 0 .. 255
ASSUME LimitsAssumption ==
    CharLimit # 0 /\ \A limit \in {ParamLimit, CharLimit, TextLimit, MaxBytes} : limit \in Nat

VARIABLES
    buf,              \* the bytes of an unfinished character
    pending,          \* characters decoded, not yet parsed
    state,
    params, dispatch_chars, OSC_string,
    call,             \* what the last character made the emulator do
    kind, since,      \* history: the last introducer, and the characters after it
    read              \* the number of bytes read
vars == <<buf, pending, state, params, dispatch_chars, OSC_string, call, kind, since, read>>

-----------------------------------------------------------------------------
(* UTF-8 *)
LastChar == 65535      \* a wchar_t has 16 bits
Replacement == 65533   \* U+FFFD
Surrogates == 55296 .. 57343

\* How many bytes follow the first one; more than 2 is an error, as is a byte that cannot be first.
TrailingByteCount(b) ==
    IF b < 128 THEN 0 ELSE IF b \in 192 .. 223 THEN 1 ELSE IF b \in 224 .. 239 THEN 2 ELSE 3
IsTrailing(b) == b \in 128 .. 191

\* The character that a complete sequence of 1, 2 or 3 bytes stands for.
CodePoint(s) ==
    CASE Len(s) = 1 -> s[1]
      [] Len(s) = 2 -> (s[1] % 32) * 64 + (s[2] % 64)
      [] Len(s) = 3 -> (s[1] % 16) * 4096 + (s[2] % 64) * 64 + (s[3] % 64)

\* mbrtowc_utf8: "invalid" is -1, "partial" is -2.  Overlong forms are accepted.
mbrtowc_utf8(s) ==
    LET n == TrailingByteCount(s[1]) IN
    IF n > 2 \/ \E i \in 2 .. Len(s) : ~IsTrailing(s[i]) THEN "invalid"
    ELSE IF Len(s) <= n THEN "partial"
    ELSE IF Len(s) > 1 /\ CodePoint(s) \in Surrogates THEN "invalid" ELSE "character"

\* What a byte with nothing before it leaves in the buffer, and decodes to.
First(b) ==
    CASE mbrtowc_utf8(<<b>>) = "partial" -> [buf |-> <<b>>, chars |-> <<>>]
      [] mbrtowc_utf8(<<b>>) = "invalid" -> [buf |-> <<>>, chars |-> <<Replacement>>]
      [] OTHER -> [buf |-> <<>>, chars |-> <<b>>]

\* Mutant: the byte that made the sequence invalid goes with it.
DecodedWithoutRetry(s, b) ==
    LET all == Append(s, b) IN
    CASE s = <<>> -> First(b)
      [] s # <<>> /\ mbrtowc_utf8(all) = "partial" -> [buf |-> all, chars |-> <<>>]
      [] s # <<>> /\ mbrtowc_utf8(all) = "invalid" -> [buf |-> <<>>, chars |-> <<Replacement>>]
      [] s # <<>> /\ mbrtowc_utf8(all) = "character" -> [buf |-> <<>>, chars |-> <<CodePoint(all)>>]

\* An invalid sequence is replaced, and its last byte tried again.
Decoded(s, b) ==
    LET all == Append(s, b) IN
    CASE s = <<>> -> First(b)
      [] s # <<>> /\ mbrtowc_utf8(all) = "partial" -> [buf |-> all, chars |-> <<>>]
      [] s # <<>> /\ mbrtowc_utf8(all) = "invalid" ->
            [buf |-> First(b).buf, chars |-> <<Replacement>> \o First(b).chars]
      [] s # <<>> /\ mbrtowc_utf8(all) = "character" -> [buf |-> <<>>, chars |-> <<CodePoint(all)>>]

-----------------------------------------------------------------------------
(* The states: what a character does, and where it leads ("" is nowhere) *)
States == {"Ground", "Escape", "Escape_Intermediate",
           "CSI_Entry", "CSI_Param", "CSI_Intermediate", "CSI_Ignore",
           "DCS_Entry", "DCS_Param", "DCS_Intermediate", "DCS_Passthrough", "DCS_Ignore",
           "OSC_String", "SOS_PM_APC_String"}

To(action, next) == [action |-> action, next |-> next]
Stay(action) == To(action, "")
Ignore == Stay("Ignore")

C0_prime(ch) == ch \in (0 .. 31) \ {24, 26, 27}
Intermediate == 32 .. 47
Digits == 48 .. 57
ParamChars == Digits \union {59}
Private == 60 .. 63
Final == 64 .. 126

\* State::anywhere_rule: these characters cut off whatever sequence there was.
IsAnywhere(ch) == ch \in {24, 26, 27} \union (128 .. 159)
anywhere_rule(ch) ==
    CASE ch = 27 -> To("Ignore", "Escape")
      [] ch = 144 -> To("Ignore", "DCS_Entry")
      [] ch \in {152, 158, 159} -> To("Ignore", "SOS_PM_APC_String")
      [] ch = 155 -> To("Ignore", "CSI_Entry")
      [] ch = 156 -> To("Ignore", "Ground")
      [] ch = 157 -> To("Ignore", "OSC_String")
      [] OTHER -> To("Execute", "Ground")

GroundRule(ch) ==
    IF C0_prime(ch) THEN Stay("Execute") ELSE IF ch \in 32 .. 127 THEN Stay("Print") ELSE Ignore

EscapeRule(ch) ==
    CASE C0_prime(ch) -> Stay("Execute")
      [] ch \in Intermediate -> To("Collect", "Escape_Intermediate")
      [] ch = 91 -> To("Ignore", "CSI_Entry")
      [] ch = 93 -> To("Ignore", "OSC_String")
      [] ch = 80 -> To("Ignore", "DCS_Entry")
      [] ch \in {88, 94, 95} -> To("Ignore", "SOS_PM_APC_String")
      [] ch \in (48 .. 126) \ {80, 88, 91, 93, 94, 95} -> To("Esc_Dispatch", "Ground")
      [] OTHER -> Ignore

EscapeIntermediateRule(ch) ==
    CASE C0_prime(ch) -> Stay("Execute")
      [] ch \in Intermediate -> Stay("Collect")
      [] ch \in 48 .. 126 -> To("Esc_Dispatch", "Ground")
      [] OTHER -> Ignore

\* Mutant: the private marker may come late.
HeaderInAnyOrder(next, part, ch) ==
    IF ch \in ParamChars /\ part # "Intermediate" THEN To("Param", next.Param)
    ELSE IF ch \in Private THEN To("Collect", next.Param)
    ELSE IF ch \in Intermediate THEN To("Collect", next.Intermediate)
    ELSE IF ch \in 48 .. 63 THEN To("Ignore", next.Ignore)
    ELSE Ignore

\* CSI and DCS read the same header: next names its states; part is where in it they are.
Header(next, part, ch) ==
    IF ch \in ParamChars /\ part # "Intermediate" THEN To("Param", next.Param)
    ELSE IF ch \in Private /\ part = "Entry" THEN To("Collect", next.Param)
    ELSE IF ch \in Intermediate THEN To("Collect", next.Intermediate)
    ELSE IF ch \in 48 .. 63 THEN To("Ignore", next.Ignore)
    ELSE Ignore

CSIRule(part, ch) ==
    IF C0_prime(ch) THEN Stay("Execute")
    ELSE IF ch \in Final THEN To(IF part = "Ignore" THEN "Ignore" ELSE "CSI_Dispatch", "Ground")
    ELSE IF part = "Ignore" THEN Ignore
    ELSE Header([Param |-> "CSI_Param", Intermediate |-> "CSI_Intermediate",
                 Ignore |-> "CSI_Ignore"], part, ch)
DCSRule(part, ch) ==
    IF ch \in Final THEN To("Ignore", "DCS_Passthrough")
    ELSE Header([Param |-> "DCS_Param", Intermediate |-> "DCS_Intermediate",
                 Ignore |-> "DCS_Ignore"], part, ch)

OSCRule(ch) ==
    IF ch \in 32 .. 127 THEN Stay("OSC_Put") ELSE IF ch = 7 THEN To("Ignore", "Ground") ELSE Ignore

\* State::input: characters from U+00A0 on are parsed like 'A'.
Transition(s, ch) ==
    LET like == IF ch >= 160 THEN 65 ELSE ch IN
    CASE IsAnywhere(ch) -> anywhere_rule(ch)
      [] ~IsAnywhere(ch) /\ s = "Ground" -> GroundRule(like)
      [] ~IsAnywhere(ch) /\ s = "Escape" -> EscapeRule(like)
      [] ~IsAnywhere(ch) /\ s = "Escape_Intermediate" -> EscapeIntermediateRule(like)
      [] ~IsAnywhere(ch) /\ s = "CSI_Entry" -> CSIRule("Entry", like)
      [] ~IsAnywhere(ch) /\ s = "CSI_Param" -> CSIRule("Param", like)
      [] ~IsAnywhere(ch) /\ s = "CSI_Intermediate" -> CSIRule("Intermediate", like)
      [] ~IsAnywhere(ch) /\ s = "CSI_Ignore" -> CSIRule("Ignore", like)
      [] ~IsAnywhere(ch) /\ s = "DCS_Entry" -> DCSRule("Entry", like)
      [] ~IsAnywhere(ch) /\ s = "DCS_Param" -> DCSRule("Param", like)
      [] ~IsAnywhere(ch) /\ s = "DCS_Intermediate" -> DCSRule("Intermediate", like)
      [] ~IsAnywhere(ch) /\ s = "OSC_String" -> OSCRule(like)
      [] OTHER -> Ignore   \* DCS_Passthrough, DCS_Ignore, SOS_PM_APC_String

-----------------------------------------------------------------------------
(* Parser::input and the actions on the Dispatcher *)
NoCall == [fn |-> "none"]
Entries == {"Escape", "CSI_Entry", "DCS_Entry"}     \* their enter action is Clear
Introduced == Entries \union {"OSC_String", "SOS_PM_APC_String"}

\* Dispatcher::collect
collect(chars, ch) ==
    IF Len(chars) < CharLimit /\ ch <= 255 THEN Append(chars, ch) ELSE chars

\* Dispatcher::parse_params: the numbers between semicolons, -1 where there is none or too large.
PARAM_MAX == 65535
parse_params(text) ==
    LET value(v, ch) == (IF v = -1 THEN 0 ELSE v) * 10 + (ch - 48)
        read_to[i \in 0 .. Len(text)] ==
            IF i = 0 THEN <<-1>>
            ELSE IF text[i] = 59 THEN Append(read_to[i - 1], -1)
            ELSE [read_to[i - 1] EXCEPT ![Len(read_to[i - 1])] = value(@, text[i])]
    IN  [k \in DOMAIN read_to[Len(text)] |->
            IF read_to[Len(text)][k] > PARAM_MAX THEN -1 ELSE read_to[Len(text)][k]]

\* A single character in U+0040 .. U+005F after ESC is a C1 control in 7 bits.
EscCall(ch) ==
    IF dispatch_chars = <<>> /\ ch \in 64 .. 95 THEN [fn |-> "Control", ch |-> ch + 64]
    ELSE [fn |-> "Escape", key |-> collect(dispatch_chars, ch)]

\* What the transition's own action asks of the emulator.
Called(action, ch) ==
    CASE action = "Print" -> [fn |-> "Print", ch |-> ch]
      [] action = "Execute" -> [fn |-> "Control", ch |-> ch]
      [] action = "Esc_Dispatch" -> EscCall(ch)
      [] action = "CSI_Dispatch" ->
            [fn |-> "CSI", key |-> collect(dispatch_chars, ch), params |-> parse_params(params)]
      [] OTHER -> NoCall

Init ==
    /\ buf = <<>> /\ pending = <<>>
    /\ state = "Ground"
    /\ params = <<>> /\ dispatch_chars = <<>> /\ OSC_string = <<>>
    /\ call = NoCall
    /\ kind = "Ground" /\ since = <<>>
    /\ read = 0

ReadByte(b) ==
    /\ read < MaxBytes /\ read' = read + 1
    /\ pending = <<>>
    /\ buf' = Decoded(buf, b).buf
    /\ pending' = Decoded(buf, b).chars
    /\ UNCHANGED <<state, params, dispatch_chars, OSC_string, call, kind, since>>

(* The exit action (the end of an OSC) precedes the transition's own, and  *)
(* the enter action follows it.  No transition has both of the first two:  *)
(* call holds the one there is, or the OSC's end if an Execute cut it off, *)
(* which is then remembered as cut.                                        *)
ReadChar ==
    /\ pending # <<>>
    /\ LET ch == Head(pending)
           tx == Transition(state, ch)
           entered == tx.next \in Introduced
           done == Called(tx.action, ch)
       IN  /\ state' = IF tx.next = "" THEN state ELSE tx.next
           /\ call' = IF state = "OSC_String" /\ tx.next # ""
                      THEN [fn |-> "OSC", text |-> OSC_string, then |-> done] ELSE done
           /\ params' = IF tx.next \in Entries THEN <<>>
                        ELSE IF tx.action = "Param" /\ Len(params) < ParamLimit
                        THEN Append(params, ch) ELSE params
           /\ dispatch_chars' =
                IF tx.next \in Entries THEN <<>>
                ELSE IF tx.action \in {"Collect", "Esc_Dispatch", "CSI_Dispatch"}
                        /\ done.fn # "Control"
                     THEN collect(dispatch_chars, ch) ELSE dispatch_chars
           /\ OSC_string' = IF tx.next = "OSC_String" THEN <<>>
                            ELSE IF tx.action = "OSC_Put" /\ Len(OSC_string) < TextLimit
                            THEN Append(OSC_string, ch)
                            ELSE OSC_string
           /\ kind' = IF entered THEN tx.next ELSE IF state = "Ground" THEN "Ground" ELSE kind
           /\ since' = IF entered \/ state = "Ground" THEN <<>> ELSE Append(since, ch)
    /\ pending' = Tail(pending)
    /\ UNCHANGED <<buf, read>>

Next == ReadChar \/ \E b \in Bytes : ReadByte(b)
Spec == Init /\ [][Next]_vars

-----------------------------------------------------------------------------
\* The buffer of unfinished bytes is always the beginning of one two- or three-byte character
\* (parser.cc asserts buf_len < BUF_SIZE, and 1 for a NUL), the dispatcher's strings stay within
\* their limits, and a control function is one byte (asserted by Dispatcher::dispatch).
TypeOK ==
    /\ buf = <<>>
       \/ /\ buf \in Seq(0 .. 255)
          /\ TrailingByteCount(buf[1]) \in 1 .. 2 /\ Len(buf) <= TrailingByteCount(buf[1])
          /\ \A i \in 2 .. Len(buf) : IsTrailing(buf[i])
    /\ pending \in Seq(0 .. LastChar) /\ Len(pending) <= 2
    /\ state \in States
    /\ params \in Seq(ParamChars) /\ Len(params) <= ParamLimit
    /\ dispatch_chars \in Seq(0 .. 255) /\ Len(dispatch_chars) <= CharLimit
    /\ OSC_string \in Seq(0 .. LastChar) /\ Len(OSC_string) <= TextLimit
    /\ read \in 0 .. MaxBytes
    /\ call.fn \in {"none", "Print", "Control", "Escape", "CSI", "OSC"}
    /\ call.fn = "Control" => call.ch \in 0 .. 255

\* The bytes that encode a character, by the definition of UTF-8.
Encoded(c) ==
    IF c < 128 THEN <<c>>
    ELSE IF c < 2048 THEN <<192 + (c \div 64), 128 + (c % 64)>>
    ELSE <<224 + (c \div 4096), 128 + ((c \div 64) % 64), 128 + (c % 64)>>

\* Whatever broken bytes came before, a byte that ends a well-formed character yields this
\* character, and an ASCII byte is always the last character decoded, with nothing left over:
\* parser.cc's retry of the last byte loses none of the text that follows a broken character.
Decoding ==
    [][\A b \in Bytes : ReadByte(b) =>
        LET all == Append(buf, b) IN
        /\ Len(all) \in 1 .. 3 /\ CodePoint(all) \notin Surrogates /\ Encoded(CodePoint(all)) = all
            => pending' = <<CodePoint(all)>>
        /\ b < 128 => buf' = <<>> /\ pending' # <<>> /\ pending'[Len(pending')] = b]_vars

(* What a sequence means, read as a whole and not state by state.          *)
First_n(s, n) == SubSeq(s, 1, IF Len(s) < n THEN Len(s) ELSE n)
\* The characters of s that are in S.
Only(s, S) ==
    LET Kept[i \in 0 .. Len(s)] ==
            IF i = 0 THEN <<>>
            ELSE IF s[i] \in S THEN Append(Kept[i - 1], s[i]) ELSE Kept[i - 1]
    IN  Kept[Len(s)]
Byte == 0 .. 255
Printable == 32 .. LastChar
\* C0 controls are executed where they stand and DEL is ignored: neither belongs to the sequence.
Body == Only(SubSeq(since, 1, Len(since) - 1), Printable \ {127})
Ends(final) == since # <<>> /\ (since[Len(since)] \in final \/ since[Len(since)] >= 160)
\* One private marker at most, then parameters, then intermediates.
WellFormed(body) ==
    \E i \in 0 .. Len(body), j \in 0 .. Len(body) :
        /\ i <= 1 /\ i <= j
        /\ \A k \in 1 .. i : body[k] \in Private
        /\ \A k \in i + 1 .. j : body[k] \in ParamChars
        /\ \A k \in j + 1 .. Len(body) : body[k] \in Intermediate
\* The key that the last character ends, made of the characters of S.
Key(S) == First_n(Only(Append(Body, since[Len(since)]), S), CharLimit)

\* The functions executed are those the grammar of control sequences gives: a CSI sequence is
\* dispatched if and only if private marker, parameters and intermediates come in their order,
\* with the parameters and the key it spells; an escape sequence always; the text of an OSC is
\* the printable characters since it began, however it ends; DCS, SOS, PM and APC strings do
\* nothing.  Controls in the middle, cancelled sequences and limits included.
CallsFollowGrammar ==
    /\ kind = "CSI_Entry" /\ Ends(Final) =>
        call = IF WellFormed(Body)
               THEN [fn |-> "CSI", key |-> Key(Byte \ ParamChars),
                     params |-> parse_params(First_n(Only(Body, ParamChars), ParamLimit))]
               ELSE NoCall
    /\ kind = "Escape" /\ Ends(48 .. 126) =>
        LET final == since[Len(since)] IN
        call = IF Body = <<>> /\ final \in 64 .. 95
               THEN [fn |-> "Control", ch |-> final + 64]
               ELSE [fn |-> "Escape", key |-> Key(Byte)]
    /\ state = "OSC_String" => OSC_string = First_n(Only(since, Printable), TextLimit)
    /\ kind \in {"DCS_Entry", "SOS_PM_APC_String"} /\ state # "Ground" => call.fn \in {"none", "OSC"}
    /\ call.fn = "OSC" => call.text = OSC_string \/ state = "OSC_String"
=============================================================================
