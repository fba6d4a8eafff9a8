---------------------------- MODULE ParserProofs ----------------------------
(***************************************************************************)
(* The decoder and the parser keep their buffers in bounds, decode every   *)
(* well-formed character, and make the emulator do what the grammar of     *)
(* control sequences says, for any bytes and any limits.                   *)
(*                                                                         *)
(* TypeOK is inductive by itself: its part on buf says that the unfinished *)
(* bytes begin one character, from which Decoding follows.                 *)
(*                                                                         *)
(* For the grammar, GInv says what each state knows of the body read since *)
(* the introducer: how much of it is well formed, and that the strings     *)
(* collected are its first parameters and its first other characters.      *)
(* Only is a recursive function; its values are found by induction over    *)
(* the positions of its argument, from the least element of a set of       *)
(* numbers.                                                                *)
(***************************************************************************)
EXTENDS Parser, FiniteSetTheorems, TLAPS

Char == 0 .. LastChar

\* The unfinished bytes, and the characters that wait.
BufOK ==
    buf = <<>>
    \/ /\ buf \in Seq(Byte)
       /\ TrailingByteCount(buf[1]) \in 1 .. 2 /\ Len(buf) <= TrailingByteCount(buf[1])
       /\ \A i \in 2 .. Len(buf) : IsTrailing(buf[i])
PendingOK == pending \in Seq(Char) /\ Len(pending) <= 2

-----------------------------------------------------------------------------
(* The decoder *)

LEMMA CharIs == \A c : c \in Char <=> c \in Nat /\ c <= 65535
  <1>1. LastChar \in Nat
    BY DEF LastChar
  <1>2. \A c : c \in Char <=> c \in Nat /\ c <= LastChar
    BY <1>1 DEF Char
  <1>. QED
    BY <1>2 DEF LastChar

LEMMA Counts ==
    ASSUME NEW b \in Byte
    PROVE  /\ b < 128 <=> TrailingByteCount(b) = 0
           /\ b \in 192 .. 223 <=> TrailingByteCount(b) = 1
           /\ b \in 224 .. 239 <=> TrailingByteCount(b) = 2
           /\ TrailingByteCount(b) \in 0 .. 3
  BY DEF TrailingByteCount, Byte

\* What mbrtowc_utf8 says of one and two bytes.
LEMMA OneByte ==
    ASSUME NEW b \in Byte
    PROVE  /\ CodePoint(<<b>>) = b
           /\ mbrtowc_utf8(<<b>>) =
                IF b < 128 THEN "character" ELSE IF b \in 192 .. 239 THEN "partial" ELSE "invalid"
  <1>. DEFINE s == <<b>>
  <1>1. Len(s) = 1 /\ s[1] = b
    OBVIOUS
  <1>2. \A i \in 2 .. Len(s) : FALSE
    BY <1>1
  <1>. HIDE DEF s
  <1>3. CodePoint(s) = b
    BY <1>1 DEF CodePoint
  <1>4. mbrtowc_utf8(s) =
            IF TrailingByteCount(b) > 2 THEN "invalid"
            ELSE IF 1 <= TrailingByteCount(b) THEN "partial" ELSE "character"
    BY <1>1, <1>2 DEF mbrtowc_utf8
  <1>5. mbrtowc_utf8(s) =
            IF b < 128 THEN "character" ELSE IF b \in 192 .. 239 THEN "partial" ELSE "invalid"
    BY <1>4, Counts DEF Byte
  <1>. QED
    BY <1>3, <1>5 DEF s

LEMMA TwoBytes ==
    ASSUME NEW s, Len(s) = 2, NEW x \in 192 .. 239, s[1] = x, NEW b \in Byte, s[2] = b
    PROVE  /\ CodePoint(s) = (x % 32) * 64 + (b % 64)
           /\ mbrtowc_utf8(s) =
                IF ~IsTrailing(b) THEN "invalid" ELSE IF x >= 224 THEN "partial" ELSE "character"
  <1>1. (\E i \in 2 .. Len(s) : ~IsTrailing(s[i])) <=> ~IsTrailing(b)
    OBVIOUS
  <1>2. CodePoint(s) = (x % 32) * 64 + (b % 64)
    BY DEF CodePoint
  <1>3. x < 224 => CodePoint(s) \notin Surrogates
    <2>1. x % 32 \in 0 .. 31 /\ b % 64 \in 0 .. 63
      BY DEF Byte
    <2>2. ASSUME NEW u \in 0 .. 31, NEW v \in 0 .. 63 PROVE u * 64 + v \notin Surrogates
      BY DEF Surrogates
    <2>. QED
      BY <1>2, <2>1, <2>2
  <1>4. x \in Byte /\ TrailingByteCount(x) \in 1 .. 2 /\ (x >= 224 <=> TrailingByteCount(x) = 2)
    BY Counts DEF Byte
  <1>5. mbrtowc_utf8(s) =
            IF ~IsTrailing(b) THEN "invalid" ELSE IF x >= 224 THEN "partial" ELSE "character"
    BY <1>1, <1>3, <1>4 DEF mbrtowc_utf8
  <1>. QED
    BY <1>2, <1>5

\* What the decoder makes of them.
LEMMA FirstByte ==
    ASSUME NEW b \in Byte
    PROVE  First(b) = IF b < 128 THEN [buf |-> <<>>, chars |-> <<b>>]
                      ELSE IF b \in 192 .. 239 THEN [buf |-> <<b>>, chars |-> <<>>]
                      ELSE [buf |-> <<>>, chars |-> <<Replacement>>]
  <1>1. CASE b < 128
    <2>1. mbrtowc_utf8(<<b>>) = "character"
      BY <1>1, OneByte
    <2>. QED
      BY <1>1, <2>1 DEF First
  <1>2. CASE b \in 192 .. 239
    <2>1. mbrtowc_utf8(<<b>>) = "partial" /\ ~(b < 128)
      BY <1>2, OneByte
    <2>2. First(b) = [buf |-> <<b>>, chars |-> <<>>]
      BY <2>1 DEF First
    <2>. QED
      BY <1>2, <2>1, <2>2
  <1>3. CASE ~(b < 128) /\ b \notin 192 .. 239
    <2>1. mbrtowc_utf8(<<b>>) = "invalid"
      BY <1>3, OneByte
    <2>. QED
      BY <1>3, <2>1 DEF First
  <1>. QED
    BY <1>1, <1>2, <1>3

Retried(b) == [buf |-> First(b).buf, chars |-> <<Replacement>> \o First(b).chars]

LEMMA Appended ==
    ASSUME NEW s \in Seq(Byte), NEW b \in Byte
    PROVE  LET all == Append(s, b) IN
           /\ all \in Seq(Byte) /\ Len(all) = Len(s) + 1 /\ all[Len(s) + 1] = b
           /\ \A i \in 1 .. Len(s) : all[i] = s[i]
           /\ Len(s) \in Nat
  OBVIOUS

LEMMA NotEmpty == ASSUME NEW s, Len(s) # 0 PROVE s # <<>>
  <1>1. Len(<<>>) = 0
    OBVIOUS
  <1>. QED
    BY <1>1

LEMMA SecondByte ==
    ASSUME NEW s \in Seq(Byte), Len(s) = 1, NEW x \in 192 .. 239, s[1] = x, NEW b \in Byte
    PROVE  /\ Decoded(s, b) =
                IF ~IsTrailing(b) THEN Retried(b)
                ELSE IF x >= 224 THEN [buf |-> Append(s, b), chars |-> <<>>]
                ELSE [buf |-> <<>>, chars |-> <<CodePoint(Append(s, b))>>]
           /\ CodePoint(Append(s, b)) = (x % 32) * 64 + (b % 64)
  <1>. DEFINE all == Append(s, b)
  <1>1. Len(all) = 2 /\ all[1] = x /\ all[2] = b
    <2>1. /\ Len(all) = Len(s) + 1 /\ all[Len(s) + 1] = b
          /\ \A i \in 1 .. Len(s) : all[i] = s[i]
      BY Appended
    <2>2. Len(s) + 1 = 2 /\ 1 .. Len(s) = 1 .. 1
      OBVIOUS
    <2>. HIDE DEF all
    <2>. QED
      BY <2>1, <2>2
  <1>2. s # <<>>
    <2>1. Len(s) # 0
      OBVIOUS
    <2>. QED
      BY <2>1, NotEmpty
  <1>. HIDE DEF all
  <1>3. /\ CodePoint(all) = (x % 32) * 64 + (b % 64)
        /\ mbrtowc_utf8(all) =
              IF ~IsTrailing(b) THEN "invalid" ELSE IF x >= 224 THEN "partial" ELSE "character"
    BY <1>1, TwoBytes
  <1>4. CASE ~IsTrailing(b)
    BY <1>2, <1>3, <1>4 DEF Decoded, Retried, all
  <1>5. CASE IsTrailing(b) /\ x >= 224
    BY <1>2, <1>3, <1>5 DEF Decoded, all
  <1>6. CASE IsTrailing(b) /\ ~(x >= 224)
    BY <1>2, <1>3, <1>6 DEF Decoded, all
  <1>. QED
    BY <1>3, <1>4, <1>5, <1>6 DEF all

LEMMA ThirdByte ==
    ASSUME NEW s \in Seq(Byte), Len(s) = 2, NEW x \in 224 .. 239, s[1] = x,
           s[2] \in 128 .. 191, NEW b \in Byte
    PROVE  /\ Decoded(s, b) =
                IF ~IsTrailing(b) \/ CodePoint(Append(s, b)) \in Surrogates THEN Retried(b)
                ELSE [buf |-> <<>>, chars |-> <<CodePoint(Append(s, b))>>]
           /\ CodePoint(Append(s, b)) \in Char
  <1>. DEFINE all == Append(s, b)
  <1>. PICK y \in 128 .. 191 : s[2] = y
    OBVIOUS
  <1>1. Len(all) = 3 /\ all[1] = x /\ all[2] = y /\ all[3] = b
    <2>1. /\ Len(all) = Len(s) + 1 /\ all[Len(s) + 1] = b
          /\ \A i \in 1 .. Len(s) : all[i] = s[i]
      BY Appended
    <2>2. Len(s) + 1 = 3 /\ 1 .. Len(s) = 1 .. 2
      OBVIOUS
    <2>. HIDE DEF all
    <2>. QED
      BY <2>1, <2>2
  <1>2. s # <<>>
    <2>1. Len(s) # 0
      OBVIOUS
    <2>. QED
      BY <2>1, NotEmpty
  <1>. HIDE DEF all
  <1>3. CodePoint(all) \in Char
    <2>1. CodePoint(all) = (x % 16) * 4096 + (y % 64) * 64 + (b % 64)
      BY <1>1 DEF CodePoint
    <2>. DEFINE p == x % 16
                q == y % 64
                r == b % 64
    <2>2. p \in 0 .. 15 /\ q \in 0 .. 63 /\ r \in 0 .. 63
      BY DEF Byte
    <2>. HIDE DEF p, q, r
    <2>3. p * 4096 + q * 64 + r \in Nat /\ p * 4096 + q * 64 + r <= 65535
      BY <2>2
    <2>4. CodePoint(all) \in Nat /\ CodePoint(all) <= 65535
      BY <2>1, <2>3 DEF p, q, r
    <2>. QED
      BY <2>4, CharIs
  <1>4. (\E i \in 2 .. Len(all) : ~IsTrailing(all[i])) <=> ~IsTrailing(b)
    <2>1. \A i \in 2 .. Len(all) : i = 2 \/ i = 3
      BY <1>1
    <2>2. 3 \in 2 .. Len(all) /\ IsTrailing(y)
      BY <1>1 DEF IsTrailing
    <2>. QED
      BY <1>1, <2>1, <2>2
  <1>5. x \in Byte /\ TrailingByteCount(x) = 2
    <2>1. x \in Byte
      BY DEF Byte
    <2>. QED
      BY <2>1, Counts
  <1>6. CASE ~IsTrailing(b) \/ CodePoint(all) \in Surrogates
    <2>1. mbrtowc_utf8(all) = "invalid"
      BY <1>1, <1>4, <1>5, <1>6 DEF mbrtowc_utf8
    <2>. QED
      BY <1>2, <1>3, <1>6, <2>1 DEF Decoded, Retried, all
  <1>7. CASE IsTrailing(b) /\ CodePoint(all) \notin Surrogates
    <2>1. mbrtowc_utf8(all) = "character"
      BY <1>1, <1>4, <1>5, <1>7 DEF mbrtowc_utf8
    <2>. QED
      BY <1>2, <1>3, <1>7, <2>1 DEF Decoded, all
  <1>. QED
    BY <1>3, <1>6, <1>7 DEF all

\* Unfinished bytes are one, or two that began a character of three.
LEMMA BufCases ==
    ASSUME BufOK, buf # <<>>
    PROVE  /\ buf \in Seq(Byte)
           /\ \/ Len(buf) = 1 /\ \E x \in 192 .. 239 : buf[1] = x
              \/ /\ Len(buf) = 2
                 /\ \E x \in 224 .. 239 : buf[1] = x
                 /\ \E y \in 128 .. 191 : buf[2] = y
  <1>1. buf \in Seq(Byte) /\ \A i \in 2 .. Len(buf) : IsTrailing(buf[i])
    BY DEF BufOK
  <1>2. Len(buf) \in Nat \ {0}
    BY <1>1
  <1>3. PICK x \in Byte : buf[1] = x
    BY <1>1, <1>2
  <1>4. TrailingByteCount(x) \in 1 .. 2 /\ Len(buf) <= TrailingByteCount(x)
    BY <1>3 DEF BufOK
  <1>5. TrailingByteCount(x) = 1 \/ TrailingByteCount(x) = 2
    BY <1>4
  <1>6. x \in 192 .. 239 /\ (TrailingByteCount(x) = 2 => x \in 224 .. 239)
    <2>1. TrailingByteCount(x) = 1 => x \in 192 .. 223
      BY Counts
    <2>2. TrailingByteCount(x) = 2 => x \in 224 .. 239
      BY Counts
    <2>. QED
      BY <1>5, <2>1, <2>2
  <1>7. Len(buf) = 1 \/ (Len(buf) = 2 /\ TrailingByteCount(x) = 2)
    <2>. DEFINE n == Len(buf)
                t == TrailingByteCount(x)
    <2>1. n \in Nat \ {0} /\ n <= t /\ (t = 1 \/ t = 2)
      BY <1>2, <1>4, <1>5
    <2>. HIDE DEF n, t
    <2>2. n = 1 \/ (n = 2 /\ t = 2)
      BY <2>1
    <2>. QED
      BY <2>2 DEF n, t
  <1>8. CASE Len(buf) = 1
    BY <1>1, <1>3, <1>6, <1>8
  <1>9. CASE Len(buf) = 2 /\ TrailingByteCount(x) = 2
    <2>1. 2 \in 1 .. Len(buf) /\ 2 \in 2 .. Len(buf)
      BY <1>9
    <2>2. buf[2] \in Byte /\ IsTrailing(buf[2])
      BY <1>1, <2>1
    <2>. QED
      BY <1>1, <1>3, <1>6, <1>9, <2>2 DEF IsTrailing
  <1>. QED
    BY <1>7, <1>8, <1>9

\* A byte tried again leaves at most itself, and at most two characters, the last of them its own.
LEMMA RetriedByte ==
    ASSUME NEW b \in Byte
    PROVE  /\ Retried(b).buf = <<>> \/ (Retried(b).buf = <<b>> /\ b \in 192 .. 239)
           /\ Retried(b).chars \in Seq(Char) /\ Len(Retried(b).chars) <= 2
           /\ b < 128 => /\ Retried(b).buf = <<>>
                         /\ Len(Retried(b).chars) = 2 /\ Retried(b).chars[2] = b
  <1>1. Replacement \in Char /\ <<Replacement>> \in Seq(Char)
    BY CharIs DEF Replacement
  <1>2. CASE b < 128
    <2>1. First(b) = [buf |-> <<>>, chars |-> <<b>>]
      BY <1>2, FirstByte
    <2>2. Retried(b) = [buf |-> <<>>, chars |-> <<Replacement>> \o <<b>>]
      BY <2>1 DEF Retried
    <2>3. <<b>> \in Seq(Char)
      <3>1. b \in Char
        BY CharIs DEF Byte
      <3>. QED
        BY <3>1
    <2>4. /\ <<Replacement>> \o <<b>> \in Seq(Char)
          /\ Len(<<Replacement>> \o <<b>>) = 2 /\ (<<Replacement>> \o <<b>>)[2] = b
      BY <1>1, <2>3
    <2>. QED
      BY <2>2, <2>4
  <1>3. CASE ~(b < 128)
    <2>1. First(b) = IF b \in 192 .. 239 THEN [buf |-> <<b>>, chars |-> <<>>]
                     ELSE [buf |-> <<>>, chars |-> <<Replacement>>]
      BY <1>3, FirstByte
    <2>2. /\ <<Replacement>> \o <<>> \in Seq(Char) /\ Len(<<Replacement>> \o <<>>) = 1
          /\ <<Replacement>> \o <<Replacement>> \in Seq(Char)
          /\ Len(<<Replacement>> \o <<Replacement>>) = 2
      BY <1>1
    <2>3. CASE b \in 192 .. 239
      <3>1. Retried(b) = [buf |-> <<b>>, chars |-> <<Replacement>> \o <<>>]
        BY <2>1, <2>3 DEF Retried
      <3>. QED
        BY <1>3, <2>2, <2>3, <3>1
    <2>4. CASE b \notin 192 .. 239
      <3>1. Retried(b) = [buf |-> <<>>, chars |-> <<Replacement>> \o <<Replacement>>]
        BY <2>1, <2>4 DEF Retried
      <3>. QED
        BY <1>3, <2>2, <3>1
    <2>. QED
      BY <2>3, <2>4
  <1>. QED
    BY <1>2, <1>3

\* A character of its own.
LEMMA OneChar ==
    ASSUME NEW c \in Char PROVE <<c>> \in Seq(Char) /\ Len(<<c>>) = 1 /\ <<c>>[1] = c
  OBVIOUS

LEMMA StartedOK ==
    ASSUME NEW b \in 192 .. 239, buf' = <<b>> PROVE BufOK'
  <1>1. Len(<<b>>) = 1 /\ <<b>>[1] = b /\ <<b>> \in Seq(Byte)
    BY DEF Byte
  <1>2. TrailingByteCount(b) \in 1 .. 2
    BY DEF TrailingByteCount
  <1>3. \A i \in 2 .. Len(<<b>>) : FALSE
    BY <1>1
  <1>. QED
    BY <1>1, <1>2, <1>3 DEF BufOK

\* An encoding is as long as its character is large, and its last byte trails.
LEMMA EncodedLength ==
    ASSUME NEW c \in Nat, NEW s, Encoded(c) = s
    PROVE  /\ Len(s) = 1 => c < 128
           /\ Len(s) = 2 => c < 2048 /\ s[1] = 192 + (c \div 64) /\ s[2] = 128 + (c % 64)
           /\ Len(s) = 3 => s[3] = 128 + (c % 64)
  <1>1. CASE c < 128
    <2>1. s = <<c>>
      BY <1>1 DEF Encoded
    <2>. QED
      BY <1>1, <2>1
  <1>2. CASE ~(c < 128) /\ c < 2048
    <2>1. s = <<192 + (c \div 64), 128 + (c % 64)>>
      BY <1>2 DEF Encoded
    <2>. QED
      BY <1>2, <2>1
  <1>3. CASE ~(c < 128) /\ ~(c < 2048)
    <2>1. s = <<224 + (c \div 4096), 128 + ((c \div 64) % 64), 128 + (c % 64)>>
      BY <1>3 DEF Encoded
    <2>. QED
      BY <1>3, <2>1
  <1>. QED
    BY <1>1, <1>2, <1>3

WellDecoded(b) ==
    LET all == Append(buf, b) IN
    /\ Len(all) \in 1 .. 3 /\ CodePoint(all) \notin Surrogates /\ Encoded(CodePoint(all)) = all
        => pending' = <<CodePoint(all)>>
    /\ b < 128 => buf' = <<>> /\ pending' # <<>> /\ pending'[Len(pending')] = b

LEMMA RetriedOK ==
    ASSUME NEW b \in Byte, buf' = Retried(b).buf, pending' = Retried(b).chars
    PROVE  /\ BufOK' /\ PendingOK'
           /\ b < 128 => buf' = <<>> /\ pending' # <<>> /\ pending'[Len(pending')] = b
  <1>1. BufOK'
    <2>1. CASE buf' = <<>>
      BY <2>1 DEF BufOK
    <2>2. CASE buf' # <<>>
      BY <2>2, RetriedByte, StartedOK
    <2>. QED
      BY <2>1, <2>2
  <1>2. PendingOK'
    <2>1. pending' \in Seq(Char) /\ Len(pending') <= 2
      BY RetriedByte
    <2>. QED
      BY <2>1 DEF PendingOK
  <1>3. ASSUME b < 128 PROVE buf' = <<>> /\ pending' # <<>> /\ pending'[Len(pending')] = b
    <2>1. buf' = <<>> /\ Len(pending') = 2 /\ pending'[2] = b
      BY <1>3, RetriedByte
    <2>2. Len(pending') # 0
      BY <2>1
    <2>. QED
      BY <2>1, <2>2, NotEmpty
  <1>. QED
    BY <1>1, <1>2, <1>3

LEMMA FirstByteOK ==
    ASSUME buf = <<>>, NEW b \in Byte, ReadByte(b) PROVE BufOK' /\ PendingOK' /\ WellDecoded(b)
  <1>1. buf' = First(b).buf /\ pending' = First(b).chars
    <2>1. Decoded(<<>>, b) = First(b)
      BY DEF Decoded
    <2>. QED
      BY <2>1 DEF ReadByte
  <1>2. Len(Append(buf, b)) = 1 /\ CodePoint(Append(buf, b)) = b
    <2>1. Len(Append(buf, b)) = 1 /\ Append(buf, b)[1] = b
      OBVIOUS
    <2>. QED
      BY <2>1 DEF CodePoint
  <1>3. b \in Char /\ b \in Nat
    <2>1. b \in Char
      BY CharIs DEF Byte
    <2>2. b \in Nat
      BY DEF Byte
    <2>. QED
      BY <2>1, <2>2
  <1>4. CASE b < 128
    <2>1. buf' = <<>> /\ pending' = <<b>>
      BY <1>1, <1>4, FirstByte
    <2>2. <<b>> \in Seq(Char) /\ Len(<<b>>) = 1 /\ <<b>>[1] = b /\ <<b>> # <<>>
      BY <1>3, OneChar
    <2>3. BufOK' /\ PendingOK'
      BY <2>1, <2>2 DEF BufOK, PendingOK
    <2>. QED
      BY <1>2, <2>1, <2>2, <2>3 DEF WellDecoded
  <1>5. CASE ~(b < 128)
    <2>1. Encoded(CodePoint(Append(buf, b))) # Append(buf, b)
      BY <1>2, <1>3, <1>5, EncodedLength
    <2>2. WellDecoded(b)
      BY <1>5, <2>1 DEF WellDecoded
    <2>3. CASE b \in 192 .. 239
      <3>1. buf' = <<b>> /\ pending' = <<>>
        BY <1>1, <1>5, <2>3, FirstByte
      <3>2. PendingOK'
        BY <3>1 DEF PendingOK
      <3>. QED
        BY <2>2, <2>3, <3>1, <3>2, StartedOK
    <2>4. CASE b \notin 192 .. 239
      <3>1. First(b) = [buf |-> <<>>, chars |-> <<Replacement>>]
        BY <1>5, <2>4, FirstByte
      <3>2. buf' = <<>> /\ pending' = <<Replacement>>
        BY <1>1, <3>1
      <3>3. Replacement \in Char
        BY CharIs DEF Replacement
      <3>4. PendingOK'
        BY <3>2, <3>3, OneChar DEF PendingOK
      <3>. QED
        BY <2>2, <3>2, <3>4 DEF BufOK
    <2>. QED
      BY <2>3, <2>4
  <1>. QED
    BY <1>4, <1>5

LEMMA SecondByteOK ==
    ASSUME buf \in Seq(Byte), Len(buf) = 1, NEW x \in 192 .. 239, buf[1] = x,
           NEW b \in Byte, ReadByte(b)
    PROVE  BufOK' /\ PendingOK' /\ WellDecoded(b)
  <1>. DEFINE all == Append(buf, b)
              c == (x % 32) * 64 + (b % 64)
  <1>1. buf' = Decoded(buf, b).buf /\ pending' = Decoded(buf, b).chars
    BY DEF ReadByte
  <1>2. all \in Seq(Byte) /\ Len(all) = 2 /\ all[1] = x /\ all[2] = b
    <2>1. /\ Len(all) = Len(buf) + 1 /\ all[Len(buf) + 1] = b /\ all \in Seq(Byte)
          /\ \A i \in 1 .. Len(buf) : all[i] = buf[i]
      BY Appended
    <2>2. Len(buf) + 1 = 2 /\ 1 .. Len(buf) = 1 .. 1
      OBVIOUS
    <2>. HIDE DEF all
    <2>. QED
      BY <2>1, <2>2
  <1>3. CodePoint(all) = c
    BY SecondByte
  <1>4. c \in Nat /\ c \in Char
    <2>1. c \in 0 .. 2047
      BY DEF Byte
    <2>. HIDE DEF c
    <2>2. c \in Nat /\ c <= 65535
      BY <2>1
    <2>3. c \in Char
      BY <2>2, CharIs
    <2>. QED
      BY <2>2, <2>3
  <1>5. CASE ~IsTrailing(b)
    <2>1. Decoded(buf, b) = Retried(b)
      BY <1>5, SecondByte
    <2>2. /\ BufOK' /\ PendingOK'
          /\ b < 128 => buf' = <<>> /\ pending' # <<>> /\ pending'[Len(pending')] = b
      BY <1>1, <2>1, RetriedOK
    <2>3. Encoded(CodePoint(all)) # all
      <3>. HIDE DEF all, c
      <3>. SUFFICES ASSUME Encoded(c) = all PROVE FALSE
        BY <1>3
      <3>1. all[2] = 128 + (c % 64)
        BY <1>2, <1>4, EncodedLength
      <3>2. IsTrailing(128 + (c % 64))
        BY <1>4 DEF IsTrailing
      <3>. QED
        BY <1>2, <1>5, <3>1, <3>2
    <2>. QED
      BY <2>2, <2>3 DEF WellDecoded
  <1>6. CASE IsTrailing(b)
    <2>1. ~(b < 128)
      BY <1>6 DEF IsTrailing
    <2>2. CASE x >= 224
      <3>1. Decoded(buf, b) = [buf |-> all, chars |-> <<>>]
        BY <1>6, <2>2, SecondByte
      <3>2. buf' = all /\ pending' = <<>>
        BY <1>1, <3>1
      <3>3. BufOK'
        <4>1. TrailingByteCount(x) = 2
          BY <2>2 DEF TrailingByteCount
        <4>. HIDE DEF all
        <4>2. \A i \in 2 .. Len(all) : IsTrailing(all[i])
          <5>1. \A i \in 2 .. Len(all) : i = 2
            BY <1>2
          <5>. QED
            BY <1>2, <1>6, <5>1
        <4>3. TrailingByteCount(all[1]) \in 1 .. 2 /\ Len(all) <= TrailingByteCount(all[1])
          BY <1>2, <4>1
        <4>. QED
          BY <1>2, <3>2, <4>2, <4>3 DEF BufOK
      <3>4. PendingOK'
        BY <3>2 DEF PendingOK
      <3>5. Encoded(CodePoint(all)) # all
        <4>. HIDE DEF all
        <4>. SUFFICES ASSUME Encoded(c) = all PROVE FALSE
          BY <1>3
        <4>1. c < 2048 /\ x = 192 + (c \div 64)
          <5>. HIDE DEF c
          <5>. QED
            BY <1>2, <1>4, EncodedLength
        <4>2. x < 224
          <5>. HIDE DEF c
          <5>. QED
            BY <1>4, <4>1
        <4>. QED
          BY <2>2, <4>2
      <3>. QED
        BY <2>1, <3>3, <3>4, <3>5 DEF WellDecoded
    <2>3. CASE ~(x >= 224)
      <3>1. Decoded(buf, b) = [buf |-> <<>>, chars |-> <<CodePoint(all)>>]
        BY <1>6, <2>3, SecondByte
      <3>2. buf' = <<>> /\ pending' = <<CodePoint(all)>>
        BY <1>1, <3>1
      <3>3. PendingOK'
        <4>. HIDE DEF c, all
        <4>1. CodePoint(all) \in Char
          BY <1>3, <1>4
        <4>. QED
          BY <3>2, <4>1, OneChar DEF PendingOK
      <3>. QED
        BY <2>1, <3>2, <3>3 DEF WellDecoded, BufOK
    <2>. QED
      BY <2>2, <2>3
  <1>. QED
    BY <1>5, <1>6

LEMMA ThirdByteOK ==
    ASSUME buf \in Seq(Byte), Len(buf) = 2, NEW x \in 224 .. 239, buf[1] = x,
           buf[2] \in 128 .. 191, NEW b \in Byte, ReadByte(b)
    PROVE  BufOK' /\ PendingOK' /\ WellDecoded(b)
  <1>. DEFINE all == Append(buf, b)
              c == CodePoint(all)
  <1>1. buf' = Decoded(buf, b).buf /\ pending' = Decoded(buf, b).chars
    BY DEF ReadByte
  <1>2. all \in Seq(Byte) /\ Len(all) = 3 /\ all[3] = b
    <2>1. all \in Seq(Byte) /\ Len(all) = Len(buf) + 1 /\ all[Len(buf) + 1] = b
      BY Appended
    <2>2. Len(buf) + 1 = 3
      OBVIOUS
    <2>. HIDE DEF all
    <2>. QED
      BY <2>1, <2>2
  <1>3. /\ c \in Char
        /\ Decoded(buf, b) = IF ~IsTrailing(b) \/ c \in Surrogates THEN Retried(b)
                             ELSE [buf |-> <<>>, chars |-> <<c>>]
    BY ThirdByte, SMTT(30)
  <1>. HIDE DEF c
  <1>4. CASE ~IsTrailing(b) \/ c \in Surrogates
    <2>1. Decoded(buf, b) = Retried(b)
      BY <1>3, <1>4
    <2>2. /\ BufOK' /\ PendingOK'
          /\ b < 128 => buf' = <<>> /\ pending' # <<>> /\ pending'[Len(pending')] = b
      BY <1>1, <2>1, RetriedOK
    <2>3. c \in Surrogates \/ Encoded(c) # all
      <3>. HIDE DEF all
      <3>. SUFFICES ASSUME Encoded(c) = all, ~IsTrailing(b) PROVE FALSE
        BY <1>4
      <3>1. c \in Nat
        BY <1>3, CharIs
      <3>2. all[3] = 128 + (c % 64)
        BY <1>2, <3>1, EncodedLength
      <3>3. IsTrailing(128 + (c % 64))
        BY <3>1 DEF IsTrailing
      <3>. QED
        BY <1>2, <3>2, <3>3
    <2>. QED
      BY <2>2, <2>3 DEF WellDecoded, c
  <1>5. CASE IsTrailing(b) /\ c \notin Surrogates
    <2>1. ~(b < 128)
      BY <1>5 DEF IsTrailing
    <2>2. buf' = <<>> /\ pending' = <<c>>
      BY <1>1, <1>3, <1>5
    <2>3. BufOK' /\ PendingOK'
      BY <1>3, <2>2, OneChar DEF BufOK, PendingOK
    <2>. QED
      BY <2>1, <2>2, <2>3 DEF WellDecoded, c
  <1>. QED
    BY <1>4, <1>5

LEMMA ReadByteDecodes ==
    ASSUME BufOK, NEW b \in Byte, ReadByte(b) PROVE BufOK' /\ PendingOK' /\ WellDecoded(b)
  <1>1. CASE buf = <<>>
    BY <1>1, FirstByteOK
  <1>2. CASE buf # <<>>
    BY <1>2, BufCases, SecondByteOK, ThirdByteOK
  <1>. QED
    BY <1>1, <1>2

-----------------------------------------------------------------------------
(* The parser *)

\* A transition leads to a state, keeps only what may be kept and executes only controls.
Controls == (0 .. 31) \union (128 .. 159)
Proper(tx, ch) ==
    /\ tx.next \in States \union {""}
    /\ tx.action = "Param" => ch \in ParamChars
    /\ tx.action = "Execute" => ch \in Controls

LEMMA StepsAreProper ==
    ASSUME NEW ch, NEW next \in States
    PROVE  /\ Proper(Ignore, ch)
           /\ \A action \in {"Ignore", "Print", "Collect", "OSC_Put", "Esc_Dispatch", "CSI_Dispatch"} :
                Proper(To(action, next), ch) /\ Proper(Stay(action), ch)
           /\ ch \in Controls => Proper(To("Execute", next), ch) /\ Proper(Stay("Execute"), ch)
           /\ ch \in ParamChars => Proper(To("Param", next), ch)
  BY DEF Ignore, Stay, To, Proper

LEMMA StatesNamed ==
    /\ "Ground" \in States /\ "Escape" \in States /\ "Escape_Intermediate" \in States
    /\ "CSI_Entry" \in States /\ "DCS_Entry" \in States /\ "OSC_String" \in States
    /\ "SOS_PM_APC_String" \in States /\ "DCS_Passthrough" \in States
  BY DEF States

LEMMA HeaderIsProper ==
    ASSUME NEW ch, NEW next, NEW part,
           next.Param \in States, next.Intermediate \in States, next.Ignore \in States
    PROVE  Proper(Header(next, part, ch), ch)
  BY StepsAreProper DEF Header

LEMMA RulesAreProper ==
    ASSUME NEW ch \in 0 .. 255
    PROVE  /\ IsAnywhere(ch) => Proper(anywhere_rule(ch), ch)
           /\ Proper(GroundRule(ch), ch)
           /\ Proper(EscapeRule(ch), ch) /\ Proper(EscapeIntermediateRule(ch), ch)
           /\ Proper(OSCRule(ch), ch)
           /\ \A part \in {"Entry", "Param", "Intermediate", "Ignore"} :
                Proper(CSIRule(part, ch), ch) /\ Proper(DCSRule(part, ch), ch)
  <1>. USE StepsAreProper, StatesNamed
  <1>. C0_prime(ch) => ch \in Controls
    BY DEF C0_prime, Controls
  <1>1. IsAnywhere(ch) => Proper(anywhere_rule(ch), ch)
    <2>1. IsAnywhere(ch) /\ ch # 27 => ch \in Controls
      BY DEF IsAnywhere, Controls
    <2>. QED
      BY <2>1 DEF anywhere_rule
  <1>2. Proper(GroundRule(ch), ch)
    BY DEF GroundRule
  <1>3. Proper(EscapeRule(ch), ch)
    BY DEF EscapeRule
  <1>4. Proper(EscapeIntermediateRule(ch), ch)
    BY DEF EscapeIntermediateRule
  <1>5. Proper(OSCRule(ch), ch)
    BY DEF OSCRule
  <1>6. ASSUME NEW part \in {"Entry", "Param", "Intermediate", "Ignore"}
        PROVE  Proper(CSIRule(part, ch), ch)
    <2>. DEFINE next == [Param |-> "CSI_Param", Intermediate |-> "CSI_Intermediate",
                         Ignore |-> "CSI_Ignore"]
    <2>1. Proper(Header(next, part, ch), ch)
      BY HeaderIsProper DEF States
    <2>. QED
      BY <2>1 DEF CSIRule
  <1>7. ASSUME NEW part \in {"Entry", "Param", "Intermediate", "Ignore"}
        PROVE  Proper(DCSRule(part, ch), ch)
    <2>. DEFINE next == [Param |-> "DCS_Param", Intermediate |-> "DCS_Intermediate",
                         Ignore |-> "DCS_Ignore"]
    <2>1. Proper(Header(next, part, ch), ch)
      BY HeaderIsProper DEF States
    <2>. QED
      BY <2>1 DEF DCSRule
  <1>. QED
    BY <1>1, <1>2, <1>3, <1>4, <1>5, <1>6, <1>7

LEMMA TransitionIsProper ==
    ASSUME NEW ch \in Char, NEW s \in States PROVE Proper(Transition(s, ch), ch)
  <1>. DEFINE like == IF ch >= 160 THEN 65 ELSE ch
  <1>1. ch \in Nat
    BY CharIs
  <1>2. CASE IsAnywhere(ch)
    <2>1. ch \in 0 .. 255
      BY <1>2 DEF IsAnywhere
    <2>. QED
      BY <1>2, <2>1, RulesAreProper DEF Transition
  <1>3. CASE ~IsAnywhere(ch)
    <2>1. like \in 0 .. 255 /\ (like = ch \/ like = 65)
      BY <1>1
    <2>2. ASSUME NEW tx, Proper(tx, like) PROVE Proper(tx, ch)
      <3>1. 65 \notin Controls /\ 65 \notin ParamChars
        BY DEF Controls, ParamChars, Digits
      <3>. HIDE DEF like
      <3>. QED
        BY <2>1, <2>2, <3>1, ZenonT(60) DEF Proper
    <2>. HIDE DEF like
    <2>3. /\ Proper(GroundRule(like), ch) /\ Proper(EscapeRule(like), ch)
          /\ Proper(EscapeIntermediateRule(like), ch) /\ Proper(OSCRule(like), ch)
          /\ \A part \in {"Entry", "Param", "Intermediate", "Ignore"} :
                Proper(CSIRule(part, like), ch) /\ Proper(DCSRule(part, like), ch)
      BY <2>1, <2>2, RulesAreProper
    <2>4. Proper(Ignore, ch)
      BY StepsAreProper, StatesNamed
    <2>. QED
      BY <1>3, <2>3, <2>4 DEF Transition, like
  <1>. QED
    BY <1>2, <1>3

-----------------------------------------------------------------------------
LEMMA BytesAreBytes == Bytes \subseteq Byte /\ ParamLimit \in Nat /\ CharLimit \in Nat
                       /\ TextLimit \in Nat /\ MaxBytes \in Nat
  BY BytesAssumption, LimitsAssumption DEF Byte

CallOK ==
    /\ call.fn \in {"none", "Print", "Control", "Escape", "CSI", "OSC"}
    /\ call.fn = "Control" => call.ch \in Byte
TextsOK ==
    /\ params \in Seq(ParamChars) /\ Len(params) <= ParamLimit
    /\ dispatch_chars \in Seq(Byte) /\ Len(dispatch_chars) <= CharLimit
    /\ OSC_string \in Seq(Char) /\ Len(OSC_string) <= TextLimit

LEMMA TypeParts ==
    TypeOK <=> /\ BufOK /\ PendingOK /\ state \in States /\ TextsOK
               /\ read \in 0 .. MaxBytes /\ CallOK
  BY DEF TypeOK, BufOK, PendingOK, TextsOK, CallOK, Byte, Char

LEMMA InitHolds == Init => TypeOK
  <1>. SUFFICES ASSUME Init PROVE TypeOK
    OBVIOUS
  <1>1. BufOK /\ PendingOK
    BY DEF Init, BufOK, PendingOK
  <1>2. state \in States /\ read \in 0 .. MaxBytes
    BY BytesAreBytes, StatesNamed DEF Init
  <1>3. TextsOK
    BY BytesAreBytes DEF Init, TextsOK
  <1>4. CallOK
    BY DEF Init, CallOK, NoCall
  <1>. QED
    BY <1>1, <1>2, <1>3, <1>4, TypeParts

LEMMA ReadByteKeeps == ASSUME TypeOK, NEW b \in Bytes, ReadByte(b) PROVE TypeOK'
  <1>1. BufOK' /\ PendingOK'
    BY BytesAreBytes, TypeParts, ReadByteDecodes
  <1>2. UNCHANGED <<state, params, dispatch_chars, OSC_string, call>>
    BY DEF ReadByte
  <1>3. (state \in States /\ TextsOK /\ CallOK)'
    BY <1>2, TypeParts DEF TextsOK, CallOK
  <1>4. (read \in 0 .. MaxBytes)'
    BY BytesAreBytes, TypeParts DEF ReadByte
  <1>. QED
    BY <1>1, <1>3, <1>4 DEF TypeOK, BufOK, PendingOK, TextsOK, CallOK, Byte, Char

LEMMA AppendedWithin ==
    ASSUME NEW S, NEW text \in Seq(S), NEW limit \in Nat, Len(text) < limit, NEW x \in S
    PROVE  Append(text, x) \in Seq(S) /\ Len(Append(text, x)) <= limit
  OBVIOUS

LEMMA EmptyWithin ==
    ASSUME NEW S, NEW limit \in Nat PROVE <<>> \in Seq(S) /\ Len(<<>>) <= limit
  OBVIOUS

LEMMA CollectedOK ==
    ASSUME NEW chars \in Seq(Byte), Len(chars) <= CharLimit, NEW ch \in Char
    PROVE  collect(chars, ch) \in Seq(Byte) /\ Len(collect(chars, ch)) <= CharLimit
  <1>1. CASE Len(chars) < CharLimit /\ ch <= 255
    <2>1. ch \in Nat
      BY CharIs
    <2>2. ch \in Byte
      BY <1>1, <2>1 DEF Byte
    <2>. QED
      BY <1>1, <2>2, BytesAreBytes, AppendedWithin DEF collect
  <1>2. CASE ~(Len(chars) < CharLimit /\ ch <= 255)
    BY <1>2 DEF collect
  <1>. QED
    BY <1>1, <1>2

LEMMA CalledOK ==
    ASSUME NEW action, NEW ch \in Char, action = "Execute" => ch \in Controls
    PROVE  LET done == Called(action, ch) IN
           /\ done.fn \in {"none", "Print", "Control", "Escape", "CSI", "OSC"}
           /\ done.fn = "Control" => done.ch \in Byte
  <1>1. CASE action = "Print"
    BY <1>1 DEF Called
  <1>2. CASE action = "Execute"
    BY <1>2 DEF Called, Controls, Byte
  <1>3. CASE action = "Esc_Dispatch"
    <2>1. ch \in 64 .. 95 => ch + 64 \in Byte
      BY DEF Byte
    <2>. QED
      BY <1>3, <2>1 DEF Called, EscCall
  <1>4. CASE action = "CSI_Dispatch"
    BY <1>4 DEF Called
  <1>5. CASE action \notin {"Print", "Execute", "Esc_Dispatch", "CSI_Dispatch"}
    BY <1>5 DEF Called, NoCall
  <1>. QED
    BY <1>1, <1>2, <1>3, <1>4, <1>5

LEMMA ReadCharKeeps == ASSUME TypeOK, ReadChar PROVE TypeOK'
  <1>. DEFINE ch == Head(pending)
              tx == Transition(state, ch)
              done == Called(tx.action, ch)
  <1>1. ch \in Char /\ (pending' \in Seq(Char) /\ Len(pending') <= 2)
    <2>1. pending \in Seq(Char) /\ Len(pending) <= 2 /\ pending # <<>>
      BY TypeParts DEF PendingOK, ReadChar
    <2>2. Head(pending) \in Char /\ Tail(pending) \in Seq(Char)
          /\ Len(Tail(pending)) = Len(pending) - 1 /\ Len(pending) \in Nat
      BY <2>1
    <2>3. Len(Tail(pending)) <= 2
      BY <2>1, <2>2
    <2>. QED
      BY <2>2, <2>3 DEF ReadChar
  <1>2. state \in States /\ TextsOK /\ CallOK
    BY TypeParts
  <1>. HIDE DEF ch
  <1>3. Proper(tx, ch)
    BY <1>1, <1>2, TransitionIsProper
  <1>4. /\ done.fn \in {"none", "Print", "Control", "Escape", "CSI", "OSC"}
        /\ done.fn = "Control" => done.ch \in Byte
    <2>. HIDE DEF tx
    <2>. QED
      BY <1>1, <1>3, CalledOK DEF Proper
  <1>. HIDE DEF tx, done
  <1>5. state' \in States
    BY <1>2, <1>3 DEF ReadChar, Proper, ch, tx
  <1>6. CallOK'
    <2>1. CASE call' = done
      BY <1>4, <2>1 DEF CallOK
    <2>2. CASE call' # done
      <3>1. call' = [fn |-> "OSC", text |-> OSC_string, then |-> done]
        BY <2>2 DEF ReadChar, ch, tx, done
      <3>. QED
        BY <3>1 DEF CallOK
    <2>. QED
      BY <2>1, <2>2
  <1>7. (params \in Seq(ParamChars) /\ Len(params) <= ParamLimit)'
    <2>1. params' \in {<<>>, params}
          \/ (tx.action = "Param" /\ Len(params) < ParamLimit /\ params' = Append(params, ch))
      BY DEF ReadChar, ch, tx
    <2>2. CASE params' \in {<<>>, params}
      BY <1>2, <2>2, BytesAreBytes, EmptyWithin DEF TextsOK
    <2>3. CASE params' \notin {<<>>, params}
      <3>1. ch \in ParamChars
        BY <1>3, <2>1, <2>3 DEF Proper
      <3>. QED
        BY <1>2, <2>1, <2>3, <3>1, BytesAreBytes, AppendedWithin DEF TextsOK
    <2>. QED
      BY <2>2, <2>3
  <1>8. (dispatch_chars \in Seq(Byte) /\ Len(dispatch_chars) <= CharLimit)'
    <2>1. dispatch_chars' \in {<<>>, dispatch_chars, collect(dispatch_chars, ch)}
      BY DEF ReadChar, ch
    <2>2. CASE dispatch_chars' \in {<<>>, dispatch_chars}
      BY <1>2, <2>2, BytesAreBytes, EmptyWithin DEF TextsOK
    <2>3. CASE dispatch_chars' = collect(dispatch_chars, ch)
      BY <1>1, <1>2, <2>3, CollectedOK DEF TextsOK
    <2>. QED
      BY <2>1, <2>2, <2>3
  <1>9. (OSC_string \in Seq(Char) /\ Len(OSC_string) <= TextLimit)'
    <2>1. OSC_string' \in {<<>>, OSC_string}
          \/ (Len(OSC_string) < TextLimit /\ OSC_string' = Append(OSC_string, ch))
      BY DEF ReadChar, ch
    <2>2. CASE OSC_string' \in {<<>>, OSC_string}
      BY <1>2, <2>2, BytesAreBytes, EmptyWithin DEF TextsOK
    <2>3. CASE OSC_string' \notin {<<>>, OSC_string}
      BY <1>1, <1>2, <2>1, <2>3, BytesAreBytes, AppendedWithin DEF TextsOK
    <2>. QED
      BY <2>2, <2>3
  <1>10. BufOK' /\ read' \in 0 .. MaxBytes
    BY TypeParts DEF ReadChar, BufOK
  <1>. QED
    BY <1>1, <1>5, <1>6, <1>7, <1>8, <1>9, <1>10
       DEF TypeOK, BufOK, CallOK, Byte, Char

LEMMA NextKeeps == ASSUME TypeOK, [Next]_vars PROVE TypeOK'
  <1>1. CASE UNCHANGED vars
    BY <1>1 DEF vars, TypeOK
  <1>. QED
    BY <1>1, ReadByteKeeps, ReadCharKeeps DEF Next

\* The decoder's buffer, the parser's state and the dispatcher's strings stay in their bounds, for
\* any bytes and limits: the assertions of parser.cc:79 (the buffer is never full) and
\* terminaldispatcher.cc:55 and 219 (parameters are digits, controls are bytes) hold.
THEOREM TypeInvariant == Spec => []TypeOK
  BY InitHolds, NextKeeps, PTL DEF Spec

\* parser.cc decodes every well-formed character and loses no ASCII byte, whatever broken bytes
\* precede them: for all bytes, not only those of the run.
THEOREM DecodesWell == Spec => Decoding
  <1>1. ASSUME TypeOK PROVE [\A b \in Bytes : ReadByte(b) => WellDecoded(b)]_vars
    <2>1. \A b \in Bytes : ReadByte(b) => WellDecoded(b)
      BY <1>1, BytesAreBytes, TypeParts, ReadByteDecodes
    <2>. QED
      BY <2>1
  <1>. QED
    BY <1>1, TypeInvariant, PTL DEF Decoding, WellDecoded

-----------------------------------------------------------------------------
(* Numbers *)

\* Numbers have a least one.
LEMMA LeastNum ==
    ASSUME NEW T, T \subseteq Nat, T # {}
    PROVE  \E a \in T : \A b \in T : a <= b
  <1>. DEFINE Below(t) == {b \in T : b <= t}
              Family == {Below(t) : t \in T}
  <1>1. ASSUME NEW t \in T PROVE Below(t) \in FiniteSubsetsOf(T)
    <2>1. IsFiniteSet(0 .. t)
      BY FS_Interval, 0 \in Int, t \in Int
    <2>2. Below(t) \subseteq 0 .. t
      <3>1. \A b \in T : b \in Nat /\ (b <= t => b \in 0 .. t)
        OBVIOUS
      <3>. QED
        BY <3>1
    <2>. QED
      BY <2>1, <2>2, FS_Subset DEF FiniteSubsetsOf
  <1>2. Family # {} /\ Family \subseteq FiniteSubsetsOf(T)
    BY <1>1
  <1>3. PICK least \in Family : \A f \in Family : <<f, least>> \notin StrictSubsetOrdering(T)
    BY <1>2, FS_StrictSubsetOrderingWellFounded, WFMin
  <1>4. PICK a \in T : least = Below(a)
    OBVIOUS
  <1>5. ASSUME NEW b \in T, b < a PROVE FALSE
    <2>1. a \in Below(a) /\ a \notin Below(b)
      BY <1>5, a \in Nat, b \in Nat
    <2>2. \A c \in T : c <= b => c <= a
      BY <1>5
    <2>3. <<Below(b), Below(a)>> \in StrictSubsetOrdering(T)
      BY <2>1, <2>2 DEF StrictSubsetOrdering
    <2>. QED
      BY <1>3, <1>4, <2>3
  <1>. QED
    BY <1>5

LEMMA Induction ==
    ASSUME NEW n \in Nat, NEW T, 0 \in T, \A m \in 0 .. n - 1 : m \in T => m + 1 \in T
    PROVE  0 .. n \subseteq T
  <1>. DEFINE U == {m \in 0 .. n : m \notin T}
  <1>. SUFFICES ASSUME U # {} PROVE FALSE
    OBVIOUS
  <1>1. U \subseteq Nat
    OBVIOUS
  <1>. HIDE DEF U
  <1>2. PICK a \in U : \A b \in U : a <= b
    BY <1>1, LeastNum
  <1>3. a \in 0 .. n /\ a \notin T /\ a # 0
    BY <1>2 DEF U
  <1>4. a - 1 \in 0 .. n - 1 /\ a - 1 \in T /\ (a - 1) + 1 = a
    BY <1>2, <1>3 DEF U
  <1>. QED
    BY <1>3, <1>4

-----------------------------------------------------------------------------
(* The characters of a set, and the first of them *)

KeptStep(s, S, r, i) ==
    IF i = 0 THEN <<>> ELSE IF s[i] \in S THEN Append(r[i - 1], s[i]) ELSE r[i - 1]

\* r keeps what is in S of the first n characters of s.
Keeps(s, S, r, n) == r = [i \in 0 .. n |-> KeptStep(s, S, r, i)]

LEMMA KeeperExists ==
    ASSUME NEW s, NEW S, NEW n \in Nat
    PROVE  \E r : Keeps(s, S, r, n)
  <1>. DEFINE T == {m \in 0 .. n : \E r : Keeps(s, S, r, m)}
  <1>1. 0 \in T
    <2>. DEFINE r == [i \in 0 .. 0 |-> <<>>]
    <2>1. \A i \in 0 .. 0 : i = 0 /\ KeptStep(s, S, r, i) = <<>>
      BY DEF KeptStep
    <2>2. Keeps(s, S, r, 0)
      BY <2>1 DEF Keeps
    <2>. QED
      BY <2>2
  <1>2. ASSUME NEW m \in 0 .. n - 1, m \in T PROVE m + 1 \in T
    <2>1. PICK r : Keeps(s, S, r, m)
      BY <1>2
    <2>. DEFINE q == [i \in 0 .. m + 1 |-> IF i = m + 1 THEN KeptStep(s, S, r, i) ELSE r[i]]
    <2>2. ASSUME NEW i \in 0 .. m PROVE q[i] = r[i] /\ r[i] = KeptStep(s, S, r, i)
      <3>1. i \in 0 .. m + 1 /\ i # m + 1
        OBVIOUS
      <3>2. r[i] = KeptStep(s, S, r, i)
        BY <2>1 DEF Keeps
      <3>. QED
        BY <3>1, <3>2
    <2>3. q[m + 1] = KeptStep(s, S, r, m + 1)
      OBVIOUS
    <2>4. q = [i \in 0 .. m + 1 |-> q[i]]
      OBVIOUS
    <2>. HIDE DEF q
    <2>5. ASSUME NEW i \in 0 .. m + 1 PROVE KeptStep(s, S, q, i) = KeptStep(s, S, r, i)
      <3>1. i # 0 => i - 1 \in 0 .. m
        OBVIOUS
      <3>. QED
        BY <2>2, <3>1 DEF KeptStep
    <2>6. ASSUME NEW i \in 0 .. m + 1 PROVE q[i] = KeptStep(s, S, q, i)
      <3>1. i \in 0 .. m \/ i = m + 1
        OBVIOUS
      <3>. QED
        BY <2>2, <2>3, <2>5, <3>1
    <2>7. Keeps(s, S, q, m + 1)
      BY <2>4, <2>6 DEF Keeps
    <2>8. m + 1 \in 0 .. n
      OBVIOUS
    <2>. QED
      BY <2>7, <2>8
  <1>3. 0 .. n \subseteq T
    <2>. HIDE DEF T
    <2>. QED
      BY <1>1, <1>2, Induction
  <1>. QED
    BY <1>3

\* Only, and the function by which it is defined.
LEMMA OnlyFacts ==
    ASSUME NEW s, NEW S, Len(s) \in Nat
    PROVE  \E r : Keeps(s, S, r, Len(s)) /\ Only(s, S) = r[Len(s)]
  <1>. DEFINE R == CHOOSE r : r = [i \in 0 .. Len(s) |->
                      IF i = 0 THEN <<>> ELSE IF s[i] \in S THEN Append(r[i - 1], s[i]) ELSE r[i - 1]]
  <1>1. PICK r : Keeps(s, S, r, Len(s))
    BY KeeperExists
  <1>2. Keeps(s, S, R, Len(s))
    BY <1>1 DEF Keeps, KeptStep
  <1>3. Only(s, S) = R[Len(s)]
    BY DEF Only
  <1>. QED
    BY <1>2, <1>3

LEMMA OnlyType ==
    ASSUME NEW C, NEW s \in Seq(C), NEW S PROVE Only(s, S) \in Seq(C)
  <1>. DEFINE n == Len(s)
  <1>0. n \in Nat /\ \A i \in 1 .. n : s[i] \in C
    OBVIOUS
  <1>1. PICK r : Keeps(s, S, r, n) /\ Only(s, S) = r[n]
    BY <1>0, OnlyFacts
  <1>. DEFINE T == {m \in 0 .. n : r[m] \in Seq(C)}
  <1>. HIDE DEF n
  <1>2. ASSUME NEW m \in 0 .. n PROVE r[m] = KeptStep(s, S, r, m)
    BY <1>1 DEF Keeps
  <1>3. 0 \in T
    <2>1. 0 \in 0 .. n
      BY <1>0
    <2>2. r[0] = <<>>
      BY <1>2, <2>1 DEF KeptStep
    <2>3. <<>> \in Seq(C)
      OBVIOUS
    <2>. QED
      BY <2>1, <2>2, <2>3, Zenon
  <1>4. ASSUME NEW m \in 0 .. n - 1, m \in T PROVE m + 1 \in T
    <2>1. m + 1 \in 0 .. n /\ m + 1 # 0 /\ (m + 1) - 1 = m /\ m + 1 \in 1 .. n
      BY <1>0
    <2>2. r[m] \in Seq(C) /\ s[m + 1] \in C
      BY <1>0, <1>4, <2>1
    <2>3. r[m + 1] \in {Append(r[m], s[m + 1]), r[m]}
      BY <1>2, <2>1 DEF KeptStep
    <2>4. Append(r[m], s[m + 1]) \in Seq(C)
      BY <2>2
    <2>5. r[m + 1] \in Seq(C)
      BY <2>2, <2>3, <2>4, Zenon
    <2>. QED
      BY <2>1, <2>5, Zenon
  <1>5. n \in T
    <2>. HIDE DEF T
    <2>1. 0 .. n \subseteq T
      BY <1>0, <1>3, <1>4, Induction
    <2>. QED
      BY <1>0, <2>1
  <1>. QED
    BY <1>1, <1>5

LEMMA OnlyEmpty == ASSUME NEW S PROVE Only(<<>>, S) = <<>>
  <1>. DEFINE s == <<>>
  <1>1. Len(s) = 0
    OBVIOUS
  <1>. HIDE DEF s
  <1>2. PICK r : Keeps(s, S, r, Len(s)) /\ Only(s, S) = r[Len(s)]
    BY <1>1, OnlyFacts
  <1>3. r = [i \in 0 .. 0 |-> KeptStep(s, S, r, i)]
    BY <1>1, <1>2 DEF Keeps
  <1>4. r[0] = KeptStep(s, S, r, 0)
    BY <1>3
  <1>5. Only(s, S) = <<>>
    BY <1>1, <1>2, <1>4 DEF KeptStep
  <1>. QED
    BY <1>5 DEF s

LEMMA OnlyAppend ==
    ASSUME NEW C, NEW s \in Seq(C), NEW c \in C, NEW S
    PROVE  Only(Append(s, c), S) = IF c \in S THEN Append(Only(s, S), c) ELSE Only(s, S)
  <1>. DEFINE n == Len(s)
              t == Append(s, c)
  <1>0. n \in Nat /\ Len(t) = n + 1 /\ t[n + 1] = c /\ \A i \in 1 .. n : t[i] = s[i]
    OBVIOUS
  <1>1. PICK r : Keeps(s, S, r, n) /\ Only(s, S) = r[n]
    BY <1>0, OnlyFacts
  <1>2. PICK q : Keeps(t, S, q, n + 1) /\ Only(t, S) = q[n + 1]
    <2>. HIDE DEF n, t
    <2>1. n + 1 \in Nat
      BY <1>0
    <2>. QED
      BY <1>0, <2>1, OnlyFacts
  <1>. DEFINE T == {m \in 0 .. n : q[m] = r[m]}
  <1>. HIDE DEF n, t
  <1>3. ASSUME NEW m \in 0 .. n PROVE r[m] = KeptStep(s, S, r, m)
    BY <1>1 DEF Keeps
  <1>4. ASSUME NEW m \in 0 .. n + 1 PROVE q[m] = KeptStep(t, S, q, m)
    BY <1>2 DEF Keeps
  <1>5. 0 \in T
    <2>1. 0 \in 0 .. n /\ 0 \in 0 .. n + 1
      BY <1>0
    <2>2. r[0] = <<>> /\ q[0] = <<>>
      BY <1>3, <1>4, <2>1 DEF KeptStep
    <2>. QED
      BY <2>1, <2>2
  <1>6. ASSUME NEW m \in 0 .. n - 1, m \in T PROVE m + 1 \in T
    <2>1. /\ m + 1 \in 0 .. n /\ m + 1 \in 0 .. n + 1 /\ m + 1 # 0 /\ (m + 1) - 1 = m
          /\ m + 1 \in 1 .. n
      BY <1>0
    <2>2. t[m + 1] = s[m + 1] /\ q[m] = r[m]
      BY <1>0, <1>6, <2>1
    <2>3. KeptStep(t, S, q, m + 1) = KeptStep(s, S, r, m + 1)
      BY <2>1, <2>2 DEF KeptStep
    <2>. QED
      BY <1>3, <1>4, <2>1, <2>3
  <1>7. q[n] = r[n]
    <2>. HIDE DEF T
    <2>1. 0 .. n \subseteq T
      BY <1>0, <1>5, <1>6, Induction
    <2>. QED
      BY <1>0, <2>1 DEF T
  <1>8. n + 1 \in 0 .. n + 1 /\ n + 1 # 0 /\ (n + 1) - 1 = n
    BY <1>0
  <1>9. q[n + 1] = IF c \in S THEN Append(q[n], c) ELSE q[n]
    BY <1>0, <1>4, <1>8 DEF KeptStep
  <1>. QED
    BY <1>1, <1>2, <1>7, <1>9 DEF t

LEMMA FirstAppend ==
    ASSUME NEW C, NEW s \in Seq(C), NEW c \in C, NEW n \in Nat
    PROVE  First_n(Append(s, c), n) =
              IF Len(First_n(s, n)) < n THEN Append(First_n(s, n), c) ELSE First_n(s, n)
  <1>. DEFINE t == Append(s, c)
  <1>0. Len(s) \in Nat /\ t \in Seq(C) /\ Len(t) = Len(s) + 1 /\ t[Len(s) + 1] = c
        /\ \A i \in 1 .. Len(s) : t[i] = s[i]
    OBVIOUS
  <1>1. CASE Len(s) < n
    <2>1. ~(Len(t) < n) => Len(t) = n
      BY <1>0, <1>1
    <2>. HIDE DEF t
    <2>2. First_n(s, n) = SubSeq(s, 1, Len(s)) /\ First_n(t, n) = SubSeq(t, 1, Len(t))
      BY <1>1, <2>1 DEF First_n
    <2>3. First_n(s, n) = s /\ First_n(t, n) = t
      BY <1>0, <2>2
    <2>. QED
      BY <1>1, <2>3 DEF t
  <1>2. CASE ~(Len(s) < n)
    <2>. HIDE DEF t
    <2>1. ~(Len(t) < n) /\ n <= Len(s) /\ n <= Len(t)
      BY <1>0, <1>2
    <2>2. First_n(s, n) = SubSeq(s, 1, n) /\ First_n(t, n) = SubSeq(t, 1, n)
      BY <1>2, <2>1 DEF First_n
    <2>3. Len(SubSeq(s, 1, n)) = n
      BY <2>1
    <2>4. SubSeq(t, 1, n) = SubSeq(s, 1, n)
      BY <1>0, <2>1
    <2>5. ~(n < n)
      OBVIOUS
    <2>. QED
      BY <2>2, <2>3, <2>4, <2>5 DEF t
  <1>. QED
    BY <1>1, <1>2

LEMMA FirstEmpty == ASSUME NEW n \in Nat PROVE First_n(<<>>, n) = <<>>
  <1>. DEFINE s == <<>>
  <1>1. s \in Seq(Char) /\ Len(s) = 0
    OBVIOUS
  <1>. HIDE DEF s
  <1>2. First_n(s, n) = SubSeq(s, 1, 0)
    BY <1>1 DEF First_n
  <1>3. SubSeq(s, 1, 0) = <<>>
    BY <1>1
  <1>. QED
    BY <1>2, <1>3 DEF s

-----------------------------------------------------------------------------
(* The grammar of control sequences *)

\* A private marker at most, then parameters.
Headed(b) ==
    \E i \in 0 .. Len(b) :
        i <= 1 /\ (\A k \in 1 .. i : b[k] \in Private) /\ \A k \in i + 1 .. Len(b) : b[k] \in ParamChars

LEMMA Classes ==
    /\ \A c : c \in ParamChars <=> c \in 48 .. 57 \/ c = 59
    /\ \A c : c \in Private <=> c \in 60 .. 63
    /\ \A c : c \in Intermediate <=> c \in 32 .. 47
  BY DEF ParamChars, Digits, Private, Intermediate

LEMMA ClassesApart ==
    \A c : c \in Intermediate => c \notin ParamChars /\ c \notin Private
  BY Classes

LEMMA HeadedIsWellFormed == ASSUME NEW b \in Seq(Char), Headed(b) PROVE WellFormed(b)
  <1>1. PICK i \in 0 .. Len(b) :
            i <= 1 /\ (\A k \in 1 .. i : b[k] \in Private)
            /\ \A k \in i + 1 .. Len(b) : b[k] \in ParamChars
    BY DEF Headed
  <1>. DEFINE j == Len(b)
  <1>2. j \in 0 .. Len(b) /\ i <= j /\ \A k \in j + 1 .. Len(b) : FALSE
    OBVIOUS
  <1>. QED
    BY <1>1, <1>2 DEF WellFormed

LEMMA HeadedBy ==
    ASSUME NEW b \in Seq(Char), NEW c \in Char,
           (Headed(b) /\ c \in ParamChars) \/ (b = <<>> /\ c \in ParamChars \union Private)
    PROVE  Headed(Append(b, c))
  <1>. DEFINE t == Append(b, c)
              n == Len(b)
  <1>0. n \in Nat /\ Len(t) = n + 1 /\ t[n + 1] = c /\ \A i \in 1 .. n : t[i] = b[i]
    OBVIOUS
  <1>1. CASE Headed(b) /\ c \in ParamChars
    <2>1. PICK i \in 0 .. n :
              i <= 1 /\ (\A k \in 1 .. i : b[k] \in Private) /\ \A k \in i + 1 .. n : b[k] \in ParamChars
      BY <1>1 DEF Headed
    <2>. HIDE DEF t, n
    <2>2. i \in 0 .. Len(t) /\ \A k \in 1 .. i : t[k] \in Private
      BY <1>0, <2>1
    <2>3. \A k \in i + 1 .. Len(t) : t[k] \in ParamChars
      <3>1. \A k \in i + 1 .. Len(t) : k \in i + 1 .. n \/ k = n + 1
        BY <1>0, <2>1
      <3>2. \A k \in i + 1 .. n : k \in 1 .. n
        BY <1>0, <2>1
      <3>. QED
        BY <1>0, <1>1, <2>1, <3>1, <3>2
    <2>4. Headed(t)
      BY <2>1, <2>2, <2>3 DEF Headed
    <2>. QED
      BY <2>4 DEF t
  <1>2. CASE b = <<>> /\ c \in Private
    <2>1. n = 0
      BY <1>2
    <2>. HIDE DEF t, n
    <2>2. /\ Len(t) = 1 /\ 1 \in 0 .. Len(t) /\ 1 <= 1 /\ t[1] = c
          /\ (\A k \in 1 .. 1 : k = 1) /\ \A k \in 1 + 1 .. Len(t) : FALSE
      BY <1>0, <2>1
    <2>3. Headed(t)
      BY <1>2, <2>2 DEF Headed
    <2>. QED
      BY <2>3 DEF t
  <1>3. CASE b = <<>> /\ c \in ParamChars
    <2>1. n = 0
      BY <1>3
    <2>. HIDE DEF t, n
    <2>2. /\ Len(t) = 1 /\ 0 \in 0 .. Len(t) /\ 0 <= 1 /\ t[1] = c
          /\ (\A k \in 1 .. 0 : FALSE) /\ \A k \in 0 + 1 .. Len(t) : k = 1
      BY <1>0, <2>1
    <2>3. Headed(t)
      BY <1>3, <2>2 DEF Headed
    <2>. QED
      BY <2>3 DEF t
  <1>. QED
    BY <1>1, <1>2, <1>3

\* Where the parts of a body end, as WellFormed says.
Shape(b, i, j) ==
    /\ i <= 1 /\ i <= j
    /\ \A k \in 1 .. i : b[k] \in Private
    /\ \A k \in i + 1 .. j : b[k] \in ParamChars
    /\ \A k \in j + 1 .. Len(b) : b[k] \in Intermediate

LEMMA ShapeIs == \A b : WellFormed(b) <=> \E i \in 0 .. Len(b), j \in 0 .. Len(b) : Shape(b, i, j)
  BY DEF WellFormed, Shape

LEMMA IntermediateFollows ==
    ASSUME NEW b \in Seq(Char), NEW c \in Intermediate, WellFormed(b)
    PROVE  WellFormed(Append(b, c))
  <1>. DEFINE t == Append(b, c)
              n == Len(b)
  <1>0. n \in Nat /\ Len(t) = n + 1 /\ t[n + 1] = c /\ \A i \in 1 .. n : t[i] = b[i]
    OBVIOUS
  <1>1. PICK i \in 0 .. n, j \in 0 .. n : Shape(b, i, j)
    BY ShapeIs
  <1>. HIDE DEF t
  <1>2. i <= 1 /\ i <= j
    BY <1>1 DEF Shape
  <1>3. \A k \in 1 .. i : t[k] \in Private
    BY <1>0, <1>1, i <= n DEF Shape
  <1>4. \A k \in i + 1 .. j : t[k] \in ParamChars
    BY <1>0, <1>1, j <= n DEF Shape
  <1>5. \A k \in j + 1 .. Len(t) : t[k] \in Intermediate
    <2>1. \A k \in j + 1 .. Len(t) : (k \in j + 1 .. n /\ k \in 1 .. n) \/ k = n + 1
      BY <1>0
    <2>. QED
      BY <1>0, <1>1, <2>1 DEF Shape
  <1>6. i \in 0 .. Len(t) /\ j \in 0 .. Len(t)
    BY <1>0
  <1>7. Shape(t, i, j)
    BY <1>2, <1>3, <1>4, <1>5 DEF Shape
  <1>. QED
    BY <1>6, <1>7, ShapeIs DEF t

LEMMA PrefixIsWellFormed ==
    ASSUME NEW b \in Seq(Char), NEW c \in Char, WellFormed(Append(b, c))
    PROVE  WellFormed(b)
  <1>. DEFINE t == Append(b, c)
              n == Len(b)
  <1>0. n \in Nat /\ Len(t) = n + 1 /\ t[n + 1] = c /\ \A i \in 1 .. n : t[i] = b[i]
    OBVIOUS
  <1>1. PICK i \in 0 .. n + 1, j \in 0 .. n + 1 : Shape(t, i, j)
    BY <1>0, ShapeIs
  <1>. HIDE DEF t
  <1>. DEFINE least(k) == IF k <= n THEN k ELSE n
  <1>2. least(i) \in 0 .. n /\ least(j) \in 0 .. n /\ least(i) <= i /\ least(j) <= j
    BY <1>0
  <1>3. i <= 1 /\ i <= j
    BY <1>1 DEF Shape
  <1>4. least(i) <= 1 /\ least(i) <= least(j)
    BY <1>0, <1>2, <1>3
  <1>5. \A k \in 1 .. least(i) : b[k] \in Private
    <2>1. \A k \in 1 .. least(i) : k \in 1 .. i /\ k \in 1 .. n
      BY <1>2
    <2>. HIDE DEF least
    <2>. QED
      BY <1>0, <1>1, <2>1 DEF Shape
  <1>6. \A k \in least(i) + 1 .. least(j) : b[k] \in ParamChars
    <2>1. \A k \in least(i) + 1 .. least(j) : k \in i + 1 .. j /\ k \in 1 .. n
      BY <1>0, <1>2
    <2>. HIDE DEF least
    <2>. QED
      BY <1>0, <1>1, <2>1 DEF Shape
  <1>7. \A k \in least(j) + 1 .. n : b[k] \in Intermediate
    <2>1. \A k \in least(j) + 1 .. n : k \in j + 1 .. n + 1 /\ k \in 1 .. n
      BY <1>0, <1>2
    <2>. HIDE DEF least
    <2>. QED
      BY <1>0, <1>1, <2>1 DEF Shape
  <1>. HIDE DEF least
  <1>8. Shape(b, least(i), least(j))
    BY <1>4, <1>5, <1>6, <1>7 DEF Shape
  <1>. QED
    BY <1>2, <1>8, ShapeIs

\* What may follow: a private marker only at the start, a parameter not after an intermediate.
LEMMA LastFits ==
    ASSUME NEW b \in Seq(Char), NEW c \in Char, WellFormed(Append(b, c))
    PROVE  /\ c \in ParamChars \/ c \in Intermediate \/ (b = <<>> /\ c \in Private)
           /\ b # <<>> /\ b[Len(b)] \in Intermediate => c \in Intermediate
  <1>. DEFINE t == Append(b, c)
              n == Len(b)
  <1>0. n \in Nat /\ Len(t) = n + 1 /\ t[n + 1] = c /\ (\A i \in 1 .. n : t[i] = b[i])
        /\ (b # <<>> => n # 0) /\ (b = <<>> <=> n = 0)
    OBVIOUS
  <1>1. PICK i \in 0 .. n + 1, j \in 0 .. n + 1 : Shape(t, i, j)
    BY <1>0, ShapeIs
  <1>. HIDE DEF t, n
  <1>2. i <= 1 /\ i <= j
    BY <1>1 DEF Shape
  <1>3. CASE j <= n
    <2>1. n + 1 \in j + 1 .. n + 1
      BY <1>0, <1>3
    <2>2. c \in Intermediate
      BY <1>0, <1>1, <2>1 DEF Shape
    <2>. QED
      BY <2>2
  <1>4. CASE j = n + 1 /\ i = n + 1
    <2>1. n = 0 /\ n + 1 \in 1 .. i
      BY <1>0, <1>2, <1>4
    <2>2. c \in Private
      BY <1>0, <1>1, <2>1 DEF Shape
    <2>. QED
      BY <1>0, <2>1, <2>2
  <1>5. CASE j = n + 1 /\ i <= n
    <2>1. n + 1 \in i + 1 .. j
      BY <1>0, <1>5
    <2>2. c \in ParamChars
      BY <1>0, <1>1, <2>1 DEF Shape
    <2>3. ASSUME n # 0, b[n] \in Intermediate PROVE FALSE
      <3>1. n \in 1 .. n /\ (n \in 1 .. i \/ n \in i + 1 .. j)
        BY <1>0, <1>5, <2>3
      <3>2. t[n] \in Private \/ t[n] \in ParamChars
        BY <1>1, <3>1 DEF Shape
      <3>3. t[n] \in Intermediate
        BY <1>0, <2>3, <3>1
      <3>. QED
        BY <3>2, <3>3, ClassesApart
    <2>. QED
      BY <1>0, <2>2, <2>3 DEF n
  <1>. QED
    BY <1>0, <1>3, <1>4, <1>5

LEMMA EmptyIsHeaded == Headed(<<>>)
  <1>. DEFINE b == <<>>
  <1>1. Len(b) = 0
    OBVIOUS
  <1>. HIDE DEF b
  <1>2. 0 \in 0 .. Len(b) /\ 0 <= 1 /\ (\A k \in 1 .. 0 : FALSE) /\ \A k \in 0 + 1 .. Len(b) : FALSE
    BY <1>1
  <1>3. Headed(b)
    BY <1>2 DEF Headed
  <1>. QED
    BY <1>3 DEF b

-----------------------------------------------------------------------------
(* What has been read since the introducer *)

StatesOf(k) ==
    CASE k = "Escape" -> {"Escape", "Escape_Intermediate"}
      [] k = "CSI_Entry" -> {"CSI_Entry", "CSI_Param", "CSI_Intermediate", "CSI_Ignore"}
      [] k = "DCS_Entry" -> {"DCS_Entry", "DCS_Param", "DCS_Intermediate",
                             "DCS_Passthrough", "DCS_Ignore"}
      [] k \in {"OSC_String", "SOS_PM_APC_String"} -> {k}
      [] OTHER -> {}

\* The body of a sequence that has not ended.
Sofar == Only(since, Printable \ {127})

Introduction ==
    since \in Seq(Char) /\ (state = "Ground" \/ state \in StatesOf(kind))

\* The state says how much of the body is well formed.
CSIParams(b) == First_n(Only(b, ParamChars), ParamLimit)
CSIKey(b) == First_n(Only(b, Byte \ ParamChars), CharLimit)
CSIAt(s, p, d, b) ==
    /\ s # "CSI_Ignore" => p = CSIParams(b) /\ d = CSIKey(b)
    /\ s = "CSI_Entry" => b = <<>>
    /\ s = "CSI_Param" => b # <<>> /\ Headed(b)
    /\ s = "CSI_Intermediate" => b # <<>> /\ WellFormed(b) /\ b[Len(b)] \in Intermediate
    /\ s = "CSI_Ignore" => ~WellFormed(b)
CSIRead ==
    state \in StatesOf("CSI_Entry") =>
        ~Ends(Final) /\ CSIAt(state, params, dispatch_chars, Sofar)

EscapeRead ==
    state \in StatesOf("Escape") =>
        /\ ~Ends(48 .. 126)
        /\ dispatch_chars = First_n(Only(Sofar, Byte), CharLimit)
        /\ dispatch_chars = <<>> <=> Sofar = <<>>
        /\ state = "Escape" => Sofar = <<>>

GInv == Introduction /\ CSIRead /\ EscapeRead /\ CallsFollowGrammar

LEMMA Limits == ParamLimit \in Nat /\ CharLimit \in Nat /\ CharLimit # 0 /\ TextLimit \in Nat
  BY LimitsAssumption

\* Dispatcher::collect keeps the first characters of those it is given.
LEMMA CollectedFirst ==
    ASSUME NEW b \in Seq(Char), NEW c \in Char, NEW S, c \in S <=> c <= 255
    PROVE  collect(First_n(Only(b, S), CharLimit), c) = First_n(Only(Append(b, c), S), CharLimit)
  <1>. DEFINE o == Only(b, S)
  <1>1. o \in Seq(Char)
    BY OnlyType
  <1>2. Only(Append(b, c), S) = IF c \in S THEN Append(o, c) ELSE o
    BY OnlyAppend
  <1>. HIDE DEF o
  <1>3. First_n(Append(o, c), CharLimit) =
            IF Len(First_n(o, CharLimit)) < CharLimit THEN Append(First_n(o, CharLimit), c)
            ELSE First_n(o, CharLimit)
    BY <1>1, FirstAppend, Limits
  <1>4. collect(First_n(o, CharLimit), c) = First_n(Only(Append(b, c), S), CharLimit)
    BY <1>2, <1>3 DEF collect
  <1>. QED
    BY <1>4 DEF o

LEMMA KeptFirst ==
    ASSUME NEW b \in Seq(Char), NEW c \in Char, NEW S, NEW n \in Nat
    PROVE  First_n(Only(Append(b, c), S), n) =
              IF c \in S /\ Len(First_n(Only(b, S), n)) < n
              THEN Append(First_n(Only(b, S), n), c) ELSE First_n(Only(b, S), n)
  <1>. DEFINE o == Only(b, S)
  <1>1. o \in Seq(Char)
    BY OnlyType
  <1>2. Only(Append(b, c), S) = IF c \in S THEN Append(o, c) ELSE o
    BY OnlyAppend
  <1>. HIDE DEF o
  <1>3. First_n(Append(o, c), n) =
            IF Len(First_n(o, n)) < n THEN Append(First_n(o, n), c) ELSE First_n(o, n)
    BY <1>1, FirstAppend
  <1>4. First_n(Only(Append(b, c), S), n) =
              IF c \in S /\ Len(First_n(o, n)) < n THEN Append(First_n(o, n), c) ELSE First_n(o, n)
    BY <1>2, <1>3
  <1>. QED
    BY <1>4 DEF o

\* The sequence grows by the character read.
Grown(c) ==
    /\ Sofar' = IF c \in Printable \ {127} THEN Append(Sofar, c) ELSE Sofar
    /\ Body' = Sofar
    /\ since' # <<>> /\ since'[Len(since')] = c

LEMMA GrowsBy ==
    ASSUME since \in Seq(Char), NEW c \in Char, since' = Append(since, c)
    PROVE  Grown(c) /\ since' \in Seq(Char) /\ Sofar \in Seq(Char)
  <1>. DEFINE t == Append(since, c)
  <1>0. t \in Seq(Char) /\ Len(t) = Len(since) + 1 /\ Len(since) \in Nat /\ t # <<>>
        /\ t[Len(since) + 1] = c /\ \A i \in 1 .. Len(since) : t[i] = since[i]
    OBVIOUS
  <1>1. Only(t, Printable \ {127}) = IF c \in Printable \ {127} THEN Append(Sofar, c) ELSE Sofar
    BY OnlyAppend DEF Sofar
  <1>. HIDE DEF t
  <1>2. t[Len(t)] = c /\ Len(t) - 1 = Len(since)
    BY <1>0
  <1>3. SubSeq(t, 1, Len(t) - 1) = since
    BY <1>0, <1>2
  <1>4. since' = t
    BY DEF t
  <1>5. Sofar' = IF c \in Printable \ {127} THEN Append(Sofar, c) ELSE Sofar
    BY <1>1, <1>4 DEF Sofar
  <1>6. Body' = Sofar
    BY <1>3, <1>4 DEF Body, Sofar
  <1>. QED
    BY <1>0, <1>2, <1>4, <1>5, <1>6, OnlyType DEF Grown, Sofar

-----------------------------------------------------------------------------
(* The transitions *)

\* What a character may be: a control that cuts off any sequence, or one of these.
LEMMA CharClasses ==
    ASSUME NEW c \in Char, ~IsAnywhere(c)
    PROVE  \/ C0_prime(c) /\ c < 32
           \/ c \in 32 .. 63
           \/ c \in 64 .. 126
           \/ c = 127
           \/ c >= 160
  <1>1. c \in Nat
    BY CharIs
  <1>. QED
    BY <1>1 DEF IsAnywhere, C0_prime

\* What a transition does, and where it leads.
Leads(tx, action, next) == tx.action = action /\ tx.next = next

LEMMA StepFacts ==
    /\ \A a, n : Leads(To(a, n), a, n)
    /\ \A a : Leads(Stay(a), a, "")
    /\ Leads(Ignore, "Ignore", "")
  BY DEF To, Stay, Ignore, Leads

Like(c) == IF c >= 160 THEN 65 ELSE c

LEMMA AnywhereFacts ==
    ASSUME NEW c \in Char, IsAnywhere(c), NEW s
    PROVE  LET tx == Transition(s, c) IN
           /\ tx.next \in Introduced \/ tx.next = "Ground"
           /\ tx.action = "Ignore" \/ (tx.action = "Execute" /\ tx.next = "Ground")
           /\ c \notin Final /\ c < 160
  <1>1. Transition(s, c) = anywhere_rule(c)
    BY DEF Transition
  <1>2. c \in {24, 26, 27} \union (128 .. 159)
    BY DEF IsAnywhere
  <1>3. c \notin Final /\ c < 160
    BY <1>2 DEF Final
  <1>. QED
    BY <1>1, <1>3 DEF anywhere_rule, To, Introduced, Entries

LEMMA CSIFacts ==
    ASSUME NEW c \in Char, ~IsAnywhere(c),
           NEW part \in {"Entry", "Param", "Intermediate", "Ignore"}
    PROVE  LET tx == CSIRule(part, Like(c))
               next == [Param |-> "CSI_Param", Intermediate |-> "CSI_Intermediate",
                        Ignore |-> "CSI_Ignore"] IN
           /\ c \in Final \/ c >= 160 =>
                 Leads(tx, IF part = "Ignore" THEN "Ignore" ELSE "CSI_Dispatch", "Ground")
           /\ c \in 32 .. 63 => tx = IF part = "Ignore" THEN Ignore ELSE Header(next, part, c)
           /\ c < 32 \/ c = 127 => Leads(tx, "Execute", "") \/ Leads(tx, "Ignore", "")
  <1>1. c \in Nat
    BY CharIs
  <1>2. CASE c >= 160
    <2>1. Like(c) = 65 /\ ~C0_prime(65) /\ 65 \in Final /\ c \notin 32 .. 63 /\ ~(c < 32 \/ c = 127)
      BY <1>1, <1>2 DEF Like, C0_prime, Final
    <2>2. CSIRule(part, 65) = To(IF part = "Ignore" THEN "Ignore" ELSE "CSI_Dispatch", "Ground")
      BY <2>1 DEF CSIRule
    <2>. QED
      BY <2>1, <2>2, StepFacts
  <1>3. CASE c \in Final
    <2>1. Like(c) = c /\ ~C0_prime(c) /\ c \notin 32 .. 63 /\ ~(c < 32 \/ c = 127)
      BY <1>1, <1>3 DEF Like, C0_prime, Final
    <2>2. CSIRule(part, c) = To(IF part = "Ignore" THEN "Ignore" ELSE "CSI_Dispatch", "Ground")
      BY <1>3, <2>1 DEF CSIRule
    <2>. QED
      BY <2>1, <2>2, StepFacts
  <1>4. CASE c \in 32 .. 63
    <2>1. /\ Like(c) = c /\ ~C0_prime(c) /\ c \notin Final /\ ~(c < 32 \/ c = 127)
          /\ ~(c >= 160)
      BY <1>1, <1>4 DEF Like, C0_prime, Final
    <2>. QED
      BY <2>1, StepFacts DEF CSIRule
  <1>5. CASE c = 127
    <2>1. /\ Like(c) = c /\ ~C0_prime(c) /\ c \notin Final /\ c \notin 32 .. 63 /\ ~(c >= 160)
          /\ c \notin ParamChars /\ c \notin Private /\ c \notin Intermediate /\ c \notin 48 .. 63
      BY <1>5, Classes DEF Like, C0_prime, Final
    <2>. QED
      <3>1. CSIRule(part, Like(c)) = Ignore
        BY <2>1 DEF CSIRule, Header
      <3>. QED
        BY <2>1, <3>1, StepFacts
  <1>6. CASE c < 32
    <2>1. /\ C0_prime(c) /\ Like(c) = c /\ c \notin Final /\ c \notin 32 .. 63 /\ ~(c >= 160)
      BY <1>1, <1>6, CharClasses DEF Like, Final
    <2>. QED
      BY <2>1, StepFacts DEF CSIRule
  <1>7. c \in Final <=> c \in 64 .. 126
    BY DEF Final
  <1>. QED
    BY <1>2, <1>3, <1>4, <1>5, <1>6, <1>7, CharClasses

\* The header's four outcomes.
LEMMA HeaderFacts ==
    ASSUME NEW c \in 32 .. 63, NEW next, NEW part
    PROVE  \/ c \in ParamChars /\ part # "Intermediate" /\ Leads(Header(next, part, c), "Param", next.Param)
           \/ c \in Private /\ part = "Entry" /\ Leads(Header(next, part, c), "Collect", next.Param)
           \/ c \in Intermediate /\ Leads(Header(next, part, c), "Collect", next.Intermediate)
           \/ /\ c \notin Intermediate /\ (part = "Intermediate" \/ c \notin ParamChars)
              /\ part = "Entry" => c \notin Private
              /\ Leads(Header(next, part, c), "Ignore", next.Ignore)
  <1>1. c \in 48 .. 63 <=> c \notin Intermediate
    BY DEF Intermediate
  <1>2. c \in Intermediate => c \notin ParamChars /\ c \notin Private
    BY Classes
  <1>3. c \in ParamChars => c \notin Private
    BY Classes
  <1>. QED
    BY <1>1, <1>2, <1>3, StepFacts DEF Header

LEMMA StateRules ==
    ASSUME NEW c \in Char, ~IsAnywhere(c)
    PROVE  /\ Transition("Ground", c) = GroundRule(Like(c))
           /\ Transition("Escape", c) = EscapeRule(Like(c))
           /\ Transition("Escape_Intermediate", c) = EscapeIntermediateRule(Like(c))
           /\ Transition("CSI_Entry", c) = CSIRule("Entry", Like(c))
           /\ Transition("CSI_Param", c) = CSIRule("Param", Like(c))
           /\ Transition("CSI_Intermediate", c) = CSIRule("Intermediate", Like(c))
           /\ Transition("CSI_Ignore", c) = CSIRule("Ignore", Like(c))
           /\ Transition("DCS_Entry", c) = DCSRule("Entry", Like(c))
           /\ Transition("DCS_Param", c) = DCSRule("Param", Like(c))
           /\ Transition("DCS_Intermediate", c) = DCSRule("Intermediate", Like(c))
           /\ Transition("OSC_String", c) = OSCRule(Like(c))
           /\ \A s \in {"DCS_Passthrough", "DCS_Ignore", "SOS_PM_APC_String"} : Transition(s, c) = Ignore
  BY DEF Transition, Like

LEMMA PrintableIs == \A c \in Char : c \in Printable <=> c >= 32
  <1>1. \A c \in Char : c \in Nat /\ c <= LastChar
    <2>1. LastChar \in Nat
      BY DEF LastChar
    <2>. QED
      BY <2>1 DEF Char
  <1>2. LastChar \in Nat
    BY DEF LastChar
  <1>. QED
    BY <1>1, <1>2 DEF Printable

LEMMA EscapeFacts ==
    ASSUME NEW c \in Char, ~IsAnywhere(c)
    PROVE  LET tx == EscapeRule(Like(c)) IN
           /\ c < 32 => Leads(tx, "Execute", "")
           /\ c \in Intermediate => Leads(tx, "Collect", "Escape_Intermediate")
           /\ c \in 48 .. 126 => Leads(tx, "Esc_Dispatch", "Ground")
                                 \/ \E next \in Introduced : Leads(tx, "Ignore", next)
           /\ c >= 160 => Leads(tx, "Esc_Dispatch", "Ground")
           /\ c = 127 => Leads(tx, "Ignore", "")
  <1>1. c \in Nat
    BY CharIs
  <1>2. CASE c < 32
    <2>1. C0_prime(c) /\ Like(c) = c /\ c \notin 48 .. 126 /\ c \notin Intermediate /\ c # 127
          /\ ~(c >= 160)
      BY <1>1, <1>2, CharClasses DEF Like, Intermediate
    <2>2. EscapeRule(Like(c)) = Stay("Execute")
      BY <2>1 DEF EscapeRule
    <2>. QED
      BY <2>1, <2>2, StepFacts
  <1>3. CASE c \in Intermediate
    <2>1. /\ ~C0_prime(c) /\ Like(c) = c /\ c \notin 48 .. 126 /\ ~(c < 32) /\ c # 127
          /\ ~(c >= 160)
      BY <1>1, <1>3 DEF Like, Intermediate, C0_prime
    <2>2. EscapeRule(Like(c)) = To("Collect", "Escape_Intermediate")
      BY <1>3, <2>1 DEF EscapeRule
    <2>. QED
      BY <2>1, <2>2, StepFacts
  <1>4. CASE c \in 48 .. 126
    <2>1. /\ ~C0_prime(c) /\ Like(c) = c /\ c \notin Intermediate /\ ~(c < 32) /\ c # 127
          /\ ~(c >= 160)
      BY <1>1, <1>4 DEF Like, Intermediate, C0_prime
    <2>2. \/ EscapeRule(c) = To("Ignore", "CSI_Entry")
          \/ EscapeRule(c) = To("Ignore", "OSC_String")
          \/ EscapeRule(c) = To("Ignore", "DCS_Entry")
          \/ EscapeRule(c) = To("Ignore", "SOS_PM_APC_String")
          \/ EscapeRule(c) = To("Esc_Dispatch", "Ground")
      <3>1. \/ c = 91 \/ c = 93 \/ c = 80 \/ c \in {88, 94, 95}
            \/ c \in (48 .. 126) \ {80, 88, 91, 93, 94, 95}
        BY <1>4
      <3>. QED
        BY <2>1, <3>1 DEF EscapeRule
    <2>3. {"CSI_Entry", "OSC_String", "DCS_Entry", "SOS_PM_APC_String"} \subseteq Introduced
      BY DEF Introduced, Entries
    <2>. QED
      BY <2>1, <2>2, <2>3, StepFacts
  <1>5. CASE c = 127
    <2>1. /\ ~C0_prime(c) /\ Like(c) = c /\ c \notin Intermediate /\ ~(c < 32)
          /\ c \notin 48 .. 126 /\ ~(c >= 160)
      BY <1>5 DEF Like, Intermediate, C0_prime
    <2>2. EscapeRule(Like(c)) = Ignore
      BY <1>5, <2>1 DEF EscapeRule
    <2>. QED
      BY <2>1, <2>2, StepFacts
  <1>6. CASE c >= 160
    <2>1. /\ ~C0_prime(65) /\ Like(c) = 65 /\ c \notin Intermediate /\ 65 \notin Intermediate
          /\ ~(c < 32) /\ c \notin 48 .. 126 /\ c # 127
      BY <1>1, <1>6 DEF Like, Intermediate, C0_prime
    <2>2. EscapeRule(Like(c)) = To("Esc_Dispatch", "Ground")
      BY <2>1, <1>6 DEF EscapeRule
    <2>. QED
      BY <2>1, <2>2, StepFacts
  <1>7. c \in 32 .. 63 => c \in Intermediate \/ c \in 48 .. 126
    BY DEF Intermediate
  <1>8. c \in 64 .. 126 => c \in 48 .. 126
    OBVIOUS
  <1>. QED
    BY <1>2, <1>3, <1>4, <1>5, <1>6, <1>7, <1>8, CharClasses

LEMMA EscapeIntermediateFacts ==
    ASSUME NEW c \in Char, ~IsAnywhere(c)
    PROVE  LET tx == EscapeIntermediateRule(Like(c)) IN
           /\ c < 32 => Leads(tx, "Execute", "")
           /\ c \in Intermediate => Leads(tx, "Collect", "")
           /\ c \in 48 .. 126 \/ c >= 160 => Leads(tx, "Esc_Dispatch", "Ground")
           /\ c = 127 => Leads(tx, "Ignore", "")
  <1>1. c \in Nat
    BY CharIs
  <1>2. CASE c < 32
    <2>1. C0_prime(c) /\ Like(c) = c /\ c \notin 48 .. 126 /\ c \notin Intermediate /\ c # 127
          /\ ~(c >= 160)
      BY <1>1, <1>2, CharClasses DEF Like, Intermediate
    <2>. QED
      BY <2>1, StepFacts DEF EscapeIntermediateRule
  <1>3. CASE c \in Intermediate
    <2>1. /\ ~C0_prime(c) /\ Like(c) = c /\ c \notin 48 .. 126 /\ ~(c < 32) /\ c # 127
          /\ ~(c >= 160)
      BY <1>1, <1>3 DEF Like, Intermediate, C0_prime
    <2>. QED
      BY <1>3, <2>1, StepFacts DEF EscapeIntermediateRule
  <1>4. CASE c \in 48 .. 126 \/ c >= 160
    <2>1. /\ ~C0_prime(Like(c)) /\ Like(c) \notin Intermediate /\ Like(c) \in 48 .. 126
          /\ ~(c < 32) /\ c # 127 /\ c \notin Intermediate
      BY <1>1, <1>4 DEF Like, Intermediate, C0_prime
    <2>. QED
      BY <2>1, StepFacts DEF EscapeIntermediateRule
  <1>5. CASE c = 127
    <2>1. /\ ~C0_prime(c) /\ Like(c) = c /\ c \notin Intermediate /\ ~(c < 32)
          /\ c \notin 48 .. 126 /\ ~(c >= 160)
      BY <1>5 DEF Like, Intermediate, C0_prime
    <2>. QED
      BY <1>5, <2>1, StepFacts DEF EscapeIntermediateRule
  <1>6. c \in 32 .. 63 => c \in Intermediate \/ c \in 48 .. 126
    BY DEF Intermediate
  <1>7. c \in 64 .. 126 => c \in 48 .. 126
    OBVIOUS
  <1>. QED
    BY <1>2, <1>3, <1>4, <1>5, <1>6, <1>7, CharClasses

LEMMA OSCFacts ==
    ASSUME NEW c \in Char, ~IsAnywhere(c)
    PROVE  LET tx == OSCRule(Like(c)) IN
           /\ c \in Printable => Leads(tx, "OSC_Put", "")
           /\ c \notin Printable => Leads(tx, "Ignore", "") \/ Leads(tx, "Ignore", "Ground")
  <1>0. c \in Nat /\ c <= 65535
    BY CharIs
  <1>1. c \in Nat /\ (c \in Printable <=> c >= 32)
    BY <1>0, PrintableIs
  <1>2. CASE c < 32
    <2>1. Like(c) = c /\ c \notin 32 .. 127 /\ c \notin Printable
      BY <1>1, <1>2 DEF Like
    <2>. QED
      BY <2>1, StepFacts DEF OSCRule
  <1>3. CASE c \in 32 .. 127 \/ c >= 160
    <2>1. Like(c) \in 32 .. 127 /\ c \in Printable
      BY <1>1, <1>3 DEF Like
    <2>. QED
      BY <2>1, StepFacts DEF OSCRule
  <1>4. c < 32 \/ c \in 32 .. 127 \/ c >= 160
    BY <1>1, CharClasses
  <1>. QED
    BY <1>2, <1>3, <1>4

LEMMA DCSFacts ==
    ASSUME NEW c \in Char, ~IsAnywhere(c), NEW s \in StatesOf("DCS_Entry")
    PROVE  LET tx == Transition(s, c) IN
           /\ tx.next \in (StatesOf("DCS_Entry") \ {"DCS_Entry"}) \union {""}
           /\ tx.action \in {"Ignore", "Param", "Collect"}
  <1>1. ASSUME NEW part, NEW l
        PROVE  LET tx == DCSRule(part, l) IN
               /\ tx.next \in (StatesOf("DCS_Entry") \ {"DCS_Entry"}) \union {""}
               /\ tx.action \in {"Ignore", "Param", "Collect"}
    <2>1. {"DCS_Passthrough", "DCS_Param", "DCS_Intermediate", "DCS_Ignore"} \subseteq
             StatesOf("DCS_Entry") \ {"DCS_Entry"}
      BY DEF StatesOf
    <2>. QED
      BY <2>1 DEF DCSRule, Header, To, Stay, Ignore
  <1>2. \/ \E part, l : Transition(s, c) = DCSRule(part, l)
        \/ Transition(s, c) = Ignore
    <2>1. s \in {"DCS_Entry", "DCS_Param", "DCS_Intermediate", "DCS_Passthrough", "DCS_Ignore"}
      BY DEF StatesOf
    <2>. QED
      BY <2>1, StateRules
  <1>3. CASE \E part, l : Transition(s, c) = DCSRule(part, l)
    BY <1>1, <1>3
  <1>4. CASE Transition(s, c) = Ignore
    BY <1>4, StepFacts DEF Leads
  <1>. QED
    BY <1>2, <1>3, <1>4

LEMMA StatesAre ==
    /\ StatesOf("Escape") = {"Escape", "Escape_Intermediate"}
    /\ StatesOf("CSI_Entry") = {"CSI_Entry", "CSI_Param", "CSI_Intermediate", "CSI_Ignore"}
    /\ StatesOf("DCS_Entry") = {"DCS_Entry", "DCS_Param", "DCS_Intermediate",
                                "DCS_Passthrough", "DCS_Ignore"}
    /\ StatesOf("OSC_String") = {"OSC_String"}
    /\ StatesOf("SOS_PM_APC_String") = {"SOS_PM_APC_String"}
    /\ \A k : k \notin Introduced => StatesOf(k) = {}
    /\ Introduced = {"Escape", "CSI_Entry", "DCS_Entry", "OSC_String", "SOS_PM_APC_String"}
  <1>1. Introduced = {"Escape", "CSI_Entry", "DCS_Entry", "OSC_String", "SOS_PM_APC_String"}
    BY DEF Introduced, Entries
  <1>2. ASSUME NEW k, k \notin Introduced PROVE StatesOf(k) = {}
    BY <1>1, <1>2 DEF StatesOf
  <1>3. StatesOf("Escape") = {"Escape", "Escape_Intermediate"}
    BY DEF StatesOf
  <1>4. StatesOf("CSI_Entry") = {"CSI_Entry", "CSI_Param", "CSI_Intermediate", "CSI_Ignore"}
    BY DEF StatesOf
  <1>5. StatesOf("DCS_Entry") = {"DCS_Entry", "DCS_Param", "DCS_Intermediate",
                                "DCS_Passthrough", "DCS_Ignore"}
    BY DEF StatesOf
  <1>6. StatesOf("OSC_String") = {"OSC_String"}
    BY DEF StatesOf
  <1>7. StatesOf("SOS_PM_APC_String") = {"SOS_PM_APC_String"}
    BY DEF StatesOf
  <1>. QED
    BY <1>1, <1>2, <1>3, <1>4, <1>5, <1>6, <1>7

LEMMA StatesApart ==
    /\ \A k, s : s \in StatesOf(k) => s \notin Introduced \/ s = k
    /\ "Ground" \notin Introduced /\ "" \notin Introduced
    /\ \A k \in Introduced : k \in StatesOf(k)
    /\ \A k : "Ground" \notin StatesOf(k) /\ "" \notin StatesOf(k)
    /\ \A k, l, s : s \in StatesOf(k) /\ s \in StatesOf(l) => k = l
  <1>1. \A k : k \in Introduced \/ StatesOf(k) = {}
    BY StatesAre
  <1>2. ASSUME NEW k, NEW s, s \in StatesOf(k) PROVE s \notin Introduced \/ s = k
    BY <1>1, <1>2, StatesAre
  <1>3. ASSUME NEW k PROVE "Ground" \notin StatesOf(k) /\ "" \notin StatesOf(k)
    <2>1. CASE StatesOf(k) = {}
      BY <2>1
    <2>2. CASE k \in Introduced
      <3>1. \/ k = "Escape" \/ k = "CSI_Entry" \/ k = "DCS_Entry" \/ k = "OSC_String"
            \/ k = "SOS_PM_APC_String"
        BY <2>2, StatesAre
      <3>2. /\ "Ground" \notin StatesOf("Escape") /\ "" \notin StatesOf("Escape")
            /\ "Ground" \notin StatesOf("CSI_Entry") /\ "" \notin StatesOf("CSI_Entry")
            /\ "Ground" \notin StatesOf("DCS_Entry") /\ "" \notin StatesOf("DCS_Entry")
            /\ "Ground" \notin StatesOf("OSC_String") /\ "" \notin StatesOf("OSC_String")
            /\ "Ground" \notin StatesOf("SOS_PM_APC_String") /\ "" \notin StatesOf("SOS_PM_APC_String")
        BY StatesAre
      <3>. QED
        BY <3>1, <3>2
    <2>. QED
      BY <1>1, <2>1, <2>2
  <1>4. ASSUME NEW k, NEW l, NEW s, s \in StatesOf(k), s \in StatesOf(l) PROVE k = l
    <2>1. k \in Introduced /\ l \in Introduced
      BY <1>1, <1>4
    <2>. QED
      BY <1>4, <2>1, StatesAre
  <1>5. \A k \in Introduced : k \in StatesOf(k)
    BY StatesAre
  <1>. QED
    BY <1>2, <1>3, <1>4, <1>5, StatesAre

LEMMA StateKinds ==
    ASSUME NEW s \in States
    PROVE  \/ s = "Ground" \/ s \in StatesOf("Escape") \/ s \in StatesOf("CSI_Entry")
           \/ s \in StatesOf("DCS_Entry") \/ s = "OSC_String" \/ s = "SOS_PM_APC_String"
  BY StatesAre DEF States

\* What can follow a state of a control sequence that is not cut off.
LEMMA CSINext ==
    ASSUME NEW c \in Char, ~IsAnywhere(c), NEW part \in {"Entry", "Param", "Intermediate", "Ignore"}
    PROVE  CSIRule(part, Like(c)).next
              \in {"", "Ground", "CSI_Param", "CSI_Intermediate", "CSI_Ignore"}
  <1>. DEFINE next == [Param |-> "CSI_Param", Intermediate |-> "CSI_Intermediate",
                       Ignore |-> "CSI_Ignore"]
  <1>1. c \in 32 .. 63 => Header(next, part, c).next \in {"CSI_Param", "CSI_Intermediate", "CSI_Ignore"}
    <2>1. /\ next.Param = "CSI_Param" /\ next.Intermediate = "CSI_Intermediate"
          /\ next.Ignore = "CSI_Ignore"
      OBVIOUS
    <2>. HIDE DEF next
    <2>. QED
      BY <2>1, HeaderFacts DEF Leads
  <1>2. CASE c \in 32 .. 63
    <2>1. CSIRule(part, Like(c)) = Ignore \/ CSIRule(part, Like(c)) = Header(next, part, c)
      BY <1>2, CSIFacts
    <2>2. Ignore.next = ""
      BY StepFacts DEF Leads
    <2>. HIDE DEF next
    <2>. QED
      BY <1>1, <1>2, <2>1, <2>2
  <1>3. CASE c \in Final \/ c >= 160
    <2>1. \E a : Leads(CSIRule(part, Like(c)), a, "Ground")
      BY <1>3, CSIFacts
    <2>. QED
      BY <2>1 DEF Leads
  <1>4. CASE c < 32 \/ c = 127
    <2>1. \E a : Leads(CSIRule(part, Like(c)), a, "")
      BY <1>4, CSIFacts
    <2>. QED
      BY <2>1 DEF Leads
  <1>5. c \in 64 .. 126 <=> c \in Final
    BY DEF Final
  <1>. QED
    BY <1>2, <1>3, <1>4, <1>5, CharClasses

LEMMA CSIStates ==
    ASSUME NEW s \in StatesOf("CSI_Entry")
    PROVE  s \in {"CSI_Entry", "CSI_Param", "CSI_Intermediate", "CSI_Ignore"}
  BY DEF StatesOf

\* An introducer is only ever read as one, and leaves nothing else done.
LEMMA EntersQuietly ==
    ASSUME NEW c \in Char, NEW s \in States, Transition(s, c).next \in Introduced
    PROVE  Transition(s, c).action = "Ignore"
  <1>1. CASE IsAnywhere(c)
    BY <1>1, AnywhereFacts, StatesApart
  <1>2. CASE ~IsAnywhere(c) /\ s = "Ground"
    <2>1. \/ Transition(s, c) = Stay("Execute") \/ Transition(s, c) = Stay("Print")
          \/ Transition(s, c) = Ignore
      BY <1>2, StateRules DEF GroundRule
    <2>2. Transition(s, c).next = ""
      BY <2>1, StepFacts DEF Leads
    <2>. QED
      BY <2>2, StatesApart
  <1>3. CASE ~IsAnywhere(c) /\ s \in StatesOf("Escape")
    <2>1. s \in {"Escape", "Escape_Intermediate"}
      BY <1>3 DEF StatesOf
    <2>2. "Escape_Intermediate" \notin Introduced
      BY DEF Introduced, Entries
    <2>3. c < 32 \/ c \in Intermediate \/ c \in 48 .. 126 \/ c >= 160 \/ c = 127
      <3>1. c \in 32 .. 63 => c \in Intermediate \/ c \in 48 .. 126
        BY DEF Intermediate
      <3>2. c \in 64 .. 126 => c \in 48 .. 126
        OBVIOUS
      <3>. QED
        BY <1>3, <3>1, <3>2, CharClasses
    <2>4. CASE s = "Escape"
      <3>1. Transition(s, c) = EscapeRule(Like(c))
        BY <1>3, <2>4, StateRules
      <3>2. \/ Leads(EscapeRule(Like(c)), "Execute", "")
            \/ Leads(EscapeRule(Like(c)), "Collect", "Escape_Intermediate")
            \/ Leads(EscapeRule(Like(c)), "Esc_Dispatch", "Ground")
            \/ EscapeRule(Like(c)).action = "Ignore"
        <4>1. CASE c \in 48 .. 126
          <5>1. Leads(EscapeRule(Like(c)), "Esc_Dispatch", "Ground")
                \/ \E next \in Introduced : Leads(EscapeRule(Like(c)), "Ignore", next)
            BY <1>3, <4>1, EscapeFacts
          <5>. QED
            BY <5>1 DEF Leads
        <4>2. CASE c = 127
          <5>1. Leads(EscapeRule(Like(c)), "Ignore", "")
            BY <1>3, <4>2, EscapeFacts
          <5>. QED
            BY <5>1 DEF Leads
        <4>3. CASE c < 32 \/ c \in Intermediate \/ c >= 160
          <5>1. /\ c < 32 => Leads(EscapeRule(Like(c)), "Execute", "")
                /\ c \in Intermediate => Leads(EscapeRule(Like(c)), "Collect", "Escape_Intermediate")
                /\ c >= 160 => Leads(EscapeRule(Like(c)), "Esc_Dispatch", "Ground")
            BY <1>3, EscapeFacts
          <5>. QED
            BY <4>3, <5>1
        <4>. QED
          BY <2>3, <4>1, <4>2, <4>3
      <3>. QED
        BY <2>2, <3>1, <3>2, StatesApart DEF Leads
    <2>5. CASE s = "Escape_Intermediate"
      <3>1. Transition(s, c) = EscapeIntermediateRule(Like(c))
        BY <1>3, <2>5, StateRules
      <3>2. \/ Leads(EscapeIntermediateRule(Like(c)), "Execute", "")
            \/ Leads(EscapeIntermediateRule(Like(c)), "Collect", "")
            \/ Leads(EscapeIntermediateRule(Like(c)), "Esc_Dispatch", "Ground")
            \/ Leads(EscapeIntermediateRule(Like(c)), "Ignore", "")
        BY <1>3, <2>3, EscapeIntermediateFacts
      <3>. QED
        BY <3>1, <3>2, StatesApart DEF Leads
    <2>. QED
      BY <2>1, <2>4, <2>5
  <1>4. CASE ~IsAnywhere(c) /\ s \in StatesOf("CSI_Entry")
    <2>1. Transition(s, c).next \in {"", "Ground", "CSI_Param", "CSI_Intermediate", "CSI_Ignore"}
      BY <1>4, CSIStates, StateRules, CSINext
    <2>2. {"", "Ground", "CSI_Param", "CSI_Intermediate", "CSI_Ignore"} \cap Introduced = {}
      BY DEF Introduced, Entries
    <2>. QED
      BY <2>1, <2>2
  <1>5. CASE ~IsAnywhere(c) /\ s \in StatesOf("DCS_Entry")
    BY <1>5, DCSFacts, StatesApart
  <1>6. CASE ~IsAnywhere(c) /\ s = "OSC_String"
    <2>1. c \in Printable \/ c \notin Printable
      OBVIOUS
    <2>. QED
      BY <1>6, <2>1, StateRules, OSCFacts, StatesApart DEF Leads
  <1>7. CASE ~IsAnywhere(c) /\ s = "SOS_PM_APC_String"
    BY <1>7, StateRules, StatesApart, StepFacts DEF Leads
  <1>. QED
    BY <1>1, <1>2, <1>3, <1>4, <1>5, <1>6, <1>7, StateKinds

-----------------------------------------------------------------------------
(* One character *)

Next_ch == Head(pending)
Tx == Transition(state, Next_ch)
Done == Called(Tx.action, Next_ch)

\* ReadChar, with its transition named.
LEMMA ReadCharIs ==
    ASSUME ReadChar
    PROVE  /\ state' = IF Tx.next = "" THEN state ELSE Tx.next
           /\ call' = IF state = "OSC_String" /\ Tx.next # ""
                      THEN [fn |-> "OSC", text |-> OSC_string, then |-> Done] ELSE Done
           /\ params' = IF Tx.next \in Entries THEN <<>>
                        ELSE IF Tx.action = "Param" /\ Len(params) < ParamLimit
                        THEN Append(params, Next_ch) ELSE params
           /\ dispatch_chars' =
                IF Tx.next \in Entries THEN <<>>
                ELSE IF Tx.action \in {"Collect", "Esc_Dispatch", "CSI_Dispatch"}
                        /\ Done.fn # "Control"
                     THEN collect(dispatch_chars, Next_ch) ELSE dispatch_chars
           /\ OSC_string' = IF Tx.next = "OSC_String" THEN <<>>
                            ELSE IF Tx.action = "OSC_Put" /\ Len(OSC_string) < TextLimit
                            THEN Append(OSC_string, Next_ch) ELSE OSC_string
           /\ kind' = IF Tx.next \in Introduced THEN Tx.next
                      ELSE IF state = "Ground" THEN "Ground" ELSE kind
           /\ since' = IF Tx.next \in Introduced \/ state = "Ground" THEN <<>>
                       ELSE Append(since, Next_ch)
  BY DEF ReadChar, Next_ch, Tx, Done

LEMMA DoneFacts ==
    /\ Done.fn # "OSC"
    /\ Tx.action \in {"Ignore", "Collect", "Param", "OSC_Put"} => Done = NoCall /\ Done.fn = "none"
  <1>1. Tx.action \in {"Ignore", "Collect", "Param", "OSC_Put"} => Done = NoCall
    BY DEF Done, Called
  <1>2. NoCall.fn = "none"
    BY DEF NoCall
  <1>3. Done.fn # "OSC"
    <2>1. CASE Tx.action = "Print"
      BY <2>1 DEF Done, Called
    <2>2. CASE Tx.action = "Execute"
      BY <2>2 DEF Done, Called
    <2>3. CASE Tx.action = "Esc_Dispatch"
      BY <2>3 DEF Done, Called, EscCall
    <2>4. CASE Tx.action = "CSI_Dispatch"
      BY <2>4 DEF Done, Called
    <2>5. CASE Tx.action \notin {"Print", "Execute", "Esc_Dispatch", "CSI_Dispatch"}
      BY <2>5, <1>2 DEF Done, Called
    <2>. QED
      BY <2>1, <2>2, <2>3, <2>4, <2>5
  <1>. QED
    BY <1>1, <1>2, <1>3

LEMMA ReadFrom ==
    ASSUME TypeOK, ReadChar PROVE Next_ch \in Char /\ state \in States
  <1>1. pending \in Seq(Char) /\ pending # <<>>
    BY TypeParts DEF PendingOK, ReadChar
  <1>. QED
    BY <1>1, TypeParts DEF Next_ch

-----------------------------------------------------------------------------
(* The parts of the property *)

CSICall ==
    kind = "CSI_Entry" /\ Ends(Final) =>
        call = IF WellFormed(Body)
               THEN [fn |-> "CSI", key |-> Key(Byte \ ParamChars),
                     params |-> parse_params(First_n(Only(Body, ParamChars), ParamLimit))]
               ELSE NoCall
EscapeCall ==
    kind = "Escape" /\ Ends(48 .. 126) =>
        LET final == since[Len(since)] IN
        call = IF Body = <<>> /\ final \in 64 .. 95
               THEN [fn |-> "Control", ch |-> final + 64]
               ELSE [fn |-> "Escape", key |-> Key(Byte)]
OSCText == state = "OSC_String" => OSC_string = First_n(Only(since, Printable), TextLimit)
Quiet ==
    kind \in {"DCS_Entry", "SOS_PM_APC_String"} /\ state # "Ground" => call.fn \in {"none", "OSC"}
TextKept == call.fn = "OSC" => call.text = OSC_string \/ state = "OSC_String"

LEMMA GrammarParts == CallsFollowGrammar <=> CSICall /\ EscapeCall /\ OSCText /\ Quiet /\ TextKept
  BY DEF CallsFollowGrammar, CSICall, EscapeCall, OSCText, Quiet, TextKept

LEMMA NothingRead == ASSUME NEW S, NEW n \in Nat PROVE First_n(Only(<<>>, S), n) = <<>>
  BY OnlyEmpty, FirstEmpty

\* The text of an OSC is kept as it was given, unless another begins.
LEMMA TextStays == ASSUME TypeOK, ReadChar PROVE TextKept'
  <1>. SUFFICES ASSUME call'.fn = "OSC" PROVE call'.text = OSC_string' \/ state' = "OSC_String"
    BY DEF TextKept
  <1>1. Next_ch \in Char /\ state \in States
    BY ReadFrom
  <1>2. state = "OSC_String" /\ Tx.next # ""
    BY ReadCharIs, DoneFacts
  <1>3. call'.text = OSC_string
    <2>1. call' = [fn |-> "OSC", text |-> OSC_string, then |-> Done]
      BY <1>2, ReadCharIs
    <2>. QED
      BY <2>1
  <1>4. Tx.action # "OSC_Put"
    <2>1. CASE IsAnywhere(Next_ch)
      BY <1>1, <2>1, AnywhereFacts DEF Tx
    <2>2. CASE ~IsAnywhere(Next_ch)
      <3>1. Tx = OSCRule(Like(Next_ch))
        BY <1>1, <1>2, <2>2, StateRules DEF Tx
      <3>2. Leads(Tx, "OSC_Put", "") \/ \E n : Leads(Tx, "Ignore", n)
        BY <1>1, <2>2, <3>1, OSCFacts
      <3>. QED
        BY <1>2, <3>2 DEF Leads
    <2>. QED
      BY <2>1, <2>2
  <1>5. CASE Tx.next = "OSC_String"
    BY <1>5, ReadCharIs
  <1>6. CASE Tx.next # "OSC_String"
    BY <1>3, <1>4, <1>6, ReadCharIs
  <1>. QED
    BY <1>5, <1>6

-----------------------------------------------------------------------------
(* Steps that begin a sequence, or belong to none *)

LEMMA BeginKeeps == ASSUME TypeOK, ReadChar, Tx.next \in Introduced PROVE GInv'
  <1>1. Next_ch \in Char /\ state \in States
    BY ReadFrom
  <1>2. Done.fn = "none"
    BY <1>1, EntersQuietly, DoneFacts DEF Tx
  <1>3. state' = Tx.next /\ kind' = Tx.next /\ since' = <<>>
    BY ReadCharIs, StatesApart
  <1>4. Sofar' = <<>>
    BY <1>3, OnlyEmpty DEF Sofar
  <1>5. Introduction'
    <2>1. <<>> \in Seq(Char)
      OBVIOUS
    <2>. QED
      BY <1>3, <2>1, StatesApart DEF Introduction
  <1>6. ~Ends(Final)' /\ ~Ends(48 .. 126)'
    BY <1>3 DEF Ends
  <1>7. CSIRead'
    <2>. SUFFICES ASSUME state' \in StatesOf("CSI_Entry") PROVE CSIRead'
      BY DEF CSIRead
    <2>1. state' = "CSI_Entry"
      BY <1>3, StatesApart
    <2>2. params' = <<>> /\ dispatch_chars' = <<>>
      BY <1>3, <2>1, ReadCharIs DEF Entries
    <2>3. params' = CSIParams(Sofar') /\ dispatch_chars' = CSIKey(Sofar')
      BY <1>4, <2>2, NothingRead, Limits DEF CSIParams, CSIKey
    <2>. QED
      BY <1>4, <1>6, <2>1, <2>3 DEF CSIRead, CSIAt
  <1>8. EscapeRead'
    <2>. SUFFICES ASSUME state' \in StatesOf("Escape") PROVE EscapeRead'
      BY DEF EscapeRead
    <2>1. state' = "Escape"
      BY <1>3, StatesApart
    <2>2. dispatch_chars' = <<>>
      BY <1>3, <2>1, ReadCharIs DEF Entries
    <2>3. dispatch_chars' = First_n(Only(Sofar', Byte), CharLimit)
      BY <1>4, <2>2, NothingRead, Limits
    <2>. QED
      BY <1>4, <1>6, <2>2, <2>3 DEF EscapeRead
  <1>9. CSICall' /\ EscapeCall'
    BY <1>6 DEF CSICall, EscapeCall
  <1>10. OSCText'
    <2>. SUFFICES ASSUME state' = "OSC_String" PROVE OSCText'
      BY DEF OSCText
    <2>1. OSC_string' = <<>>
      BY <1>3, ReadCharIs
    <2>. QED
      BY <1>3, <2>1, NothingRead, Limits DEF OSCText
  <1>11. Quiet'
    <2>1. call'.fn = "none" \/ call' = [fn |-> "OSC", text |-> OSC_string, then |-> Done]
      BY <1>2, ReadCharIs
    <2>2. call'.fn \in {"none", "OSC"}
      BY <2>1
    <2>. QED
      BY <2>2 DEF Quiet
  <1>. QED
    BY <1>5, <1>7, <1>8, <1>9, <1>10, <1>11, TextStays, GrammarParts DEF GInv, CallsFollowGrammar,
       CSICall, EscapeCall, OSCText, Quiet, TextKept

LEMMA GroundKeeps ==
    ASSUME TypeOK, ReadChar, state = "Ground", Tx.next \notin Introduced PROVE GInv'
  <1>1. Next_ch \in Char /\ state \in States
    BY ReadFrom
  <1>2. Tx.next \in {"", "Ground"}
    <2>1. CASE IsAnywhere(Next_ch)
      BY <1>1, <2>1, AnywhereFacts DEF Tx
    <2>2. CASE ~IsAnywhere(Next_ch)
      <3>1. Tx = Stay("Execute") \/ Tx = Stay("Print") \/ Tx = Ignore
        BY <1>1, <2>2, StateRules DEF Tx, GroundRule
      <3>. QED
        BY <3>1, StepFacts DEF Leads
    <2>. QED
      BY <2>1, <2>2
  <1>3. state' = "Ground" /\ kind' = "Ground" /\ since' = <<>>
    BY <1>2, ReadCharIs
  <1>4. Introduction'
    <2>1. <<>> \in Seq(Char)
      OBVIOUS
    <2>. QED
      BY <1>3, <2>1 DEF Introduction
  <1>5. CSIRead' /\ EscapeRead'
    BY <1>3, StatesApart DEF CSIRead, EscapeRead
  <1>6. CSICall' /\ EscapeCall' /\ OSCText' /\ Quiet'
    BY <1>3 DEF CSICall, EscapeCall, OSCText, Quiet
  <1>. QED
    BY <1>4, <1>5, <1>6, TextStays DEF GInv, CallsFollowGrammar,
       CSICall, EscapeCall, OSCText, Quiet, TextKept

\* Any other character goes on with the sequence.
LEMMA GoesOn ==
    ASSUME TypeOK, GInv, ReadChar, state # "Ground", Tx.next \notin Introduced
    PROVE  /\ Next_ch \in Char /\ state \in StatesOf(kind) /\ kind' = kind
           /\ Sofar \in Seq(Char) /\ Grown(Next_ch)
           /\ since \in Seq(Char) /\ since' = Append(since, Next_ch) /\ since' \in Seq(Char)
           /\ \A final : Ends(final)' <=> Next_ch \in final \/ Next_ch >= 160
  <1>1. Next_ch \in Char /\ state \in States
    BY ReadFrom
  <1>2. since \in Seq(Char) /\ state \in StatesOf(kind)
    BY DEF GInv, Introduction
  <1>3. kind' = kind /\ since' = Append(since, Next_ch)
    BY ReadCharIs
  <1>4. Grown(Next_ch) /\ since' \in Seq(Char) /\ Sofar \in Seq(Char)
    BY <1>1, <1>2, <1>3, GrowsBy
  <1>5. \A final : Ends(final)' <=> Next_ch \in final \/ Next_ch >= 160
    BY <1>4 DEF Ends, Grown
  <1>. QED
    BY <1>1, <1>2, <1>3, <1>4, <1>5

-----------------------------------------------------------------------------
(* Control sequences *)

LEMMA StringsStep ==
    ASSUME NEW b \in Seq(Char), NEW c \in Char, c \in 32 .. 63
    PROVE  /\ c \in ParamChars =>
                 /\ CSIParams(Append(b, c)) = IF Len(CSIParams(b)) < ParamLimit
                                              THEN Append(CSIParams(b), c) ELSE CSIParams(b)
                 /\ CSIKey(Append(b, c)) = CSIKey(b)
           /\ c \notin ParamChars =>
                 /\ CSIParams(Append(b, c)) = CSIParams(b)
                 /\ CSIKey(Append(b, c)) = collect(CSIKey(b), c)
  <1>1. c \in Byte /\ c <= 255
    BY DEF Byte
  <1>2. CASE c \in ParamChars
    <2>1. c \notin Byte \ ParamChars
      BY <1>2
    <2>. QED
      BY <1>2, <2>1, KeptFirst, Limits DEF CSIParams, CSIKey
  <1>3. CASE c \notin ParamChars
    <2>1. c \in Byte \ ParamChars <=> c <= 255
      BY <1>1, <1>3
    <2>2. CSIParams(Append(b, c)) = CSIParams(b)
      BY <1>3, KeptFirst, Limits DEF CSIParams
    <2>3. CSIKey(Append(b, c)) = collect(CSIKey(b), c)
      BY <2>1, CollectedFirst DEF CSIKey
    <2>. QED
      BY <1>3, <2>2, <2>3
  <1>. QED
    BY <1>2, <1>3

LEMMA AppendFacts ==
    ASSUME NEW b \in Seq(Char), NEW c \in Char
    PROVE  Append(b, c) # <<>> /\ Append(b, c)[Len(Append(b, c))] = c /\ Append(b, c) \in Seq(Char)
  OBVIOUS

\* What CSIRule names its states, and what a character of the header is collected into.
PartIs(s, part) ==
    \/ s = "CSI_Entry" /\ part = "Entry"
    \/ s = "CSI_Param" /\ part = "Param"
    \/ s = "CSI_Intermediate" /\ part = "Intermediate"
CSIStateNames == [Param |-> "CSI_Param", Intermediate |-> "CSI_Intermediate", Ignore |-> "CSI_Ignore"]
WithParam(tx, p, c) == IF tx.action = "Param" /\ Len(p) < ParamLimit THEN Append(p, c) ELSE p
Collected(tx, d, c) == IF tx.action = "Collect" THEN collect(d, c) ELSE d

\* A character of the header in a sequence that is still well formed.
LEMMA HeaderStep ==
    ASSUME NEW s, NEW part, PartIs(s, part),
           NEW p, NEW d, NEW b \in Seq(Char), NEW c \in Char, c \in 32 .. 63, CSIAt(s, p, d, b),
           NEW tx, tx = Header(CSIStateNames, part, c)
    PROVE  /\ tx.next \in StatesOf("CSI_Entry") \ {"CSI_Entry"}
           /\ tx.action \in {"Param", "Collect", "Ignore"}
           /\ CSIAt(tx.next, WithParam(tx, p, c), Collected(tx, d, c), Append(b, c))
  <1>. DEFINE p2 == WithParam(tx, p, c)
              d2 == Collected(tx, d, c)
  <1>1. /\ CSIStateNames.Param = "CSI_Param" /\ CSIStateNames.Intermediate = "CSI_Intermediate"
        /\ CSIStateNames.Ignore = "CSI_Ignore"
    BY DEF CSIStateNames
  <1>0. /\ p2 = IF tx.action = "Param" /\ Len(p) < ParamLimit THEN Append(p, c) ELSE p
        /\ d2 = IF tx.action = "Collect" THEN collect(d, c) ELSE d
    BY DEF WithParam, Collected
  <1>. HIDE DEF p2, d2
  <1>2. \/ s = "CSI_Entry" /\ part = "Entry"
        \/ s = "CSI_Param" /\ part = "Param"
        \/ s = "CSI_Intermediate" /\ part = "Intermediate"
    BY DEF PartIs
  <1>3. /\ p = CSIParams(b) /\ d = CSIKey(b)
        /\ part = "Entry" => b = <<>>
        /\ part = "Param" => b # <<>> /\ Headed(b)
        /\ part = "Intermediate" => b # <<>> /\ WellFormed(b) /\ b[Len(b)] \in Intermediate
    BY <1>2 DEF CSIAt
  <1>4. part # "Intermediate" => Headed(b)
    BY <1>2, <1>3, EmptyIsHeaded
  <1>5. WellFormed(b)
    BY <1>2, <1>3, <1>4, HeadedIsWellFormed
  <1>6. {"CSI_Param", "CSI_Intermediate", "CSI_Ignore"} \subseteq StatesOf("CSI_Entry") \ {"CSI_Entry"}
    BY StatesAre
  <1>7. Append(b, c) # <<>> /\ Append(b, c)[Len(Append(b, c))] = c
    BY AppendFacts
  <1>8. CASE c \in ParamChars /\ part # "Intermediate" /\ Leads(tx, "Param", "CSI_Param")
    <2>1. tx.action = "Param" /\ tx.next = "CSI_Param"
      BY <1>8 DEF Leads
    <2>2. p2 = CSIParams(Append(b, c)) /\ d2 = CSIKey(Append(b, c))
      BY <1>0, <1>3, <1>8, <2>1, StringsStep
    <2>3. Headed(Append(b, c))
      BY <1>4, <1>8, HeadedBy
    <2>. QED
      BY <1>6, <1>7, <2>1, <2>2, <2>3 DEF CSIAt, p2, d2
  <1>9. CASE c \in Private /\ part = "Entry" /\ Leads(tx, "Collect", "CSI_Param")
    <2>1. tx.action = "Collect" /\ tx.next = "CSI_Param" /\ c \notin ParamChars
      BY <1>9, Classes DEF Leads
    <2>2. p2 = CSIParams(Append(b, c)) /\ d2 = CSIKey(Append(b, c))
      BY <1>0, <1>3, <2>1, StringsStep
    <2>3. Headed(Append(b, c))
      BY <1>3, <1>9, HeadedBy
    <2>. QED
      BY <1>6, <1>7, <2>1, <2>2, <2>3 DEF CSIAt, p2, d2
  <1>10. CASE c \in Intermediate /\ Leads(tx, "Collect", "CSI_Intermediate")
    <2>0. c \notin ParamChars
      BY <1>10 DEF Intermediate, ParamChars, Digits
    <2>1. tx.action = "Collect" /\ tx.next = "CSI_Intermediate" /\ c \notin ParamChars
      BY <1>10, <2>0 DEF Leads
    <2>2. p2 = CSIParams(Append(b, c)) /\ d2 = CSIKey(Append(b, c))
      BY <1>0, <1>3, <2>1, StringsStep
    <2>3. WellFormed(Append(b, c))
      BY <1>5, <1>10, IntermediateFollows
    <2>. QED
      BY <1>6, <1>7, <1>10, <2>1, <2>2, <2>3 DEF CSIAt, p2, d2
  <1>11. CASE /\ c \notin Intermediate /\ (part = "Intermediate" \/ c \notin ParamChars)
              /\ part = "Entry" => c \notin Private
              /\ Leads(tx, "Ignore", "CSI_Ignore")
    <2>1. tx.next = "CSI_Ignore" /\ tx.action = "Ignore"
      BY <1>11 DEF Leads
    <2>2. ~WellFormed(Append(b, c))
      BY <1>2, <1>3, <1>11, LastFits
    <2>. QED
      BY <1>6, <2>1, <2>2 DEF CSIAt, p2, d2
  <1>. QED
    BY <1>1, <1>8, <1>9, <1>10, <1>11, HeaderFacts

\* What concerns other kinds of sequences.
LEMMA CSIOthers ==
    ASSUME TypeOK, ReadChar, kind' = "CSI_Entry", since' \in Seq(Char),
           state' = "Ground" \/ state' \in StatesOf("CSI_Entry"), CSIRead', CSICall'
    PROVE  GInv'
  <1>1. Introduction'
    BY DEF Introduction
  <1>2. state' # "OSC_String" /\ state' \notin StatesOf("Escape")
    <2>1. "OSC_String" \notin StatesOf("CSI_Entry") /\ "Ground" \notin StatesOf("Escape")
      BY StatesAre
    <2>2. state' \in StatesOf("CSI_Entry") => state' \notin StatesOf("Escape")
      BY StatesApart
    <2>. QED
      BY <2>1, <2>2
  <1>3. EscapeRead' /\ EscapeCall' /\ OSCText' /\ Quiet'
    BY <1>2 DEF EscapeRead, EscapeCall, OSCText, Quiet
  <1>. QED
    BY <1>1, <1>3, TextStays DEF GInv, CallsFollowGrammar, CSICall, EscapeCall, OSCText, Quiet, TextKept

\* The character changes nothing but the sequence itself, or the body of one that is ignored.
LEMMA CSIStays ==
    ASSUME TypeOK, GInv, ReadChar, state \in StatesOf("CSI_Entry"), kind = "CSI_Entry",
           NEW action, Leads(Tx, action, ""), action \in {"Execute", "Ignore"},
           ~Ends(Final)', since' \in Seq(Char), kind' = kind,
           Sofar' = Sofar \/ (state = "CSI_Ignore" /\ ~WellFormed(Sofar'))
    PROVE  GInv'
  <1>1. Tx.next = "" /\ Tx.action \in {"Execute", "Ignore"} /\ "" \notin Entries
    BY DEF Leads, Entries
  <1>2. state' = state /\ params' = params /\ dispatch_chars' = dispatch_chars
    BY <1>1, ReadCharIs
  <1>3. CSIAt(state, params, dispatch_chars, Sofar)
    BY DEF GInv, CSIRead
  <1>4. CSIAt(state', params', dispatch_chars', Sofar')
    <2>1. CASE Sofar' = Sofar
      BY <1>2, <1>3, <2>1
    <2>2. CASE state = "CSI_Ignore" /\ ~WellFormed(Sofar')
      BY <1>2, <2>2 DEF CSIAt
    <2>. QED
      BY <2>1, <2>2
  <1>5. CSIRead' /\ CSICall'
    BY <1>4 DEF CSIRead, CSICall
  <1>. QED
    BY <1>2, <1>5, CSIOthers

\* The character that ends a control sequence.
LEMMA CSIEnds ==
    ASSUME TypeOK, GInv, ReadChar, state \in StatesOf("CSI_Entry"), kind = "CSI_Entry",
           kind' = kind, since' \in Seq(Char), Grown(Next_ch), Sofar \in Seq(Char),
           Next_ch \in Char, Next_ch \in Final \/ Next_ch >= 160,
           Leads(Tx, IF state = "CSI_Ignore" THEN "Ignore" ELSE "CSI_Dispatch", "Ground")
    PROVE  GInv'
  <1>1. Tx.next = "Ground" /\ Tx.action = IF state = "CSI_Ignore" THEN "Ignore" ELSE "CSI_Dispatch"
    BY DEF Leads
  <1>2. state' = "Ground"
    BY <1>1, ReadCharIs
  <1>3. call' = Done
    <2>1. state # "OSC_String"
      BY StatesAre
    <2>. QED
      BY <2>1, ReadCharIs
  <1>4. CSIAt(state, params, dispatch_chars, Sofar)
    BY DEF GInv, CSIRead
  <1>5. Body' = Sofar /\ since'[Len(since')] = Next_ch
    BY DEF Grown
  <1>6. CSICall'
    <2>1. CASE state = "CSI_Ignore"
      <3>1. ~WellFormed(Sofar)
        BY <1>4, <2>1 DEF CSIAt
      <3>2. Done = NoCall
        BY <1>1, <2>1, DoneFacts
      <3>. QED
        BY <1>3, <1>5, <3>1, <3>2 DEF CSICall
    <2>2. CASE state # "CSI_Ignore"
      <3>1. params = CSIParams(Sofar) /\ dispatch_chars = CSIKey(Sofar)
        BY <1>4, <2>2 DEF CSIAt
      <3>2. WellFormed(Sofar)
        <4>1. state \in {"CSI_Entry", "CSI_Param", "CSI_Intermediate"}
          BY <2>2, StatesAre
        <4>2. WellFormed(Sofar) \/ Headed(Sofar)
          BY <1>4, <4>1, EmptyIsHeaded DEF CSIAt
        <4>. QED
          BY <4>2, HeadedIsWellFormed
      <3>3. Done = [fn |-> "CSI", key |-> collect(dispatch_chars, Next_ch),
                    params |-> parse_params(params)]
        BY <1>1, <2>2 DEF Done, Called
      <3>4. collect(dispatch_chars, Next_ch) = Key(Byte \ ParamChars)'
        <4>1. Next_ch \in Byte \ ParamChars <=> Next_ch <= 255
          <5>0. Next_ch \in Nat
            BY CharIs
          <5>1. Next_ch \in Nat /\ Next_ch \notin ParamChars
            BY <5>0 DEF Final, ParamChars, Digits
          <5>. QED
            BY <5>1 DEF Byte
        <4>2. collect(CSIKey(Sofar), Next_ch) =
                  First_n(Only(Append(Sofar, Next_ch), Byte \ ParamChars), CharLimit)
          BY <4>1, CollectedFirst DEF CSIKey
        <4>. QED
          BY <1>5, <3>1, <4>2 DEF Key
      <3>5. parse_params(params) = parse_params(First_n(Only(Body', ParamChars), ParamLimit))
        BY <1>5, <3>1 DEF CSIParams
      <3>6. call' = [fn |-> "CSI", key |-> Key(Byte \ ParamChars)',
                     params |-> parse_params(First_n(Only(Body', ParamChars), ParamLimit))]
        BY <1>3, <3>3, <3>4, <3>5
      <3>. QED
        BY <1>5, <3>2, <3>6 DEF CSICall
    <2>. QED
      BY <2>1, <2>2
  <1>7. CSIRead'
    BY <1>2, StatesApart DEF CSIRead
  <1>. QED
    BY <1>2, <1>6, <1>7, CSIOthers

\* A character of the header.
LEMMA CSIHeads ==
    ASSUME TypeOK, GInv, ReadChar, kind = "CSI_Entry", kind' = kind, since' \in Seq(Char),
           NEW part, PartIs(state, part),
           ~IsAnywhere(Next_ch), Next_ch \in Char, Next_ch \in 32 .. 63, Sofar \in Seq(Char),
           Sofar' = Append(Sofar, Next_ch), ~Ends(Final)',
           Tx = CSIRule(part, Like(Next_ch))
    PROVE  GInv'
  <1>. DEFINE p2 == WithParam(Tx, params, Next_ch)
              d2 == Collected(Tx, dispatch_chars, Next_ch)
  <1>1. /\ part \in {"Entry", "Param", "Intermediate", "Ignore"} /\ part # "Ignore"
        /\ state \in StatesOf("CSI_Entry")
    BY StatesAre DEF PartIs
  <1>2. Tx = Header(CSIStateNames, part, Next_ch)
    BY <1>1, CSIFacts DEF CSIStateNames
  <1>3. CSIAt(state, params, dispatch_chars, Sofar)
    BY <1>1 DEF GInv, CSIRead
  <1>4. /\ Tx.next \in StatesOf("CSI_Entry") \ {"CSI_Entry"}
        /\ Tx.action \in {"Param", "Collect", "Ignore"}
        /\ CSIAt(Tx.next, p2, d2, Append(Sofar, Next_ch))
    <2>. HIDE DEF CSIStateNames
    <2>. QED
      BY <1>2, <1>3, HeaderStep
  <1>5. Tx.next \in {"CSI_Param", "CSI_Intermediate", "CSI_Ignore"}
        /\ Tx.action \in {"Param", "Collect", "Ignore"}
    BY <1>4, StatesAre
  <1>6. Tx.next # "" /\ Tx.next \notin Entries
    BY <1>5 DEF Entries
  <1>7. state' = Tx.next /\ params' = p2
    BY <1>6, ReadCharIs DEF WithParam
  <1>8. dispatch_chars' = d2
    <2>1. Tx.action \in {"Collect", "Esc_Dispatch", "CSI_Dispatch"} <=> Tx.action = "Collect"
      BY <1>5
    <2>2. Done.fn # "Control"
      BY <1>5, DoneFacts
    <2>. QED
      BY <1>6, <2>1, <2>2, ReadCharIs DEF Collected
  <1>. HIDE DEF p2, d2
  <1>9. CSIAt(state', params', dispatch_chars', Sofar')
    BY <1>4, <1>7, <1>8
  <1>10. CSIRead' /\ CSICall'
    BY <1>9 DEF CSIRead, CSICall
  <1>. QED
    BY <1>4, <1>7, <1>10, CSIOthers

LEMMA PartOf ==
    ASSUME NEW c \in Char, ~IsAnywhere(c), NEW s \in StatesOf("CSI_Entry")
    PROVE  \E part \in {"Entry", "Param", "Intermediate", "Ignore"} :
              /\ Transition(s, c) = CSIRule(part, Like(c))
              /\ part = "Ignore" <=> s = "CSI_Ignore"
              /\ s # "CSI_Ignore" => PartIs(s, part)
  <1>1. CASE s = "CSI_Entry"
    BY <1>1, StateRules DEF PartIs
  <1>2. CASE s = "CSI_Param"
    BY <1>2, StateRules DEF PartIs
  <1>3. CASE s = "CSI_Intermediate"
    BY <1>3, StateRules DEF PartIs
  <1>4. CASE s = "CSI_Ignore"
    BY <1>4, StateRules DEF PartIs
  <1>. QED
    BY <1>1, <1>2, <1>3, <1>4, StatesAre

LEMMA CSIKeeps ==
    ASSUME TypeOK, GInv, ReadChar, state \in StatesOf("CSI_Entry"), Tx.next \notin Introduced
    PROVE  GInv'
  <1>0. state # "Ground"
    BY StatesApart
  <1>1. /\ Next_ch \in Char /\ state \in StatesOf(kind) /\ kind' = kind
        /\ Sofar \in Seq(Char) /\ Grown(Next_ch) /\ since' \in Seq(Char)
        /\ \A final : Ends(final)' <=> Next_ch \in final \/ Next_ch >= 160
    BY <1>0, GoesOn
  <1>2. kind = "CSI_Entry"
    BY <1>1, StatesApart
  <1>3. CASE IsAnywhere(Next_ch)
    <2>1. Tx.next = "Ground" /\ Next_ch \notin Final /\ Next_ch < 160
      BY <1>1, <1>3, AnywhereFacts DEF Tx
    <2>2. state' = "Ground"
      BY <2>1, ReadCharIs
    <2>3. ~(Next_ch >= 160)
      <3>1. Next_ch \in Nat
        BY <1>1, CharIs
      <3>. QED
        BY <2>1, <3>1
    <2>4. CSIRead' /\ CSICall'
      BY <1>1, <2>1, <2>2, <2>3, StatesApart DEF CSIRead, CSICall
    <2>. QED
      BY <1>1, <1>2, <2>2, <2>4, CSIOthers
  <1>4. CASE ~IsAnywhere(Next_ch)
    <2>0. Next_ch \in Nat
      BY <1>1, CharIs
    <2>1. PICK part \in {"Entry", "Param", "Intermediate", "Ignore"} :
              /\ Tx = CSIRule(part, Like(Next_ch))
              /\ part = "Ignore" <=> state = "CSI_Ignore"
              /\ state # "CSI_Ignore" => PartIs(state, part)
      BY <1>1, <1>4, PartOf DEF Tx
    <2>2. CASE Next_ch \in Final \/ Next_ch >= 160
      <3>1. Leads(Tx, IF part = "Ignore" THEN "Ignore" ELSE "CSI_Dispatch", "Ground")
        BY <1>1, <1>4, <2>1, <2>2, CSIFacts
      <3>2. Leads(Tx, IF state = "CSI_Ignore" THEN "Ignore" ELSE "CSI_Dispatch", "Ground")
        BY <2>1, <3>1
      <3>. QED
        BY <1>1, <1>2, <2>2, <3>2, CSIEnds
    <2>3. CASE Next_ch < 32 \/ Next_ch = 127
      <3>1. PICK action \in {"Execute", "Ignore"} : Leads(Tx, action, "")
        BY <1>1, <1>4, <2>1, <2>3, CSIFacts
      <3>2. Next_ch \notin Printable \ {127} /\ ~(Next_ch >= 160) /\ Next_ch \notin Final
        BY <1>1, <2>0, <2>3, PrintableIs DEF Final
      <3>3. Sofar' = Sofar /\ ~Ends(Final)'
        BY <1>1, <3>2 DEF Grown
      <3>. QED
        BY <1>1, <1>2, <3>1, <3>3, CSIStays
    <2>4. CASE Next_ch \in 32 .. 63
      <3>1. Next_ch \in Printable \ {127} /\ ~(Next_ch >= 160) /\ Next_ch \notin Final
        BY <1>1, <2>0, <2>4, PrintableIs DEF Final
      <3>2. Sofar' = Append(Sofar, Next_ch) /\ ~Ends(Final)'
        BY <1>1, <3>1 DEF Grown
      <3>3. CASE state = "CSI_Ignore"
        <4>1. Tx = Ignore
          BY <1>1, <1>4, <2>1, <2>4, <3>3, CSIFacts
        <4>2. Leads(Tx, "Ignore", "")
          BY <4>1, StepFacts
        <4>3. ~WellFormed(Sofar)
          BY <3>3 DEF GInv, CSIRead, CSIAt
        <4>4. ~WellFormed(Sofar')
          BY <1>1, <3>2, <4>3, PrefixIsWellFormed
        <4>. QED
          BY <1>1, <1>2, <3>2, <3>3, <4>2, <4>4, CSIStays
      <3>4. CASE state # "CSI_Ignore"
        BY <1>1, <1>2, <1>4, <2>1, <2>4, <3>2, <3>4, CSIHeads
      <3>. QED
        BY <3>3, <3>4
    <2>5. Next_ch \in 64 .. 126 <=> Next_ch \in Final
      BY DEF Final
    <2>. QED
      BY <1>1, <1>4, <2>2, <2>3, <2>4, <2>5, CharClasses
  <1>. QED
    BY <1>3, <1>4

-----------------------------------------------------------------------------
(* Escape sequences *)

LEMMA EscapeOthers ==
    ASSUME TypeOK, ReadChar, kind' = "Escape", since' \in Seq(Char),
           state' = "Ground" \/ state' \in StatesOf("Escape"), EscapeRead', EscapeCall'
    PROVE  GInv'
  <1>1. Introduction'
    BY DEF Introduction
  <1>2. state' # "OSC_String" /\ state' \notin StatesOf("CSI_Entry")
    <2>1. "OSC_String" \notin StatesOf("Escape") /\ "Ground" \notin StatesOf("CSI_Entry")
      BY StatesAre
    <2>2. state' \in StatesOf("Escape") => state' \notin StatesOf("CSI_Entry")
      BY StatesApart
    <2>. QED
      BY <2>1, <2>2
  <1>3. CSIRead' /\ CSICall' /\ OSCText' /\ Quiet'
    BY <1>2 DEF CSIRead, CSICall, OSCText, Quiet
  <1>. QED
    BY <1>1, <1>3, TextStays DEF GInv, CallsFollowGrammar, CSICall, EscapeCall, OSCText, Quiet, TextKept

\* What is collected of a byte is never nothing.
LEMMA CollectedSome ==
    ASSUME NEW d \in Seq(Byte), NEW c, c <= 255 PROVE collect(d, c) # <<>>
  <1>1. CASE Len(d) < CharLimit
    <2>1. collect(d, c) = Append(d, c)
      BY <1>1 DEF collect
    <2>2. Append(d, c) # <<>>
      OBVIOUS
    <2>. QED
      BY <2>1, <2>2
  <1>2. CASE ~(Len(d) < CharLimit)
    <2>1. Len(d) # 0
      BY <1>2, Limits
    <2>2. collect(d, c) = d
      BY <1>2 DEF collect
    <2>. QED
      BY <2>1, <2>2, NotEmpty
  <1>. QED
    BY <1>1, <1>2

\* The character that ends an escape sequence.
LEMMA EscapeEnds ==
    ASSUME TypeOK, GInv, ReadChar, state \in StatesOf("Escape"), kind = "Escape", kind' = kind,
           since' \in Seq(Char), Grown(Next_ch), Sofar \in Seq(Char), Next_ch \in Char,
           Leads(Tx, "Esc_Dispatch", "Ground")
    PROVE  GInv'
  <1>1. Tx.next = "Ground" /\ Tx.action = "Esc_Dispatch"
    BY DEF Leads
  <1>2. state' = "Ground"
    BY <1>1, ReadCharIs
  <1>3. call' = EscCall(Next_ch)
    <2>1. state # "OSC_String"
      BY StatesAre
    <2>2. Done = EscCall(Next_ch)
      BY <1>1 DEF Done, Called
    <2>. QED
      BY <2>1, <2>2, ReadCharIs
  <1>4. /\ dispatch_chars = First_n(Only(Sofar, Byte), CharLimit)
        /\ dispatch_chars = <<>> <=> Sofar = <<>>
    BY DEF GInv, EscapeRead
  <1>5. Body' = Sofar /\ since'[Len(since')] = Next_ch
    BY DEF Grown
  <1>6. collect(dispatch_chars, Next_ch) = Key(Byte)'
    <2>1. Next_ch \in Byte <=> Next_ch <= 255
      <3>1. Next_ch \in Nat
        BY CharIs
      <3>. QED
        BY <3>1 DEF Byte
    <2>2. collect(First_n(Only(Sofar, Byte), CharLimit), Next_ch) =
              First_n(Only(Append(Sofar, Next_ch), Byte), CharLimit)
      BY <2>1, CollectedFirst
    <2>. QED
      BY <1>4, <1>5, <2>2 DEF Key
  <1>7. EscapeCall'
    <2>1. EscCall(Next_ch) = IF Sofar = <<>> /\ Next_ch \in 64 .. 95
                             THEN [fn |-> "Control", ch |-> Next_ch + 64]
                             ELSE [fn |-> "Escape", key |-> Key(Byte)']
      BY <1>4, <1>6 DEF EscCall
    <2>. QED
      BY <1>3, <1>5, <2>1 DEF EscapeCall
  <1>8. EscapeRead'
    BY <1>2, StatesApart DEF EscapeRead
  <1>. QED
    BY <1>2, <1>7, <1>8, EscapeOthers

LEMMA EscapeKeeps ==
    ASSUME TypeOK, GInv, ReadChar, state \in StatesOf("Escape"), Tx.next \notin Introduced
    PROVE  GInv'
  <1>0. state # "Ground" /\ (state = "Escape" \/ state = "Escape_Intermediate")
    BY StatesAre
  <1>1. /\ Next_ch \in Char /\ state \in StatesOf(kind) /\ kind' = kind
        /\ Sofar \in Seq(Char) /\ Grown(Next_ch) /\ since' \in Seq(Char)
        /\ \A final : Ends(final)' <=> Next_ch \in final \/ Next_ch >= 160
    BY <1>0, GoesOn
  <1>2. kind = "Escape"
    BY <1>1, StatesApart
  <1>3. Next_ch \in Nat
    BY <1>1, CharIs
  <1>4. /\ dispatch_chars = First_n(Only(Sofar, Byte), CharLimit)
        /\ dispatch_chars = <<>> <=> Sofar = <<>>
        /\ state = "Escape" => Sofar = <<>>
    BY DEF GInv, EscapeRead
  <1>5. CASE IsAnywhere(Next_ch)
    <2>1. Tx.next = "Ground"
      BY <1>1, <1>5, AnywhereFacts DEF Tx
    <2>2. state' = "Ground"
      BY <2>1, ReadCharIs
    <2>3. Next_ch \notin 48 .. 126 /\ ~(Next_ch >= 160)
      BY <1>5 DEF IsAnywhere
    <2>4. EscapeRead' /\ EscapeCall'
      BY <1>1, <2>2, <2>3, StatesApart DEF EscapeRead, EscapeCall
    <2>. QED
      BY <1>1, <1>2, <2>2, <2>4, EscapeOthers
  <1>6. CASE ~IsAnywhere(Next_ch)
    <2>1. /\ state = "Escape" => Tx = EscapeRule(Like(Next_ch))
          /\ state = "Escape_Intermediate" => Tx = EscapeIntermediateRule(Like(Next_ch))
      BY <1>1, <1>6, StateRules DEF Tx
    <2>2. CASE Next_ch \in 48 .. 126 \/ Next_ch >= 160
      <3>1. Leads(Tx, "Esc_Dispatch", "Ground") \/ Tx.next \in Introduced
        <4>1. CASE state = "Escape"
          <5>1. Leads(Tx, "Esc_Dispatch", "Ground")
                \/ \E next \in Introduced : Leads(Tx, "Ignore", next)
            BY <1>1, <1>6, <2>1, <2>2, <4>1, EscapeFacts
          <5>. QED
            BY <5>1 DEF Leads
        <4>2. CASE state = "Escape_Intermediate"
          BY <1>1, <1>6, <2>1, <2>2, <4>2, EscapeIntermediateFacts
        <4>. QED
          BY <1>0, <4>1, <4>2
      <3>. QED
        BY <1>1, <1>2, <3>1, EscapeEnds
    <2>3. CASE Next_ch < 32 \/ Next_ch = 127
      <3>1. Leads(Tx, "Execute", "") \/ Leads(Tx, "Ignore", "")
        <4>1. CASE state = "Escape"
          <5>1. /\ Next_ch < 32 => Leads(EscapeRule(Like(Next_ch)), "Execute", "")
                /\ Next_ch = 127 => Leads(EscapeRule(Like(Next_ch)), "Ignore", "")
            BY <1>1, <1>6, EscapeFacts
          <5>. QED
            BY <2>1, <2>3, <4>1, <5>1
        <4>2. CASE state = "Escape_Intermediate"
          BY <1>1, <1>6, <2>1, <2>3, <4>2, EscapeIntermediateFacts
        <4>. QED
          BY <1>0, <4>1, <4>2
      <3>2. Next_ch \notin Printable \ {127} /\ ~(Next_ch >= 160) /\ Next_ch \notin 48 .. 126
        BY <1>1, <1>3, <2>3, PrintableIs
      <3>3. Sofar' = Sofar /\ ~Ends(48 .. 126)'
        BY <1>1, <3>2 DEF Grown
      <3>4. Tx.next = "" /\ Tx.action \in {"Execute", "Ignore"} /\ "" \notin Entries
        BY <3>1 DEF Leads, Entries
      <3>5. state' = state /\ dispatch_chars' = dispatch_chars
        BY <3>4, ReadCharIs
      <3>6. EscapeRead' /\ EscapeCall'
        BY <1>4, <3>3, <3>5 DEF EscapeRead, EscapeCall
      <3>. QED
        BY <1>1, <1>2, <3>5, <3>6, EscapeOthers
    <2>4. CASE Next_ch \in Intermediate
      <3>1. \/ Leads(Tx, "Collect", "Escape_Intermediate")
            \/ Leads(Tx, "Collect", "") /\ state = "Escape_Intermediate"
        <4>1. CASE state = "Escape"
          BY <1>1, <1>6, <2>1, <2>4, <4>1, EscapeFacts
        <4>2. CASE state = "Escape_Intermediate"
          BY <1>1, <1>6, <2>1, <2>4, <4>2, EscapeIntermediateFacts
        <4>. QED
          BY <1>0, <4>1, <4>2
      <3>2. Next_ch >= 32 /\ Next_ch <= 47
        BY <2>4 DEF Intermediate
      <3>3. Next_ch \in Printable \ {127} /\ ~(Next_ch >= 160) /\ Next_ch \notin 48 .. 126
        <4>1. Next_ch \in Printable
          BY <1>1, <3>2, PrintableIs
        <4>2. Next_ch # 127 /\ ~(Next_ch >= 160) /\ Next_ch \notin 48 .. 126
          BY <1>3, <3>2
        <4>. QED
          BY <4>1, <4>2
      <3>4. Sofar' = Append(Sofar, Next_ch) /\ ~Ends(48 .. 126)'
        BY <1>1, <3>3 DEF Grown
      <3>5. /\ Tx.action = "Collect" /\ Tx.next \notin Entries
            /\ Tx.next = "Escape_Intermediate" \/ (Tx.next = "" /\ state = "Escape_Intermediate")
        BY <3>1 DEF Leads, Entries
      <3>6. state' = "Escape_Intermediate" /\ dispatch_chars' = collect(dispatch_chars, Next_ch)
        BY <3>5, ReadCharIs, DoneFacts
      <3>7. collect(dispatch_chars, Next_ch) = First_n(Only(Append(Sofar, Next_ch), Byte), CharLimit)
        <4>1. Next_ch \in Byte /\ Next_ch <= 255
          BY <1>3, <3>2 DEF Byte
        <4>2. Next_ch \in Byte <=> Next_ch <= 255
          BY <4>1
        <4>. QED
          BY <1>1, <1>4, <4>2, CollectedFirst
      <3>8. collect(dispatch_chars, Next_ch) # <<>>
        <4>1. dispatch_chars \in Seq(Byte)
          BY TypeParts DEF TextsOK
        <4>2. Next_ch <= 255
          BY <1>3, <3>2
        <4>. QED
          BY <4>1, <4>2, CollectedSome
      <3>9. Sofar' # <<>>
        BY <1>1, <3>4, AppendFacts
      <3>10. EscapeRead' /\ EscapeCall'
        BY <3>4, <3>6, <3>7, <3>8, <3>9 DEF EscapeRead, EscapeCall
      <3>11. "Escape_Intermediate" \in StatesOf("Escape")
        BY StatesAre
      <3>. QED
        BY <1>1, <1>2, <3>6, <3>10, <3>11, EscapeOthers
    <2>5. Next_ch \in 32 .. 63 => Next_ch \in Intermediate \/ Next_ch \in 48 .. 126
      BY DEF Intermediate
    <2>6. Next_ch \in 64 .. 126 => Next_ch \in 48 .. 126
      OBVIOUS
    <2>. QED
      BY <1>1, <1>6, <2>2, <2>3, <2>4, <2>5, <2>6, CharClasses
  <1>. QED
    BY <1>5, <1>6

-----------------------------------------------------------------------------
(* Strings *)

\* In a sequence that is neither a control sequence nor an escape sequence, only the strings count.
LEMMA OtherKinds ==
    ASSUME TypeOK, ReadChar, kind' \in {"DCS_Entry", "OSC_String", "SOS_PM_APC_String"},
           since' \in Seq(Char), state' = "Ground" \/ state' \in StatesOf(kind'), OSCText', Quiet'
    PROVE  GInv'
  <1>1. Introduction'
    BY DEF Introduction
  <1>2. state' \notin StatesOf("CSI_Entry") /\ state' \notin StatesOf("Escape")
    BY StatesApart
  <1>3. CSIRead' /\ EscapeRead'
    BY <1>2 DEF CSIRead, EscapeRead
  <1>4. CSICall' /\ EscapeCall'
    BY DEF CSICall, EscapeCall
  <1>. QED
    BY <1>1, <1>3, <1>4, TextStays DEF GInv, CallsFollowGrammar, CSICall, EscapeCall, OSCText, Quiet, TextKept

LEMMA OSCKeeps ==
    ASSUME TypeOK, GInv, ReadChar, state = "OSC_String", Tx.next \notin Introduced
    PROVE  GInv'
  <1>0. state # "Ground" /\ state \in StatesOf("OSC_String")
    BY StatesAre
  <1>1. /\ Next_ch \in Char /\ state \in StatesOf(kind) /\ kind' = kind
        /\ since \in Seq(Char) /\ since' = Append(since, Next_ch) /\ since' \in Seq(Char)
    BY <1>0, GoesOn
  <1>2. kind' = "OSC_String"
    BY <1>0, <1>1, StatesApart
  <1>3. Quiet'
    BY <1>2 DEF Quiet
  <1>4. ASSUME Tx.next = "Ground" PROVE GInv'
    <2>1. state' = "Ground"
      BY <1>4, ReadCharIs
    <2>2. OSCText'
      BY <2>1 DEF OSCText
    <2>. QED
      BY <1>1, <1>2, <1>3, <2>1, <2>2, OtherKinds
  <1>5. CASE IsAnywhere(Next_ch)
    <2>1. Tx.next = "Ground"
      BY <1>1, <1>5, AnywhereFacts DEF Tx
    <2>. QED
      BY <1>4, <2>1
  <1>6. CASE ~IsAnywhere(Next_ch)
    <2>1. Tx = OSCRule(Like(Next_ch))
      BY <1>1, <1>6, StateRules DEF Tx
    <2>2. OSC_string = First_n(Only(since, Printable), TextLimit)
      BY DEF GInv, CallsFollowGrammar
    <2>3. First_n(Only(since', Printable), TextLimit) =
            IF Next_ch \in Printable /\ Len(OSC_string) < TextLimit
            THEN Append(OSC_string, Next_ch) ELSE OSC_string
      BY <1>1, <2>2, KeptFirst, Limits
    <2>4. ASSUME Tx.next = "", OSC_string' = First_n(Only(since', Printable), TextLimit) PROVE GInv'
      <3>1. state' = "OSC_String"
        BY <2>4, ReadCharIs
      <3>2. OSCText'
        BY <2>4 DEF OSCText
      <3>. QED
        BY <1>0, <1>1, <1>2, <1>3, <3>1, <3>2, OtherKinds
    <2>5. CASE Next_ch \in Printable
      <3>1. Leads(Tx, "OSC_Put", "")
        BY <1>1, <1>6, <2>1, <2>5, OSCFacts
      <3>2. Tx.next = "" /\ Tx.action = "OSC_Put"
        BY <3>1 DEF Leads
      <3>3. OSC_string' = IF Len(OSC_string) < TextLimit THEN Append(OSC_string, Next_ch) ELSE OSC_string
        BY <3>2, ReadCharIs
      <3>. QED
        BY <2>3, <2>4, <2>5, <3>2, <3>3
    <2>6. CASE Next_ch \notin Printable
      <3>1. Leads(Tx, "Ignore", "") \/ Leads(Tx, "Ignore", "Ground")
        BY <1>1, <1>6, <2>1, <2>6, OSCFacts
      <3>2. Tx.action = "Ignore" /\ (Tx.next = "" \/ Tx.next = "Ground")
        BY <3>1 DEF Leads
      <3>3. OSC_string' = OSC_string
        BY <3>2, ReadCharIs
      <3>. QED
        BY <1>4, <2>3, <2>4, <2>6, <3>2, <3>3
    <2>. QED
      BY <2>5, <2>6
  <1>. QED
    BY <1>5, <1>6

\* Nothing comes of the other strings.
LEMMA IgnoredKeeps ==
    ASSUME TypeOK, GInv, ReadChar, Tx.next \notin Introduced,
           state \in StatesOf("DCS_Entry") \/ state = "SOS_PM_APC_String"
    PROVE  GInv'
  <1>0. /\ state # "Ground" /\ state # "OSC_String"
        /\ state = "SOS_PM_APC_String" => state \in StatesOf("SOS_PM_APC_String")
    BY StatesAre
  <1>1. Next_ch \in Char /\ state \in StatesOf(kind) /\ kind' = kind /\ since' \in Seq(Char)
    BY <1>0, GoesOn
  <1>2. kind' \in {"DCS_Entry", "SOS_PM_APC_String"} /\ (kind' = "DCS_Entry" <=> state \in StatesOf("DCS_Entry"))
    BY <1>0, <1>1, StatesApart
  <1>3. CASE IsAnywhere(Next_ch)
    <2>1. Tx.next = "Ground"
      BY <1>1, <1>3, AnywhereFacts DEF Tx
    <2>2. state' = "Ground"
      BY <2>1, ReadCharIs
    <2>3. OSCText' /\ Quiet'
      BY <2>2 DEF OSCText, Quiet
    <2>. QED
      BY <1>1, <1>2, <2>2, <2>3, OtherKinds
  <1>4. CASE ~IsAnywhere(Next_ch)
    <2>1. Tx.action \in {"Ignore", "Param", "Collect"} /\ state' \in StatesOf(kind')
      <3>1. CASE state \in StatesOf("DCS_Entry")
        <4>1. /\ Tx.next \in (StatesOf("DCS_Entry") \ {"DCS_Entry"}) \union {""}
              /\ Tx.action \in {"Ignore", "Param", "Collect"}
          BY <1>1, <1>4, <3>1, DCSFacts DEF Tx
        <4>. QED
          BY <1>2, <3>1, <4>1, ReadCharIs
      <3>2. CASE state = "SOS_PM_APC_String"
        <4>1. Tx = Ignore
          BY <1>1, <1>4, <3>2, StateRules DEF Tx
        <4>2. Tx.action = "Ignore" /\ Tx.next = ""
          BY <4>1, StepFacts DEF Leads
        <4>. QED
          BY <1>1, <4>2, ReadCharIs
      <3>. QED
        BY <3>1, <3>2
    <2>2. call'.fn = "none"
      BY <1>0, <2>1, DoneFacts, ReadCharIs
    <2>3. "OSC_String" \notin StatesOf("DCS_Entry") /\ "OSC_String" \notin StatesOf("SOS_PM_APC_String")
      BY StatesAre
    <2>4. OSCText' /\ Quiet'
      BY <1>2, <2>1, <2>2, <2>3 DEF OSCText, Quiet
    <2>. QED
      BY <1>1, <1>2, <2>1, <2>4, OtherKinds
  <1>. QED
    BY <1>3, <1>4

-----------------------------------------------------------------------------
(* Every step, and the theorem *)

LEMMA ReadCharFollows == ASSUME TypeOK, GInv, ReadChar PROVE GInv'
  <1>1. state \in States
    BY ReadFrom
  <1>2. CASE Tx.next \in Introduced
    BY <1>2, BeginKeeps
  <1>3. CASE Tx.next \notin Introduced
    BY <1>1, <1>3, StateKinds, GroundKeeps, CSIKeeps, EscapeKeeps, OSCKeeps, IgnoredKeeps
  <1>. QED
    BY <1>2, <1>3

\* What has been parsed does not depend on the bytes that wait.
LEMMA ReadByteFollows ==
    ASSUME GInv, UNCHANGED <<state, params, dispatch_chars, OSC_string, call, kind, since>>
    PROVE  GInv'
  <1>1. Sofar' = Sofar /\ Body' = Body
    BY DEF Sofar, Body
  <1>2. \A S : Key(S)' = Key(S) /\ Ends(S)' = Ends(S)
    BY <1>1 DEF Key, Ends
  <1>3. Introduction' /\ CSIRead' /\ EscapeRead'
    BY <1>1, <1>2 DEF GInv, Introduction, CSIRead, EscapeRead
  <1>4. CSICall /\ EscapeCall /\ OSCText /\ Quiet /\ TextKept
    BY GrammarParts DEF GInv
  <1>5. CSICall' /\ EscapeCall' /\ OSCText' /\ Quiet' /\ TextKept'
    BY <1>1, <1>2, <1>4 DEF CSICall, EscapeCall, OSCText, Quiet, TextKept
  <1>. QED
    BY <1>3, <1>5 DEF GInv, CallsFollowGrammar, CSICall, EscapeCall, OSCText, Quiet, TextKept

LEMMA InitFollows == Init => GInv
  <1>. SUFFICES ASSUME Init PROVE GInv
    OBVIOUS
  <1>1. state = "Ground" /\ kind = "Ground" /\ since = <<>> /\ call = NoCall
    BY DEF Init
  <1>2. Introduction
    <2>1. <<>> \in Seq(Char)
      OBVIOUS
    <2>. QED
      BY <1>1, <2>1 DEF Introduction
  <1>3. CSIRead /\ EscapeRead
    BY <1>1, StatesApart DEF CSIRead, EscapeRead
  <1>4. CSICall /\ EscapeCall /\ OSCText /\ Quiet /\ TextKept
    BY <1>1 DEF CSICall, EscapeCall, OSCText, Quiet, TextKept, NoCall
  <1>. QED
    BY <1>2, <1>3, <1>4, GrammarParts DEF GInv

\* The functions the emulator executes are those that the grammar of control sequences gives, for
\* every stream of bytes, broken characters and interrupted sequences included, and for whatever
\* limits on the strings kept: the fourteen states of parserstate.cc and the strings the
\* Dispatcher collects always say what the sequence since its introducer would, read as a whole.
THEOREM GrammarIsFollowed == Spec => []CallsFollowGrammar
  <1>1. TypeOK /\ GInv /\ [Next]_vars => GInv'
    <2>1. ASSUME TypeOK, GInv, NEW b \in Bytes, ReadByte(b) PROVE GInv'
      BY <2>1, ReadByteFollows DEF ReadByte
    <2>2. ASSUME GInv, UNCHANGED vars PROVE GInv'
      BY <2>2, ReadByteFollows DEF vars
    <2>. QED
      BY <2>1, <2>2, ReadCharFollows DEF Next
  <1>2. GInv => CallsFollowGrammar
    BY DEF GInv
  <1>. QED
    BY <1>1, <1>2, InitFollows, TypeInvariant, PTL DEF Spec
=============================================================================
