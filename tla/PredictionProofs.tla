-------------------------- MODULE PredictionProofs --------------------------
(***************************************************************************)
(* The prediction engine keeps its promises for any screens and sizes, any *)
(* keys, any thresholds and any bounds.                                    *)
(*                                                                         *)
(* What makes it so, by the parts of IInv:                                 *)
(*  - Fitting: a cull drops what was predicted for another size, and a key *)
(*    and a frame each begin with a cull by the screen they are for.       *)
(*  - LookedAt: each cull leaves the trigger as high as the age of what is *)
(*    still pending asks for (Timely), whatever quick confirmations took   *)
(*    from it before, and wait_time wakes the loop a unit later unless the *)
(*    predictions are underlined already.                                  *)
(*  - Honest: one place is predicted once (DistinctRows), tentative        *)
(*    predictions are not drawn, and a key never predicts for credit what  *)
(*    the screen shows; so what a tentative prediction may earn credit for *)
(*    is on the user's screen only if the host put it there.               *)
(*  - Secret: of an engine that overwrites, an epoch is typed either under *)
(*    echo or in silence (Epochs), and no silent one is confirmed, as the  *)
(*    host's screen shows nothing of it (HostIsSilent: the keys under way  *)
(*    that it will not echo are Quiet).                                    *)
(*                                                                         *)
(* The engine's operations are followed in two kinds of steps: a cull      *)
(* (Culled) only takes predictions away and may confirm epochs (Credit); a *)
(* key (Edited) only adds predictions of the present epoch (New).          *)
(***************************************************************************)
EXTENDS Prediction, FiniteSetTheorems, TLAPS

-----------------------------------------------------------------------------
(* Types *)

Glyph == Echoed \cup Silent \cup {Blank, Text}
Cell == [active : BOOLEAN, unknown : BOOLEAN, replacement : Glyph, originals : SUBSET Glyph,
         expiration : Nat, epoch : Nat, time : Nat]
CursorMove(size) == [row : Rows(size[1]), col : Cols(size[2]), expiration : Nat, epoch : Nat]
OverlayRow(size) == [row : Rows(size[1]), cells : [Cols(size[2]) -> Cell]]

Engine(size) ==
    [cursors : Seq(CursorMove(size)), overlays : Seq(OverlayRow(size)),
     prediction_epoch : Nat, confirmed_epoch : Nat, sent : Nat, late : Nat, size : {size},
     srtt_trigger : BOOLEAN, flagging : BOOLEAN, glitch_trigger : Nat, quick : Nat,
     interval : Nat, preference : Preferences, overwrite : BOOLEAN]

ScreenIn(size) ==
    [size : {size}, row : Rows(size[1]), col : Cols(size[2]),
     cells : [Rows(size[1]) -> [Cols(size[2]) -> Glyph]]]
Screens == UNION {ScreenIn(size) : size \in Sizes}

KeyIn ==
    [kind : {"print", "paste"}, glyph : Echoed \cup Silent]
    \cup [kind : {"return", "control"}, echo : BOOLEAN]
    \cup [kind : {"resize"}, size : Sizes]
    \cup [kind : {"backspace", "wide", "right", "left"}]

Empty(p) == p.cursors = <<>> /\ p.overlays = <<>>

\* The types, and what numbers and sizes owe each other.
Typed ==
    /\ engine \in Engine(engine.size) /\ engine.sent <= frame_num
    /\ local_framebuffer \in Screens /\ host_framebuffer \in Screens
    /\ host_framebuffer.size = local_framebuffer.size
    /\ latest \in [fb : Screens, echo_ack : Nat] /\ screen \in Screens
    /\ phase \in {"select", "woken", "heard", "typed"}
    /\ now \in Nat /\ now >= GLITCH_REPAIR_MININTERVAL
    /\ keys \in Seq(KeyIn) /\ unsent \in Nat
    /\ frame_num \in Nat /\ echo_ack \in Nat /\ typed \in Nat
    /\ host_echoes \in BOOLEAN /\ typing_echoes \in BOOLEAN

\* What was predicted for another size is gone before the screen changes; Never predicts nothing.
Fitting ==
    /\ engine.size = local_framebuffer.size \/ Empty(engine)
    /\ engine.preference = "Never" => Empty(engine)

DistinctRows(p) ==
    \A i, j \in DOMAIN p.overlays : p.overlays[i].row = p.overlays[j].row => i = j

\* The predictions there are, each with its place.
Predictions(p) ==
    UNION {{[row |-> p.overlays[i].row, col |-> c, cell |-> p.overlays[i].cells[c]] :
                c \in {d \in DOMAIN p.overlays[i].cells : p.overlays[i].cells[d].active}} :
           i \in DOMAIN p.overlays}

-----------------------------------------------------------------------------
(* Late predictions *)

\* The trigger is as high as the age of x at t asks for.
Timely(p, t, x) ==
    /\ t - x.cell.time >= GLITCH_THRESHOLD => p.glitch_trigger > 0
    /\ t - x.cell.time >= GLITCH_FLAG_THRESHOLD => p.glitch_trigger > GLITCH_REPAIR_COUNT

Underlined(p) == p.glitch_trigger > 0 /\ p.flagging

\* What is pending was looked at in time: by the last frame, or a unit of time ago.
LookedAt ==
    engine.preference # "Never" =>
        \/ Underlined(engine)
        \/ \A x \in Predictions(engine) :
              Timely(engine, IF phase = "select" THEN now ELSE now - 1, x)

-----------------------------------------------------------------------------
(* Credit *)

Creditable(cell) ==
    ~cell.unknown /\ cell.replacement # Blank /\ cell.replacement \notin cell.originals

\* What a prediction may be given credit for, no other prediction has put on the screen.
HonestAt(x) ==
    Creditable(x.cell) /\ Tentative(x.cell, engine.confirmed_epoch)
    /\ local_framebuffer.cells[x.row][x.col] = x.cell.replacement
        => host_framebuffer.cells[x.row][x.col] = x.cell.replacement

Honest == DistinctRows(engine) /\ \A x \in Predictions(engine) : HonestAt(x)

-----------------------------------------------------------------------------
(* Silence *)

\* A screen shows nothing that was typed in silence.
Silence(fb) ==
    \A row \in DOMAIN fb.cells : \A col \in DOMAIN fb.cells[row] :
       fb.cells[row][col] \notin Silent

\* The host will not echo key i.
Quiet(i) ==
    \/ /\ ~host_echoes
       /\ \A j \in 1 .. i - 1 : ~ChangesEcho(keys[j])
    \/ \E j \in 1 .. i - 1 :
          /\ ChangesEcho(keys[j]) /\ ~keys[j].echo
          /\ \A k \in j + 1 .. i - 1 : ~ChangesEcho(keys[k])

\* What was typed in silence reaches a host that does not echo.
HostIsSilent ==
    /\ \A i \in DOMAIN keys :
          keys[i].kind \in {"print", "paste"} /\ keys[i].glyph \in Silent => Quiet(i)
    /\ ~typing_echoes => Quiet(Len(keys) + 1)
    /\ Silence(screen) /\ Silence(latest.fb) /\ Silence(host_framebuffer)

Visible(cell) == ~cell.unknown /\ cell.replacement # Blank
IsSilent(cell) == Visible(cell) /\ cell.replacement \in Silent

\* An epoch begins when echoing changes, and a later one is judged no earlier.
Epochs(p, echoes) ==
    /\ p.confirmed_epoch <= p.prediction_epoch
    /\ ~echoes => p.confirmed_epoch < p.prediction_epoch
    /\ \A x \in Predictions(p) :
          /\ x.cell.epoch <= p.prediction_epoch
          /\ x.cell.expiration <= p.sent + 1
          /\ Visible(x.cell) /\ x.cell.epoch = p.prediction_epoch => (IsSilent(x.cell) <=> ~echoes)
          /\ IsSilent(x.cell) => x.cell.epoch > p.confirmed_epoch
    /\ \A x, y \in Predictions(p) :
          /\ x.cell.epoch < y.cell.epoch => x.cell.expiration <= y.cell.expiration
          /\ Visible(x.cell) /\ Visible(y.cell) /\ x.cell.epoch = y.cell.epoch
                => (IsSilent(x.cell) <=> IsSilent(y.cell))

Overwriting(p) == p.overwrite /\ p.preference \notin {"Experimental", "Never"}

Secret ==
    /\ Overwriting(engine) => Epochs(engine, typing_echoes)
    /\ engine.overwrite /\ engine.preference # "Experimental" => Silence(local_framebuffer)

IInv ==
    /\ Typed /\ Fitting /\ LookedAt /\ Honest /\ HostIsSilent /\ Secret /\ JudgedAreGone

-----------------------------------------------------------------------------
(* Iteration *)

\* Numbers have a least one.
LEMMA LeastNum ==
    ASSUME NEW T, T \subseteq Nat, T # {}
    PROVE  \E a \in T : \A b \in T : a <= b
  <1>. DEFINE Below(t) == {b \in T : b <= t}
              Family == {Below(t) : t \in T}
  <1>1. ASSUME NEW t \in T PROVE Below(t) \in FiniteSubsetsOf(T)
    <2>1. IsFiniteSet(0 .. t)
      BY FS_Interval, 0 \in Int, t \in Int
    <2>2. Below(t) \subseteq 0 .. t
      <3>1. \A b \in T : b \in Nat /\ (b <= t => b \in 0 .. t)
        OBVIOUS
      <3>. QED
        BY <3>1
    <2>. QED
      BY <2>1, <2>2, FS_Subset DEF FiniteSubsetsOf
  <1>2. Family # {} /\ Family \subseteq FiniteSubsetsOf(T)
    BY <1>1
  <1>3. PICK least \in Family : \A f \in Family : <<f, least>> \notin StrictSubsetOrdering(T)
    BY <1>2, FS_StrictSubsetOrderingWellFounded, WFMin
  <1>4. PICK a \in T : least = Below(a)
    OBVIOUS
  <1>5. ASSUME NEW b \in T, b < a PROVE FALSE
    <2>1. a \in Below(a) /\ a \notin Below(b)
      BY <1>5, a \in Nat, b \in Nat
    <2>2. \A c \in T : c <= b => c <= a
      BY <1>5
    <2>3. <<Below(b), Below(a)>> \in StrictSubsetOrdering(T)
      BY <2>1, <2>2 DEF StrictSubsetOrdering
    <2>. QED
      BY <1>3, <1>4, <2>3
  <1>. QED
    BY <1>5

\* From 0 up, one step at a time (the library's induction theorem takes an operator).
LEMMA Induction ==
    ASSUME NEW n \in Nat, NEW T, 0 \in T, \A m \in 0 .. n - 1 : m \in T => m + 1 \in T
    PROVE  0 .. n \subseteq T
  <1>. DEFINE U == {m \in 0 .. n : m \notin T}
  <1>. SUFFICES ASSUME U # {} PROVE FALSE
    OBVIOUS
  <1>1. U \subseteq Nat
    OBVIOUS
  <1>. HIDE DEF U
  <1>2. PICK a \in U : \A b \in U : a <= b
    BY <1>1, LeastNum
  <1>3. a \in 0 .. n /\ a \notin T /\ a # 0
    BY <1>2 DEF U
  <1>4. a - 1 \in 0 .. n - 1 /\ a - 1 \in T /\ (a - 1) + 1 = a
    BY <1>2, <1>3 DEF U
  <1>. QED
    BY <1>3, <1>4

\* A loop goes through the values r that its steps make one of the other.
IsLoop(S, p, n, step, r) ==
    /\ r \in [0 .. n -> S] /\ r[0] = p
    /\ \A m \in 0 .. n - 1 : r[m + 1] = step[m][r[m]]

\* Every loop runs to its end.
LEMMA LoopExists ==
    ASSUME NEW S, NEW p \in S, NEW n \in Nat, NEW step \in [0 .. n - 1 -> [S -> S]]
    PROVE  \E r : IsLoop(S, p, n, step, r)
  <1>. DEFINE Runs(r, m) == r[0] = p /\ \A k \in 0 .. m - 1 : r[k + 1] = step[k][r[k]]
              T == {m \in 0 .. n : \E r \in [0 .. m -> S] : Runs(r, m)}
  <1>1. 0 \in T
    <2>. DEFINE r == [k \in 0 .. 0 |-> p]
    <2>1. r \in [0 .. 0 -> S] /\ Runs(r, 0) /\ 0 \in 0 .. n
      OBVIOUS
    <2>. HIDE DEF r, Runs
    <2>. QED
      BY <2>1
  <1>2. ASSUME NEW m \in 0 .. n - 1, m \in T PROVE m + 1 \in T
    <2>1. PICK r \in [0 .. m -> S] : Runs(r, m)
      BY <1>2
    <2>. DEFINE q == [k \in 0 .. m + 1 |-> IF k = m + 1 THEN step[m][r[m]] ELSE r[k]]
    <2>2. step[m][r[m]] \in S
      OBVIOUS
    <2>3. q \in [0 .. m + 1 -> S]
      <3>1. ASSUME NEW k \in 0 .. m + 1, k # m + 1 PROVE r[k] \in S
        <4>1. k \in 0 .. m
          BY <3>1
        <4>. QED
          BY <4>1
      <3>. QED
        BY <2>2, <3>1
    <2>4. q[m + 1] = step[m][r[m]] /\ \A k \in 0 .. m : q[k] = r[k]
      OBVIOUS
    <2>. HIDE DEF q
    <2>5. ASSUME NEW k \in 0 .. (m + 1) - 1 PROVE q[k + 1] = step[k][q[k]]
      <3>1. CASE k = m
        BY <3>1, <2>4
      <3>2. CASE k # m
        <4>1. k \in 0 .. m - 1 /\ k \in 0 .. m /\ k + 1 \in 0 .. m
          BY <3>2
        <4>. QED
          BY <4>1, <2>1, <2>4
      <3>. QED
        BY <3>1, <3>2
    <2>6. q[0] = p
      BY <2>1, <2>4
    <2>. QED
      BY <2>3, <2>5, <2>6
  <1>3. n \in T
    <2>. HIDE DEF T
    <2>1. 0 .. n \subseteq T
      BY <1>1, <1>2, Induction
    <2>. QED
      BY <2>1
  <1>. QED
    BY <1>3 DEF IsLoop

-----------------------------------------------------------------------------
(* What Only keeps *)

\* The function by which Only is defined.
LEMMA OnlyLoop ==
    ASSUME NEW C, NEW s \in Seq(C), NEW S
    PROVE  \E r \in [0 .. Len(s) -> Seq(C)] :
              /\ r[0] = <<>> /\ Only(s, S) = r[Len(s)]
              /\ \A m \in 0 .. Len(s) - 1 :
                    r[m + 1] = IF s[m + 1] \in S THEN Append(r[m], s[m + 1]) ELSE r[m]
  <1>. DEFINE n == Len(s)
              Body(f, k) == IF k = 0 THEN <<>>
                            ELSE IF s[k] \in S THEN Append(f[k - 1], s[k]) ELSE f[k - 1]
              R == CHOOSE f : f = [k \in 0 .. n |-> IF k = 0 THEN <<>>
                            ELSE IF s[k] \in S THEN Append(f[k - 1], s[k]) ELSE f[k - 1]]
              step == [m \in 0 .. n - 1 |-> [q \in Seq(C) |->
                        IF s[m + 1] \in S THEN Append(q, s[m + 1]) ELSE q]]
  <1>1. n \in Nat /\ \A m \in 0 .. n - 1 : s[m + 1] \in C
    OBVIOUS
  <1>2. step \in [0 .. n - 1 -> [Seq(C) -> Seq(C)]]
    <2>1. ASSUME NEW m \in 0 .. n - 1, NEW q \in Seq(C)
          PROVE  (IF s[m + 1] \in S THEN Append(q, s[m + 1]) ELSE q) \in Seq(C)
      BY <1>1
    <2>. HIDE DEF n
    <2>. QED
      BY <2>1
  <1>3. <<>> \in Seq(C)
    OBVIOUS
  <1>4. PICK r \in [0 .. n -> Seq(C)] :
            r[0] = <<>> /\ \A m \in 0 .. n - 1 : r[m + 1] = step[m][r[m]]
    <2>. HIDE DEF step, n
    <2>1. \E r : IsLoop(Seq(C), <<>>, n, step, r)
      BY <1>1, <1>2, <1>3, LoopExists
    <2>. QED
      BY <2>1 DEF IsLoop
  <1>. HIDE DEF n
  <1>5. ASSUME NEW m \in 0 .. n - 1
        PROVE  r[m + 1] = IF s[m + 1] \in S THEN Append(r[m], s[m + 1]) ELSE r[m]
    <2>1. r[m] \in Seq(C)
      BY <1>1
    <2>. QED
      BY <1>4, <2>1
  <1>. HIDE DEF step
  <1>6. ASSUME NEW k \in 0 .. n PROVE r[k] = Body(r, k)
    <2>1. CASE k = 0
      BY <2>1, <1>4
    <2>2. CASE k # 0
      <3>1. k - 1 \in 0 .. n - 1 /\ (k - 1) + 1 = k
        BY <2>2, <1>1
      <3>. QED
        BY <2>2, <3>1, <1>5
    <2>. QED
      BY <2>1, <2>2
  <1>7. r = [k \in 0 .. n |-> Body(r, k)]
    BY <1>6
  <1>8. R = [k \in 0 .. n |-> Body(R, k)]
    BY <1>7
  <1>9. Only(s, S) = R[n]
    BY DEF Only, n
  <1>. HIDE DEF R
  <1>10. \A k \in 0 .. n : R[k] = Body(R, k)
    BY <1>8
  <1>11. ASSUME NEW m \in 0 .. n - 1
         PROVE  R[m + 1] = IF s[m + 1] \in S THEN Append(R[m], s[m + 1]) ELSE R[m]
    <2>1. m + 1 \in 0 .. n /\ m + 1 # 0 /\ (m + 1) - 1 = m
      BY <1>1
    <2>. QED
      BY <1>10, <2>1
  <1>12. R[0] = <<>>
    BY <1>1, <1>10
  <1>. DEFINE T == {m \in 0 .. n : R[m] = r[m]}
  <1>13. 0 \in T
    BY <1>1, <1>4, <1>12
  <1>14. ASSUME NEW m \in 0 .. n - 1, m \in T PROVE m + 1 \in T
    <2>1. m + 1 \in 0 .. n /\ R[m] = r[m]
      BY <1>1, <1>14
    <2>2. R[m + 1] = r[m + 1]
      BY <1>5, <1>11, <2>1
    <2>. QED
      BY <2>1, <2>2
  <1>15. R[n] = r[n]
    <2>. HIDE DEF T
    <2>1. 0 .. n \subseteq T
      BY <1>1, <1>13, <1>14, Induction
    <2>. QED
      BY <1>1, <2>1 DEF T
  <1>. QED
    BY <1>4, <1>5, <1>9, <1>15 DEF n

\* Only keeps elements of the sequence, and those of S alone.
LEMMA OnlyType ==
    ASSUME NEW C, NEW s \in Seq(C), NEW S
    PROVE  Only(s, S) \in Seq(C \cap S)
  <1>. DEFINE n == Len(s)
              D == C \cap S
  <1>1. PICK r \in [0 .. n -> Seq(C)] :
            /\ r[0] = <<>> /\ Only(s, S) = r[n]
            /\ \A m \in 0 .. n - 1 :
                  r[m + 1] = IF s[m + 1] \in S THEN Append(r[m], s[m + 1]) ELSE r[m]
    BY OnlyLoop
  <1>2. n \in Nat /\ \A m \in 0 .. n - 1 : s[m + 1] \in C
    OBVIOUS
  <1>. DEFINE T == {m \in 0 .. n : r[m] \in Seq(D)}
  <1>. HIDE DEF n
  <1>3. 0 \in T
    BY <1>1, <1>2
  <1>4. ASSUME NEW m \in 0 .. n - 1, m \in T PROVE m + 1 \in T
    <2>1. m + 1 \in 0 .. n /\ r[m] \in Seq(D)
      BY <1>2, <1>4
    <2>2. CASE s[m + 1] \in S
      <3>1. s[m + 1] \in D
        BY <1>2, <2>2
      <3>. HIDE DEF D
      <3>2. Append(r[m], s[m + 1]) \in Seq(D)
        BY <2>1, <3>1
      <3>. QED
        BY <1>1, <2>1, <2>2, <3>2
    <2>3. CASE s[m + 1] \notin S
      BY <1>1, <2>1, <2>3
    <2>. QED
      BY <2>2, <2>3
  <1>5. n \in T
    <2>. HIDE DEF T
    <2>1. 0 .. n \subseteq T
      BY <1>2, <1>3, <1>4, Induction
    <2>. QED
      BY <1>2, <2>1
  <1>. QED
    BY <1>1, <1>5

\* What is all in S is kept as it is.
LEMMA OnlyAll ==
    ASSUME NEW C, NEW s \in Seq(C), NEW S, \A i \in 1 .. Len(s) : s[i] \in S
    PROVE  Only(s, S) = s
  <1>. DEFINE n == Len(s)
  <1>1. PICK r \in [0 .. n -> Seq(C)] :
            /\ r[0] = <<>> /\ Only(s, S) = r[n]
            /\ \A m \in 0 .. n - 1 :
                  r[m + 1] = IF s[m + 1] \in S THEN Append(r[m], s[m + 1]) ELSE r[m]
    BY OnlyLoop
  <1>2. n \in Nat /\ \A m \in 1 .. n : s[m] \in C /\ s[m] \in S
    OBVIOUS
  <1>. DEFINE Same(m) == Len(r[m]) = m /\ \A i \in 1 .. m : r[m][i] = s[i]
              T == {m \in 0 .. n : Same(m)}
  <1>. HIDE DEF n
  <1>3. 0 \in T
    BY <1>1, <1>2
  <1>4. ASSUME NEW m \in 0 .. n - 1, m \in T PROVE m + 1 \in T
    <2>1. m \in Nat /\ m + 1 \in 0 .. n /\ m + 1 \in 1 .. n /\ m \in 0 .. n
      BY <1>2
    <2>2. r[m] \in Seq(C) /\ Same(m)
      BY <1>4, <2>1
    <2>3. r[m + 1] = Append(r[m], s[m + 1]) /\ s[m + 1] \in C
      BY <1>1, <1>2, <2>1
    <2>4. Same(m + 1)
      BY <2>1, <2>2, <2>3
    <2>. HIDE DEF Same
    <2>. QED
      BY <2>1, <2>4
  <1>5. Same(n)
    <2>. HIDE DEF T
    <2>1. 0 .. n \subseteq T
      BY <1>2, <1>3, <1>4, Induction
    <2>. QED
      BY <1>2, <2>1 DEF T
  <1>6. r[n] \in Seq(C) /\ Len(s) = n
    BY <1>2 DEF n
  <1>. QED
    BY <1>1, <1>5, <1>6

-----------------------------------------------------------------------------
(* What the operations of the engine leave alone *)

\* The same settings.
Kept(p, q) ==
    /\ q.sent = p.sent /\ q.late = p.late /\ q.preference = p.preference
    /\ q.overwrite = p.overwrite /\ q.flagging = p.flagging

Steady(p, q) ==
    /\ Kept(p, q) /\ q.confirmed_epoch = p.confirmed_epoch
    /\ q.glitch_trigger = p.glitch_trigger /\ q.quick = p.quick

\* Predictions, an active cell at a time.
LEMMA PredictionsIn ==
    ASSUME NEW p, NEW x
    PROVE  x \in Predictions(p) <=>
              \E i \in DOMAIN p.overlays : \E c \in DOMAIN p.overlays[i].cells :
                 /\ p.overlays[i].cells[c].active
                 /\ x = [row |-> p.overlays[i].row, col |-> c, cell |-> p.overlays[i].cells[c]]
  BY DEF Predictions

LEMMA NoOverlays == ASSUME NEW p, p.overlays = <<>> PROVE Predictions(p) = {}
  BY DEF Predictions

LEMMA SamePredictions ==
    ASSUME NEW p, NEW q, q.overlays = p.overlays PROVE Predictions(q) = Predictions(p)
  BY DEF Predictions

\* The fields of an engine, of a row and of a prediction have their types.
LEMMA EngineParts ==
    ASSUME NEW size, NEW p \in Engine(size)
    PROVE  /\ p.cursors \in Seq(CursorMove(size)) /\ p.overlays \in Seq(OverlayRow(size))
           /\ p.prediction_epoch \in Nat /\ p.confirmed_epoch \in Nat /\ p.sent \in Nat
           /\ p.late \in Nat /\ p.size = size /\ p.glitch_trigger \in Nat /\ p.quick \in Nat
           /\ p.preference \in Preferences /\ p.overwrite \in BOOLEAN
           /\ p.flagging \in BOOLEAN /\ p.srtt_trigger \in BOOLEAN /\ p.interval \in Nat
  BY DEF Engine

LEMMA RowParts ==
    ASSUME NEW size, NEW p \in Engine(size), NEW i \in DOMAIN p.overlays
    PROVE  /\ p.overlays[i].row \in Rows(size[1]) /\ i \in 1 .. Len(p.overlays)
           /\ p.overlays[i].cells \in [Cols(size[2]) -> Cell]
           /\ p.overlays[i] = [row |-> p.overlays[i].row, cells |-> p.overlays[i].cells]
  <1>1. p.overlays \in Seq(OverlayRow(size))
    BY EngineParts
  <1>2. p.overlays[i] \in OverlayRow(size) /\ i \in 1 .. Len(p.overlays)
    BY <1>1
  <1>. QED
    BY <1>2 DEF OverlayRow

LEMMA PredictionParts ==
    ASSUME NEW size, NEW p \in Engine(size), NEW x \in Predictions(p)
    PROVE  /\ x.row \in Rows(size[1]) /\ x.col \in Cols(size[2]) /\ x.cell \in Cell
           /\ x.cell.active /\ x.cell.expiration \in Nat /\ x.cell.epoch \in Nat
           /\ x.cell.time \in Nat /\ x.cell.unknown \in BOOLEAN
           /\ x.cell.replacement \in Glyph /\ x.cell.originals \subseteq Glyph
  <1>1. PICK i \in DOMAIN p.overlays : \E c \in DOMAIN p.overlays[i].cells :
           /\ p.overlays[i].cells[c].active
           /\ x = [row |-> p.overlays[i].row, col |-> c, cell |-> p.overlays[i].cells[c]]
    BY PredictionsIn
  <1>2. PICK c \in DOMAIN p.overlays[i].cells :
           /\ p.overlays[i].cells[c].active
           /\ x = [row |-> p.overlays[i].row, col |-> c, cell |-> p.overlays[i].cells[c]]
    BY <1>1
  <1>3. p.overlays[i].row \in Rows(size[1]) /\ p.overlays[i].cells \in [Cols(size[2]) -> Cell]
    BY RowParts
  <1>4. x.row \in Rows(size[1]) /\ x.col \in Cols(size[2]) /\ x.cell \in Cell /\ x.cell.active
    BY <1>2, <1>3
  <1>. QED
    BY <1>4 DEF Cell

LEMMA RowColumns ==
    ASSUME NEW size, NEW p \in Engine(size), NEW i \in DOMAIN p.overlays
    PROVE  DOMAIN p.overlays[i].cells = Cols(size[2])
  BY RowParts

-----------------------------------------------------------------------------
(* The fields of the engine, one at a time *)

\* Replacing one field of an engine keeps the others.
LEMMA WithCursors ==
    ASSUME NEW size, NEW p \in Engine(size), NEW cursors \in Seq(CursorMove(size)),
           NEW q, q = [p EXCEPT !.cursors = cursors]
    PROVE  /\ q \in Engine(size) /\ q.cursors = cursors /\ q.overlays = p.overlays
           /\ q.prediction_epoch = p.prediction_epoch /\ Steady(p, q)
  BY DEF Engine, Steady, Kept

LEMMA WithOverlays ==
    ASSUME NEW size, NEW p \in Engine(size), NEW overlays \in Seq(OverlayRow(size)),
           NEW q, q = [p EXCEPT !.overlays = overlays]
    PROVE  /\ q \in Engine(size) /\ q.overlays = overlays /\ q.cursors = p.cursors
           /\ q.prediction_epoch = p.prediction_epoch /\ Steady(p, q)
  BY DEF Engine, Steady, Kept

LEMMA WithEpoch ==
    ASSUME NEW size, NEW p \in Engine(size), NEW epoch \in Nat,
           NEW q, q = [p EXCEPT !.prediction_epoch = epoch]
    PROVE  /\ q \in Engine(size) /\ q.overlays = p.overlays /\ q.cursors = p.cursors
           /\ q.prediction_epoch = epoch /\ Steady(p, q)
  BY DEF Engine, Steady, Kept

\* become_tentative begins an epoch and touches nothing else.
LEMMA BecomeTentativeFacts ==
    ASSUME NEW size, NEW p \in Engine(size), NEW q, q = BecomeTentative(p)
    PROVE  /\ q \in Engine(size) /\ q.overlays = p.overlays /\ q.cursors = p.cursors
           /\ Steady(p, q)
           /\ q.prediction_epoch =
                 p.prediction_epoch + (IF p.preference = "Experimental" THEN 0 ELSE 1)
  <1>0. p.prediction_epoch \in Nat /\ p.prediction_epoch + 1 \in Nat
    BY EngineParts
  <1>1. CASE p.preference = "Experimental"
    BY <1>0, <1>1 DEF BecomeTentative, Steady, Kept
  <1>2. CASE p.preference # "Experimental"
    <2>1. q = [p EXCEPT !.prediction_epoch = p.prediction_epoch + 1]
      BY <1>2 DEF BecomeTentative
    <2>2. /\ q \in Engine(size) /\ q.overlays = p.overlays /\ q.cursors = p.cursors
          /\ q.prediction_epoch = p.prediction_epoch + 1 /\ Steady(p, q)
      BY <1>0, <2>1, WithEpoch
    <2>. QED
      BY <1>2, <2>2
  <1>. QED
    BY <1>1, <1>2

\* reset forgets all predictions.
LEMMA ResetFacts ==
    ASSUME NEW size, NEW p \in Engine(size), NEW q, q = Reset(p)
    PROVE  /\ q \in Engine(size) /\ Empty(q) /\ Predictions(q) = {} /\ Steady(p, q)
           /\ q.prediction_epoch =
                 p.prediction_epoch + (IF p.preference = "Experimental" THEN 0 ELSE 1)
  <1>. DEFINE b == [p EXCEPT !.cursors = <<>>, !.overlays = <<>>]
  <1>1. /\ b \in Engine(size) /\ b.overlays = <<>> /\ b.cursors = <<>> /\ Steady(p, b)
        /\ b.prediction_epoch = p.prediction_epoch /\ b.preference = p.preference
    <2>. DEFINE none == <<>>
                a == [p EXCEPT !.cursors = none]
    <2>1. none \in Seq(CursorMove(size)) /\ none \in Seq(OverlayRow(size))
      OBVIOUS
    <2>2. a = [p EXCEPT !.cursors = none]
      OBVIOUS
    <2>2b. b = [a EXCEPT !.overlays = none]
      OBVIOUS
    <2>. HIDE DEF a, b, none
    <2>3. /\ a \in Engine(size) /\ a.cursors = none /\ Steady(p, a)
          /\ a.prediction_epoch = p.prediction_epoch
      BY <2>1, <2>2, WithCursors
    <2>4. /\ b \in Engine(size) /\ b.cursors = a.cursors /\ b.overlays = none /\ Steady(a, b)
          /\ b.prediction_epoch = a.prediction_epoch
      BY <2>1, <2>2b, <2>3, WithOverlays
    <2>. QED
      BY <2>3, <2>4 DEF Steady, Kept, none
  <1>2. q = BecomeTentative(b)
    BY DEF Reset
  <1>. HIDE DEF b
  <1>3. /\ q \in Engine(size) /\ q.overlays = <<>> /\ q.cursors = <<>> /\ Steady(b, q)
        /\ q.prediction_epoch =
                 b.prediction_epoch + (IF b.preference = "Experimental" THEN 0 ELSE 1)
    BY <1>1, <1>2, BecomeTentativeFacts
  <1>. QED
    BY <1>1, <1>3, NoOverlays DEF Empty, Steady, Kept

-----------------------------------------------------------------------------
(* Cursors *)

\* Moving and adding cursors leaves the cells alone and keeps cursors on the screen.
LEMMA PushCursorFacts ==
    ASSUME NEW size, NEW p \in Engine(size), NEW row \in Rows(size[1]), NEW col \in Cols(size[2]),
           NEW q, q = PushCursor(p, row, col)
    PROVE  /\ q \in Engine(size) /\ q.overlays = p.overlays /\ q.cursors # <<>>
           /\ q.prediction_epoch = p.prediction_epoch /\ Steady(p, q)
           /\ Cursor(q).row = row /\ Cursor(q).col = col
  <1>. DEFINE move == [row |-> row, col |-> col, expiration |-> p.sent + 1,
                       epoch |-> p.prediction_epoch]
              cursors == Append(p.cursors, move)
  <1>1. p.cursors \in Seq(CursorMove(size)) /\ p.sent \in Nat /\ p.prediction_epoch \in Nat
    BY EngineParts
  <1>2. move \in CursorMove(size) /\ move.row = row /\ move.col = col
    BY <1>1 DEF CursorMove
  <1>3. q = [p EXCEPT !.cursors = cursors]
    BY DEF PushCursor
  <1>. HIDE DEF move
  <1>4. /\ cursors \in Seq(CursorMove(size)) /\ cursors # <<>> /\ Last(cursors) = move
    BY <1>1, <1>2 DEF Last
  <1>. HIDE DEF cursors
  <1>5. /\ q \in Engine(size) /\ q.cursors = cursors /\ q.overlays = p.overlays
        /\ q.prediction_epoch = p.prediction_epoch /\ Steady(p, q)
    BY <1>3, <1>4, WithCursors
  <1>. QED
    BY <1>2, <1>4, <1>5 DEF Cursor

LEMMA CursorParts ==
    ASSUME NEW size, NEW p \in Engine(size), p.cursors # <<>>
    PROVE  /\ Len(p.cursors) \in 1 .. Len(p.cursors) /\ Cursor(p) = p.cursors[Len(p.cursors)]
           /\ Cursor(p) \in CursorMove(size)
           /\ Cursor(p).row \in Rows(size[1]) /\ Cursor(p).col \in Cols(size[2])
  <1>1. p.cursors \in Seq(CursorMove(size))
    BY EngineParts
  <1>2. Len(p.cursors) \in 1 .. Len(p.cursors) /\ Cursor(p) = p.cursors[Len(p.cursors)]
    BY <1>1 DEF Cursor, Last
  <1>3. Cursor(p) \in CursorMove(size)
    BY <1>1, <1>2
  <1>. QED
    BY <1>2, <1>3 DEF CursorMove

\* Changes of the last cursor, which stays on the screen.
LEMMA LastOfCursors ==
    ASSUME NEW size, NEW p \in Engine(size), p.cursors # <<>>, NEW move \in CursorMove(size)
    PROVE  LET cursors == [p.cursors EXCEPT ![Len(p.cursors)] = move] IN
           cursors \in Seq(CursorMove(size)) /\ cursors # <<>> /\ Last(cursors) = move
  <1>. DEFINE cursors == [p.cursors EXCEPT ![Len(p.cursors)] = move]
  <1>1. p.cursors \in Seq(CursorMove(size)) /\ Len(p.cursors) \in 1 .. Len(p.cursors)
    BY EngineParts, CursorParts
  <1>2. /\ cursors \in Seq(CursorMove(size)) /\ Len(cursors) = Len(p.cursors)
        /\ cursors[Len(p.cursors)] = move
    BY <1>1
  <1>3. cursors # <<>>
    BY <1>1, <1>2
  <1>. QED
    BY <1>2, <1>3 DEF Last

LEMMA LastCursor ==
    ASSUME NEW size, NEW p \in Engine(size), p.cursors # <<>>, NEW move \in CursorMove(size),
           NEW q, q = [p EXCEPT !.cursors = [@ EXCEPT ![Len(p.cursors)] = move]]
    PROVE  /\ q \in Engine(size) /\ q.overlays = p.overlays /\ q.cursors # <<>>
           /\ q.prediction_epoch = p.prediction_epoch /\ Steady(p, q) /\ Cursor(q) = move
  <1>. DEFINE cursors == [p.cursors EXCEPT ![Len(p.cursors)] = move]
  <1>1. cursors \in Seq(CursorMove(size)) /\ cursors # <<>> /\ Last(cursors) = move
    BY LastOfCursors
  <1>2. q = [p EXCEPT !.cursors = cursors]
    OBVIOUS
  <1>. HIDE DEF cursors
  <1>3. \A r : r = [p EXCEPT !.cursors = cursors] =>
           /\ r \in Engine(size) /\ r.cursors = cursors /\ r.overlays = p.overlays
           /\ r.prediction_epoch = p.prediction_epoch /\ Steady(p, r)
    <2>. SUFFICES ASSUME NEW r, r = [p EXCEPT !.cursors = cursors]
                  PROVE  /\ r \in Engine(size) /\ r.cursors = cursors /\ r.overlays = p.overlays
                         /\ r.prediction_epoch = p.prediction_epoch /\ Steady(p, r)
      OBVIOUS
    <2>. QED
      BY <1>1, WithCursors
  <1>. QED
    BY <1>1, <1>2, <1>3 DEF Cursor

LEMMA SetCursorFacts ==
    ASSUME NEW size, NEW p \in Engine(size), p.cursors # <<>>,
           NEW row \in Rows(size[1]), NEW col \in Cols(size[2]),
           NEW q, q = SetCursor(p, row, col)
    PROVE  /\ q \in Engine(size) /\ q.overlays = p.overlays /\ q.cursors # <<>>
           /\ q.prediction_epoch = p.prediction_epoch /\ Steady(p, q)
           /\ Cursor(q).row = row /\ Cursor(q).col = col
  <1>. DEFINE n == Len(p.cursors)
              move == [p.cursors[n] EXCEPT !.row = row, !.col = col]
  <1>1. p.cursors[n] \in CursorMove(size)
    BY CursorParts
  <1>2. move \in CursorMove(size) /\ move.row = row /\ move.col = col
    BY <1>1 DEF CursorMove
  <1>3. q = [p EXCEPT !.cursors = [@ EXCEPT ![n] = move]]
    BY DEF SetCursor
  <1>. HIDE DEF move
  <1>4. /\ q \in Engine(size) /\ q.overlays = p.overlays /\ q.cursors # <<>>
        /\ q.prediction_epoch = p.prediction_epoch /\ Steady(p, q) /\ Cursor(q) = move
    BY <1>2, <1>3, LastCursor
  <1>. QED
    BY <1>2, <1>4

LEMMA ExpireCursorFacts ==
    ASSUME NEW size, NEW p \in Engine(size), p.cursors # <<>>, NEW q, q = ExpireCursor(p)
    PROVE  /\ q \in Engine(size) /\ q.overlays = p.overlays /\ q.cursors # <<>>
           /\ q.prediction_epoch = p.prediction_epoch /\ Steady(p, q)
           /\ Cursor(q).row = Cursor(p).row /\ Cursor(q).col = Cursor(p).col
  <1>. DEFINE n == Len(p.cursors)
              move == [p.cursors[n] EXCEPT !.expiration = p.sent + 1]
  <1>1. p.cursors[n] \in CursorMove(size) /\ p.sent \in Nat /\ p.cursors[n] = Cursor(p)
    BY CursorParts, EngineParts
  <1>2. move \in CursorMove(size) /\ move.row = Cursor(p).row /\ move.col = Cursor(p).col
    BY <1>1 DEF CursorMove
  <1>3. q = [p EXCEPT !.cursors = [@ EXCEPT ![n] = move]]
    BY DEF ExpireCursor
  <1>. HIDE DEF move
  <1>4. /\ q \in Engine(size) /\ q.overlays = p.overlays /\ q.cursors # <<>>
        /\ q.prediction_epoch = p.prediction_epoch /\ Steady(p, q) /\ Cursor(q) = move
    BY <1>2, <1>3, LastCursor
  <1>. QED
    BY <1>2, <1>4

LEMMA InitCursorFacts ==
    ASSUME NEW size, NEW fb \in ScreenIn(size), NEW p \in Engine(size),
           NEW q, q = InitCursor(p, fb)
    PROVE  /\ q \in Engine(size) /\ q.overlays = p.overlays /\ q.cursors # <<>>
           /\ q.prediction_epoch = p.prediction_epoch /\ Steady(p, q)
  <1>1. fb.row \in Rows(size[1]) /\ fb.col \in Cols(size[2])
    BY DEF ScreenIn
  <1>2. CASE p.cursors = <<>>
    BY <1>1, <1>2, PushCursorFacts DEF InitCursor
  <1>3. CASE p.cursors # <<>> /\ Cursor(p).epoch # p.prediction_epoch
    BY <1>3, CursorParts, PushCursorFacts DEF InitCursor
  <1>4. CASE p.cursors # <<>> /\ Cursor(p).epoch = p.prediction_epoch
    BY <1>4 DEF InitCursor, Steady, Kept
  <1>. QED
    BY <1>2, <1>3, <1>4

-----------------------------------------------------------------------------
(* Fewer predictions *)

\* The same rows, some of their predictions taken away.
Thins(p, q) ==
    /\ Len(q.overlays) = Len(p.overlays)
    /\ \A i \in 1 .. Len(p.overlays) :
          /\ q.overlays[i].row = p.overlays[i].row
          /\ \A c \in DOMAIN p.overlays[i].cells :
                \/ q.overlays[i].cells[c] = p.overlays[i].cells[c]
                \/ ~q.overlays[i].cells[c].active

\* A thinned engine predicts no more than before.
LEMMA ThinsFacts ==
    ASSUME NEW size, NEW p \in Engine(size), NEW q \in Engine(size), Thins(p, q)
    PROVE  /\ Predictions(q) \subseteq Predictions(p)
           /\ DistinctRows(p) => DistinctRows(q)
  <1>1. /\ DOMAIN p.overlays = 1 .. Len(p.overlays) /\ DOMAIN q.overlays = DOMAIN p.overlays
        /\ \A i \in DOMAIN p.overlays : q.overlays[i].row = p.overlays[i].row
    <2>1. p.overlays \in Seq(OverlayRow(size)) /\ q.overlays \in Seq(OverlayRow(size))
      BY EngineParts
    <2>. QED
      BY <2>1 DEF Thins
  <1>2. ASSUME NEW x \in Predictions(q) PROVE x \in Predictions(p)
    <2>1. PICK i \in DOMAIN q.overlays : \E c \in DOMAIN q.overlays[i].cells :
             /\ q.overlays[i].cells[c].active
             /\ x = [row |-> q.overlays[i].row, col |-> c, cell |-> q.overlays[i].cells[c]]
      BY PredictionsIn
    <2>2. PICK c \in DOMAIN q.overlays[i].cells :
             /\ q.overlays[i].cells[c].active
             /\ x = [row |-> q.overlays[i].row, col |-> c, cell |-> q.overlays[i].cells[c]]
      BY <2>1
    <2>3. i \in DOMAIN p.overlays /\ i \in 1 .. Len(p.overlays)
      BY <1>1
    <2>4. DOMAIN p.overlays[i].cells = Cols(size[2]) /\ DOMAIN q.overlays[i].cells = Cols(size[2])
      BY <2>2, <2>3, RowColumns
    <2>5. q.overlays[i].cells[c] = p.overlays[i].cells[c] /\ c \in DOMAIN p.overlays[i].cells
      BY <2>2, <2>3, <2>4 DEF Thins
    <2>. QED
      BY <1>1, <2>2, <2>3, <2>5, PredictionsIn
  <1>. QED
    BY <1>1, <1>2 DEF DistinctRows

LEMMA ThinsTransitive ==
    ASSUME NEW size, NEW p \in Engine(size), NEW q \in Engine(size), NEW r \in Engine(size),
           Thins(p, q), Thins(q, r)
    PROVE  Thins(p, r)
  <1>1. \A i \in 1 .. Len(p.overlays) : i \in DOMAIN p.overlays /\ i \in DOMAIN q.overlays
    BY EngineParts DEF Thins
  <1>2. ASSUME NEW i \in 1 .. Len(p.overlays)
        PROVE  DOMAIN p.overlays[i].cells = DOMAIN q.overlays[i].cells
    <2>1. p.overlays[i].cells \in [Cols(size[2]) -> Cell]
      BY <1>1, RowParts
    <2>2. q.overlays[i].cells \in [Cols(size[2]) -> Cell]
      BY <1>1, RowParts
    <2>. QED
      BY <2>1, <2>2
  <1>3. ASSUME NEW i \in 1 .. Len(p.overlays), NEW c \in DOMAIN p.overlays[i].cells
        PROVE  \/ r.overlays[i].cells[c] = p.overlays[i].cells[c]
               \/ ~r.overlays[i].cells[c].active
    <2>1. i \in 1 .. Len(q.overlays) /\ c \in DOMAIN q.overlays[i].cells
      BY <1>2 DEF Thins
    <2>. QED
      BY <2>1 DEF Thins
  <1>. QED
    BY <1>3 DEF Thins

LEMMA NoPredictionFacts ==
    /\ NoPrediction \in Cell /\ NoPrediction.active = FALSE
  BY DEF NoPrediction, Cell, Glyph

\* kill_epoch only takes predictions away, and begins an epoch.
LEMMA KillEpochFacts ==
    ASSUME NEW size, NEW fb \in ScreenIn(size), NEW p \in Engine(size), NEW epoch \in Nat,
           NEW q, q = KillEpoch(p, epoch, fb)
    PROVE  /\ q \in Engine(size) /\ Thins(p, q) /\ Steady(p, q)
           /\ q.prediction_epoch =
                 p.prediction_epoch + (IF p.preference = "Experimental" THEN 0 ELSE 1)
           /\ \A i \in DOMAIN q.overlays : \A c \in DOMAIN q.overlays[i].cells :
                 q.overlays[i].cells[c].active => q.overlays[i].cells[c].epoch < epoch
  <1>. DEFINE survives(c) == ~Tentative(c, epoch - 1)
              cursors == Only(p.cursors, {c \in Range(p.cursors) : survives(c)})
              cells(i) == [c \in DOMAIN p.overlays[i].cells |->
                             IF survives(p.overlays[i].cells[c]) THEN p.overlays[i].cells[c]
                             ELSE NoPrediction]
              overlays == [i \in DOMAIN p.overlays |->
                             [row |-> p.overlays[i].row, cells |-> cells(i)]]
              a == [p EXCEPT !.cursors = cursors]
              kept == [a EXCEPT !.overlays = overlays]
              pushed == PushCursor(kept, fb.row, fb.col)
  <1>1. p.cursors \in Seq(CursorMove(size)) /\ p.overlays \in Seq(OverlayRow(size))
    BY EngineParts
  <1>2. cursors \in Seq(CursorMove(size))
    <2>. DEFINE S == {c \in Range(p.cursors) : survives(c)}
    <2>1. Only(p.cursors, S) \in Seq(CursorMove(size) \cap S)
      BY <1>1, OnlyType
    <2>. HIDE DEF S
    <2>2. Seq(CursorMove(size) \cap S) \subseteq Seq(CursorMove(size))
      OBVIOUS
    <2>. QED
      BY <2>1, <2>2 DEF S
  <1>3. ASSUME NEW i \in DOMAIN p.overlays
        PROVE  /\ overlays[i] \in OverlayRow(size) /\ overlays[i].row = p.overlays[i].row
               /\ overlays[i].cells = cells(i) /\ DOMAIN cells(i) = Cols(size[2])
               /\ \A c \in Cols(size[2]) :
                     cells(i)[c] = IF survives(p.overlays[i].cells[c])
                                   THEN p.overlays[i].cells[c] ELSE NoPrediction
    <2>1. /\ p.overlays[i].row \in Rows(size[1]) /\ p.overlays[i].cells \in [Cols(size[2]) -> Cell]
          /\ p.overlays[i] = [row |-> p.overlays[i].row, cells |-> p.overlays[i].cells]
      BY RowParts
    <2>2. cells(i) \in [Cols(size[2]) -> Cell]
      <3>. HIDE DEF survives
      <3>. QED
        BY <2>1, NoPredictionFacts
    <2>3. overlays[i] = [row |-> p.overlays[i].row, cells |-> cells(i)]
      <3>. HIDE DEF cells
      <3>. QED
        OBVIOUS
    <2>4. overlays[i] \in OverlayRow(size) /\ overlays[i].row = p.overlays[i].row
          /\ overlays[i].cells = cells(i)
      <3>. HIDE DEF cells, overlays
      <3>. QED
        BY <2>1, <2>2, <2>3 DEF OverlayRow
    <2>5. DOMAIN cells(i) = Cols(size[2])
      BY <2>1
    <2>. HIDE DEF overlays, survives
    <2>. QED
      BY <2>1, <2>4, <2>5
  <1>4. DOMAIN overlays = 1 .. Len(p.overlays) /\ DOMAIN p.overlays = 1 .. Len(p.overlays)
        /\ Len(p.overlays) \in Nat
    BY <1>1
  <1>. HIDE DEF cells, overlays, cursors
  <1>5. overlays \in Seq(OverlayRow(size)) /\ Len(overlays) = Len(p.overlays)
    <2>1. overlays = [i \in 1 .. Len(p.overlays) |-> overlays[i]]
      BY <1>4 DEF overlays
    <2>2. \A i \in 1 .. Len(p.overlays) : overlays[i] \in OverlayRow(size)
      BY <1>3, <1>4
    <2>. QED
      BY <1>4, <2>1, <2>2
  <1>6. a = [p EXCEPT !.cursors = cursors] /\ kept = [a EXCEPT !.overlays = overlays]
    OBVIOUS
  <1>7. q = BecomeTentative(pushed)
    BY DEF KillEpoch, overlays, cursors, cells
  <1>8. pushed = PushCursor(kept, fb.row, fb.col)
    OBVIOUS
  <1>. HIDE DEF a, kept, pushed
  <1>9. a \in Engine(size) /\ Steady(p, a) /\ a.prediction_epoch = p.prediction_epoch
    BY <1>2, <1>6, WithCursors
  <1>10. /\ kept \in Engine(size) /\ kept.overlays = overlays /\ Steady(a, kept)
         /\ kept.prediction_epoch = a.prediction_epoch
    <2>1. overlays \in Seq(OverlayRow(size)) /\ a \in Engine(size)
      BY <1>5, <1>9
    <2>2. kept = [a EXCEPT !.overlays = overlays]
      BY <1>6
    <2>. QED
      BY <2>1, <2>2, WithOverlays
  <1>11. fb.row \in Rows(size[1]) /\ fb.col \in Cols(size[2])
    BY DEF ScreenIn
  <1>12. /\ pushed \in Engine(size) /\ pushed.overlays = kept.overlays /\ Steady(kept, pushed)
         /\ pushed.prediction_epoch = kept.prediction_epoch
    BY <1>8, <1>10, <1>11, PushCursorFacts
  <1>13. /\ q \in Engine(size) /\ q.overlays = pushed.overlays /\ Steady(pushed, q)
         /\ q.prediction_epoch =
              pushed.prediction_epoch + (IF pushed.preference = "Experimental" THEN 0 ELSE 1)
    BY <1>7, <1>12, BecomeTentativeFacts
  <1>14. Steady(p, q) /\ pushed.preference = p.preference
    BY <1>9, <1>10, <1>12, <1>13 DEF Steady, Kept
  <1>15. q.overlays = overlays
    BY <1>10, <1>12, <1>13
  <1>16. ASSUME NEW i \in 1 .. Len(p.overlays), NEW c \in DOMAIN p.overlays[i].cells
         PROVE  /\ q.overlays[i].row = p.overlays[i].row
                /\ \/ q.overlays[i].cells[c] = p.overlays[i].cells[c]
                   \/ ~q.overlays[i].cells[c].active
    <2>0. i \in DOMAIN p.overlays
      BY <1>4
    <2>1. c \in Cols(size[2])
      BY <2>0, RowColumns
    <2>. HIDE DEF survives
    <2>. QED
      BY <1>3, <1>15, <2>0, <2>1, NoPredictionFacts
  <1>17. Thins(p, q)
    BY <1>5, <1>15, <1>16, <1>3, <1>4 DEF Thins
  <1>18. ASSUME NEW i \in DOMAIN q.overlays, NEW c \in DOMAIN q.overlays[i].cells,
                q.overlays[i].cells[c].active
         PROVE  q.overlays[i].cells[c].epoch < epoch
    <2>1. i \in DOMAIN p.overlays /\ c \in Cols(size[2])
      BY <1>3, <1>4, <1>15
    <2>2. p.overlays[i].cells[c] \in Cell
      <3>1. p.overlays[i].cells \in [Cols(size[2]) -> Cell]
        BY <2>1, RowParts
      <3>. QED
        BY <2>1, <3>1
    <2>3. survives(p.overlays[i].cells[c]) /\ q.overlays[i].cells[c] = p.overlays[i].cells[c]
      <3>. HIDE DEF survives
      <3>. QED
        BY <1>3, <1>15, <1>18, <2>1, NoPredictionFacts
    <2>. QED
      BY <2>2, <2>3 DEF Tentative, Cell
  <1>. QED
    BY <1>9, <1>10, <1>12, <1>13, <1>14, <1>17, <1>18

-----------------------------------------------------------------------------
(* Judging a cell *)

\* An epoch is confirmed by a prediction of it that is due and that fb bears out.
Credit(p, q, fb) ==
    /\ q.confirmed_epoch >= p.confirmed_epoch
    /\ q.confirmed_epoch # p.confirmed_epoch =>
         \E x \in Predictions(p) :
            /\ Creditable(x.cell) /\ x.cell.epoch = q.confirmed_epoch
            /\ x.cell.expiration <= p.late
            /\ OnScreen(fb, x.row, x.col) /\ fb.cells[x.row][x.col] = x.cell.replacement

JudgedFrom(size, p, q, fb) ==
    /\ q \in Engine(size) /\ Kept(p, q)
    /\ q.overlays = <<>> \/ Thins(p, q)
    /\ q.prediction_epoch >= p.prediction_epoch
    /\ p.preference = "Experimental" => q.prediction_epoch = p.prediction_epoch
    /\ Credit(p, q, fb)

\* What quick confirmations may still take from the trigger at this time.
Debt(p) == IF now - GLITCH_REPAIR_MININTERVAL >= p.quick THEN 0 ELSE 1

\* The trigger is not worn off by more than is owed, or it is as high as it gets.
Dims(p, q) ==
    \/ q.glitch_trigger + Debt(q) >= p.glitch_trigger + Debt(p)
    \/ q.glitch_trigger + Debt(q) >= 2 * GLITCH_REPAIR_COUNT

Lit(p, cell) ==
    /\ now - cell.time >= GLITCH_THRESHOLD => p.glitch_trigger + Debt(p) >= GLITCH_REPAIR_COUNT
    /\ now - cell.time >= GLITCH_FLAG_THRESHOLD =>
          p.glitch_trigger + Debt(p) >= 2 * GLITCH_REPAIR_COUNT

Pending(p, cell) == cell.active => p.late < cell.expiration /\ Lit(p, cell)

LEMMA Constants ==
    /\ GLITCH_REPAIR_COUNT \in Nat /\ GLITCH_REPAIR_COUNT >= 2
    /\ 2 * GLITCH_REPAIR_COUNT >= GLITCH_REPAIR_COUNT + 2 /\ 2 * GLITCH_REPAIR_COUNT \in Nat
    /\ GLITCH_REPAIR_MININTERVAL \in Nat /\ GLITCH_REPAIR_MININTERVAL >= 1
    /\ GLITCH_THRESHOLD \in Nat /\ GLITCH_FLAG_THRESHOLD \in Nat
  BY PredictionAssumption

LEMMA ThinsItself ==
    ASSUME NEW p, NEW q, q.overlays = p.overlays
    PROVE  Thins(p, q)
  BY DEF Thins

\* A cell that is reset takes its prediction with it, and no other.
LEMMA WithoutFacts ==
    ASSUME NEW size, NEW p \in Engine(size), NEW i \in 1 .. Len(p.overlays),
           NEW col \in Cols(size[2]),
           NEW q, q = [p EXCEPT !.overlays[i].cells[col] = NoPrediction]
    PROVE  /\ q \in Engine(size) /\ Thins(p, q) /\ Steady(p, q)
           /\ q.prediction_epoch = p.prediction_epoch
           /\ ~q.overlays[i].cells[col].active
  <1>. DEFINE cells == [p.overlays[i].cells EXCEPT ![col] = NoPrediction]
              row == [p.overlays[i] EXCEPT !.cells = cells]
              overlays == [p.overlays EXCEPT ![i] = row]
  <1>1. p.overlays \in Seq(OverlayRow(size)) /\ DOMAIN p.overlays = 1 .. Len(p.overlays)
    BY EngineParts
  <1>2. /\ p.overlays[i].row \in Rows(size[1])
        /\ p.overlays[i].cells \in [Cols(size[2]) -> Cell]
        /\ p.overlays[i] = [row |-> p.overlays[i].row, cells |-> p.overlays[i].cells]
    BY <1>1, RowParts
  <1>3. /\ cells \in [Cols(size[2]) -> Cell] /\ cells[col] = NoPrediction
        /\ \A c \in Cols(size[2]) : c # col => cells[c] = p.overlays[i].cells[c]
    BY <1>2, NoPredictionFacts
  <1>4. q = [p EXCEPT !.overlays = overlays]
    OBVIOUS
  <1>. HIDE DEF cells
  <1>5. row \in OverlayRow(size) /\ row.row = p.overlays[i].row /\ row.cells = cells
    <2>1. row = [row |-> p.overlays[i].row, cells |-> cells]
      BY <1>2
    <2>. HIDE DEF row
    <2>. QED
      BY <1>2, <1>3, <2>1 DEF OverlayRow
  <1>. HIDE DEF row
  <1>6. /\ overlays \in Seq(OverlayRow(size)) /\ Len(overlays) = Len(p.overlays)
        /\ overlays[i] = row
        /\ \A k \in 1 .. Len(p.overlays) : k # i => overlays[k] = p.overlays[k]
    BY <1>1, <1>5
  <1>7. overlays \in Seq(OverlayRow(size))
    BY <1>6
  <1>. HIDE DEF overlays
  <1>8. /\ q \in Engine(size) /\ q.overlays = overlays /\ Steady(p, q)
        /\ q.prediction_epoch = p.prediction_epoch
    <2>1. ASSUME NEW w, w = [p EXCEPT !.overlays = overlays]
          PROVE  /\ w \in Engine(size) /\ w.overlays = overlays /\ Steady(p, w)
                 /\ w.prediction_epoch = p.prediction_epoch
      BY <1>7, <2>1, WithOverlays
    <2>. QED
      BY <1>4, <2>1
  <1>9. ASSUME NEW k \in 1 .. Len(p.overlays), NEW c \in DOMAIN p.overlays[k].cells
        PROVE  /\ q.overlays[k].row = p.overlays[k].row
               /\ \/ q.overlays[k].cells[c] = p.overlays[k].cells[c]
                  \/ ~q.overlays[k].cells[c].active
    <2>1. CASE k # i
      BY <2>1, <1>6, <1>8
    <2>2. CASE k = i
      <3>1. c \in Cols(size[2])
        BY <1>2, <2>2
      <3>2. q.overlays[k] = row
        BY <1>6, <1>8, <2>2
      <3>3. cells[c] = p.overlays[k].cells[c] \/ cells[c] = NoPrediction
        BY <1>3, <2>2, <3>1
      <3>. QED
        BY <1>5, <2>2, <3>2, <3>3, NoPredictionFacts
    <2>. QED
      BY <2>1, <2>2
  <1>10. \A k \in 1 .. Len(p.overlays) : q.overlays[k].row = p.overlays[k].row
    BY <1>5, <1>6, <1>8
  <1>11. Thins(p, q)
    BY <1>6, <1>8, <1>9, <1>10 DEF Thins
  <1>. QED
    BY <1>3, <1>5, <1>6, <1>8, <1>11, NoPredictionFacts

LEMMA WithConfirmed ==
    ASSUME NEW size, NEW p \in Engine(size), NEW epoch \in Nat,
           NEW q, q = [p EXCEPT !.confirmed_epoch = epoch]
    PROVE  /\ q \in Engine(size) /\ q.overlays = p.overlays /\ q.cursors = p.cursors
           /\ q.prediction_epoch = p.prediction_epoch /\ Kept(p, q)
           /\ q.confirmed_epoch = epoch
           /\ q.glitch_trigger = p.glitch_trigger /\ q.quick = p.quick
  BY DEF Engine, Kept

LEMMA SameGlitch ==
    ASSUME NEW size, NEW p \in Engine(size), NEW q, Steady(p, q), now \in Nat
    PROVE  Dims(p, q)
  <1>1. p.glitch_trigger \in Nat /\ p.quick \in Nat
    BY EngineParts
  <1>. QED
    BY <1>1, Constants DEF Dims, Debt, Steady

\* A pending cell leaves the trigger as high as its age asks for.
LEMMA PendingGlitchFacts ==
    ASSUME NEW size, NEW p \in Engine(size), NEW age, age \in Int,
           NEW q, q = PendingGlitch(p, age), now \in Nat
    PROVE  /\ q \in Engine(size) /\ q.overlays = p.overlays /\ Kept(p, q)
           /\ q.prediction_epoch = p.prediction_epoch /\ q.confirmed_epoch = p.confirmed_epoch
           /\ Dims(p, q)
           /\ age >= GLITCH_THRESHOLD => q.glitch_trigger >= GLITCH_REPAIR_COUNT
           /\ age >= GLITCH_FLAG_THRESHOLD => q.glitch_trigger >= 2 * GLITCH_REPAIR_COUNT
           /\ q.glitch_trigger \in Nat /\ Debt(q) \in Nat
  <1>1. p.glitch_trigger \in Nat /\ p.quick \in Nat
    BY EngineParts
  <1>2. ASSUME NEW trigger \in Nat, q = [p EXCEPT !.glitch_trigger = trigger],
               \/ trigger >= p.glitch_trigger
               \/ trigger >= 2 * GLITCH_REPAIR_COUNT,
               age >= GLITCH_THRESHOLD => trigger >= GLITCH_REPAIR_COUNT,
               age >= GLITCH_FLAG_THRESHOLD => trigger >= 2 * GLITCH_REPAIR_COUNT
        PROVE  /\ q \in Engine(size) /\ q.overlays = p.overlays /\ Kept(p, q)
               /\ q.prediction_epoch = p.prediction_epoch
               /\ q.confirmed_epoch = p.confirmed_epoch /\ Dims(p, q)
               /\ q.glitch_trigger = trigger /\ Debt(q) \in Nat
    <2>. DEFINE quick == p.quick
    <2>1. q = [p EXCEPT !.glitch_trigger = trigger, !.quick = quick] /\ quick = p.quick
      BY <1>2 DEF Engine
    <2>1a. quick \in Nat
      BY <1>1
    <2>1b. q = [p EXCEPT !.glitch_trigger = trigger, !.quick = quick]
      BY <2>1
    <2>. HIDE DEF quick
    <2>2. /\ q \in Engine(size) /\ q.overlays = p.overlays /\ Kept(p, q)
          /\ q.prediction_epoch = p.prediction_epoch /\ q.confirmed_epoch = p.confirmed_epoch
          /\ q.glitch_trigger = trigger /\ q.quick = quick
      BY <2>1a, <2>1b DEF Engine, Kept
    <2>. QED
      BY <1>1, <1>2, <2>1, <2>2, Constants DEF Dims, Debt
  <1>3. CASE age >= GLITCH_FLAG_THRESHOLD
    <2>0. ~(age \in GLITCH_THRESHOLD .. GLITCH_FLAG_THRESHOLD - 1)
      BY <1>3, Constants
    <2>1. q = [p EXCEPT !.glitch_trigger = 2 * GLITCH_REPAIR_COUNT]
      BY <1>3, <2>0 DEF PendingGlitch
    <2>. DEFINE trigger == 2 * GLITCH_REPAIR_COUNT
    <2>2. trigger \in Nat /\ trigger >= GLITCH_REPAIR_COUNT /\ trigger >= trigger
          /\ trigger = 2 * GLITCH_REPAIR_COUNT
      BY Constants
    <2>3. q = [p EXCEPT !.glitch_trigger = trigger]
      BY <2>1
    <2>. HIDE DEF trigger
    <2>. QED
      BY <1>2, <2>2, <2>3
  <1>4. CASE /\ age < GLITCH_FLAG_THRESHOLD /\ age >= GLITCH_THRESHOLD
             /\ p.glitch_trigger < GLITCH_REPAIR_COUNT
    <2>1. ~(age >= GLITCH_FLAG_THRESHOLD)
          /\ age \in GLITCH_THRESHOLD .. GLITCH_FLAG_THRESHOLD - 1
      BY <1>4, Constants
    <2>2. q = [p EXCEPT !.glitch_trigger = GLITCH_REPAIR_COUNT]
      BY <1>4, <2>1 DEF PendingGlitch
    <2>3. GLITCH_REPAIR_COUNT >= p.glitch_trigger /\ GLITCH_REPAIR_COUNT >= GLITCH_REPAIR_COUNT
      BY <1>1, <1>4, Constants
    <2>. QED
      BY <1>2, <2>1, <2>2, <2>3, Constants
  <1>5. CASE /\ age < GLITCH_FLAG_THRESHOLD
             /\ ~(age >= GLITCH_THRESHOLD /\ p.glitch_trigger < GLITCH_REPAIR_COUNT)
    <2>1. ~(age >= GLITCH_FLAG_THRESHOLD)
          /\ ~(age \in GLITCH_THRESHOLD .. GLITCH_FLAG_THRESHOLD - 1
               /\ p.glitch_trigger < GLITCH_REPAIR_COUNT)
      BY <1>5, Constants
    <2>2. q = p
      BY <2>1 DEF PendingGlitch
    <2>3. age >= GLITCH_THRESHOLD => p.glitch_trigger >= GLITCH_REPAIR_COUNT
      BY <1>1, <1>5, Constants
    <2>. QED
      BY <1>1, <2>1, <2>2, <2>3, Constants DEF Dims, Debt, Kept
  <1>. QED
    BY <1>3, <1>4, <1>5, Constants

\* A quick confirmation takes one from the trigger, once in MININTERVAL.
LEMMA QuickRepairFacts ==
    ASSUME NEW size, NEW p \in Engine(size), NEW age, age \in Int,
           NEW q, q = QuickRepair(p, age), now \in Nat
    PROVE  /\ q \in Engine(size) /\ q.overlays = p.overlays /\ Kept(p, q)
           /\ q.prediction_epoch = p.prediction_epoch /\ q.confirmed_epoch = p.confirmed_epoch
           /\ Dims(p, q)
  <1>1. p.glitch_trigger \in Nat /\ p.quick \in Nat
    BY EngineParts
  <1>2. CASE /\ age < GLITCH_THRESHOLD /\ p.glitch_trigger > 0
             /\ now - GLITCH_REPAIR_MININTERVAL >= p.quick
    <2>. DEFINE trigger == p.glitch_trigger - 1
                quick == now
    <2>1. q = [p EXCEPT !.glitch_trigger = trigger, !.quick = quick]
      BY <1>2 DEF QuickRepair
    <2>2. trigger \in Nat /\ quick \in Nat /\ trigger = p.glitch_trigger - 1 /\ quick = now
      BY <1>1, <1>2
    <2>2a. trigger \in Nat
      BY <2>2
    <2>2b. quick \in Nat
      BY <2>2
    <2>. HIDE DEF trigger, quick
    <2>3. /\ q \in Engine(size) /\ q.overlays = p.overlays /\ Kept(p, q)
          /\ q.prediction_epoch = p.prediction_epoch /\ q.confirmed_epoch = p.confirmed_epoch
          /\ q.glitch_trigger = trigger /\ q.quick = quick
      BY <2>1, <2>2a, <2>2b DEF Engine, Kept
    <2>4. Debt(p) = 0 /\ Debt(q) = 1
      BY <1>2, <2>2, <2>3, Constants DEF Debt
    <2>. QED
      BY <1>1, <2>2, <2>3, <2>4 DEF Dims
  <1>3. CASE ~(/\ age < GLITCH_THRESHOLD /\ p.glitch_trigger > 0
               /\ now - GLITCH_REPAIR_MININTERVAL >= p.quick)
    <2>1. q = p
      BY <1>3 DEF QuickRepair
    <2>. QED
      BY <1>1, <2>1, Constants DEF Dims, Debt, Kept
  <1>. QED
    BY <1>2, <1>3

LEMMA SteadyJudged ==
    ASSUME NEW size, NEW p \in Engine(size), NEW q \in Engine(size), NEW fb, Steady(p, q),
           q.overlays = <<>> \/ Thins(p, q), now \in Nat,
           q.prediction_epoch \in p.prediction_epoch .. p.prediction_epoch + 1,
           p.preference = "Experimental" => q.prediction_epoch = p.prediction_epoch
    PROVE  JudgedFrom(size, p, q, fb) /\ Dims(p, q)
  <1>1. p.confirmed_epoch \in Nat /\ q.confirmed_epoch = p.confirmed_epoch /\ Kept(p, q)
    BY EngineParts DEF Steady
  <1>2. q.prediction_epoch >= p.prediction_epoch
    BY EngineParts
  <1>. QED
    BY <1>1, <1>2, SameGlitch DEF JudgedFrom, Credit

\* Whatever the validity, a cell that was judged is gone, or pending with the trigger lit.
LEMMA JudgeCellFacts ==
    ASSUME NEW size, NEW fb \in ScreenIn(size), NEW p \in Engine(size),
           NEW i \in 1 .. Len(p.overlays), NEW col \in Cols(size[2]), now \in Nat,
           NEW q, q = JudgeCell(p, fb, i, col)
    PROVE  /\ JudgedFrom(size, p, q, fb) /\ Dims(p, q)
           /\ q.overlays # <<>> => Pending(q, q.overlays[i].cells[col])
  <1>. DEFINE cell == p.overlays[i].cells[col]
              row == p.overlays[i].row
              age == now - cell.time
              validity == CellValidity(p, cell, fb, row, col)
              x == [row |-> row, col |-> col, cell |-> cell]
              raised == IF p.confirmed_epoch < cell.epoch THEN cell.epoch ELSE p.confirmed_epoch
              credited == [p EXCEPT !.confirmed_epoch = raised]
              repaired == QuickRepair(credited, age)
  <1>1. i \in DOMAIN p.overlays /\ p.overlays \in Seq(OverlayRow(size))
    BY EngineParts
  <1>2. p.overlays[i].cells \in [Cols(size[2]) -> Cell] /\ row \in Rows(size[1])
    BY <1>1, RowParts
  <1>3. cell \in Cell /\ col \in DOMAIN p.overlays[i].cells
    BY <1>2
  <1>4. /\ cell.epoch \in Nat /\ cell.time \in Nat /\ cell.expiration \in Nat
        /\ cell.active \in BOOLEAN /\ cell.unknown \in BOOLEAN
    BY <1>3 DEF Cell
  <1>5. age \in Int /\ raised \in Nat /\ p.late \in Nat /\ p.confirmed_epoch \in Nat
        /\ p.prediction_epoch \in Nat
    BY <1>4, EngineParts
  <1>6. /\ validity \in {"Inactive", "IncorrectOrExpired", "Pending", "CorrectNoCredit", "Correct"}
        /\ validity = "Inactive" => ~cell.active
        /\ validity = "Pending" => p.late < cell.expiration
        /\ validity = "Correct" =>
              /\ cell.active /\ cell.expiration <= p.late /\ Creditable(cell)
              /\ OnScreen(fb, row, col) /\ fb.cells[row][col] = cell.replacement
    <2>. HIDE DEF cell, row
    <2>. QED
      BY <1>4, <1>5 DEF CellValidity, Creditable
  <1>7. /\ validity = "IncorrectOrExpired" /\ p.preference = "Experimental" =>
              q = [p EXCEPT !.overlays[i].cells[col] = NoPrediction]
        /\ validity = "IncorrectOrExpired" /\ p.preference # "Experimental" =>
              q = IF Tentative(cell, p.confirmed_epoch) THEN KillEpoch(p, cell.epoch, fb)
                  ELSE Reset(p)
        /\ validity = "Correct" => q = [repaired EXCEPT !.overlays[i].cells[col] = NoPrediction]
        /\ validity = "CorrectNoCredit" => q = [p EXCEPT !.overlays[i].cells[col] = NoPrediction]
        /\ validity = "Pending" => q = PendingGlitch(p, age)
        /\ validity = "Inactive" => q = p
    BY DEF JudgeCell
  <1>8. repaired = QuickRepair(credited, age) /\ credited = [p EXCEPT !.confirmed_epoch = raised]
    OBVIOUS
  <1>. HIDE DEF validity, repaired, credited
  <1>9. CASE /\ q = [p EXCEPT !.overlays[i].cells[col] = NoPrediction]
    <2>1. /\ q \in Engine(size) /\ Thins(p, q) /\ Steady(p, q)
          /\ q.prediction_epoch = p.prediction_epoch /\ ~q.overlays[i].cells[col].active
      BY <1>9, WithoutFacts
    <2>1a. q.prediction_epoch \in p.prediction_epoch .. p.prediction_epoch + 1
      BY <1>5, <2>1
    <2>2. JudgedFrom(size, p, q, fb) /\ Dims(p, q)
      BY <2>1, <2>1a, SteadyJudged
    <2>. QED
      BY <2>1, <2>2 DEF Pending
  <1>10. CASE /\ validity = "IncorrectOrExpired" /\ p.preference # "Experimental"
              /\ Tentative(cell, p.confirmed_epoch)
    <2>. DEFINE epoch == cell.epoch
    <2>1. q = KillEpoch(p, epoch, fb)
      BY <1>7, <1>10
    <2>1a. epoch \in Nat
      BY <1>4
    <2>. HIDE DEF cell, epoch
    <2>2. /\ q \in Engine(size) /\ Thins(p, q) /\ Steady(p, q)
          /\ q.prediction_epoch = p.prediction_epoch + 1
          /\ \A k \in DOMAIN q.overlays : \A c \in DOMAIN q.overlays[k].cells :
                q.overlays[k].cells[c].active => q.overlays[k].cells[c].epoch < epoch
      BY <1>10, <2>1, <2>1a, KillEpochFacts
    <2>2a. /\ q.prediction_epoch \in p.prediction_epoch .. p.prediction_epoch + 1
           /\ p.preference = "Experimental" => q.prediction_epoch = p.prediction_epoch
      BY <1>5, <1>10, <2>2
    <2>3. JudgedFrom(size, p, q, fb) /\ Dims(p, q)
      BY <2>2, <2>2a, SteadyJudged
    <2>4. i \in DOMAIN q.overlays /\ i \in 1 .. Len(p.overlays)
      <3>1. q.overlays \in Seq(OverlayRow(size)) /\ Len(q.overlays) = Len(p.overlays)
        BY <2>2, EngineParts DEF Thins
      <3>. QED
        BY <3>1
    <2>5. q.overlays[i].cells \in [Cols(size[2]) -> Cell]
      BY <2>2, <2>4, RowParts
    <2>6. ~q.overlays[i].cells[col].active
      <3>1. q.overlays[i].cells[col] = cell \/ ~q.overlays[i].cells[col].active
        BY <1>3, <2>2, <2>4 DEF Thins, cell
      <3>. QED
        BY <1>4, <2>2, <2>4, <2>5, <3>1 DEF epoch
    <2>. QED
      BY <2>3, <2>6 DEF Pending
  <1>11. CASE /\ validity = "IncorrectOrExpired" /\ p.preference # "Experimental"
              /\ ~Tentative(cell, p.confirmed_epoch)
    <2>1. q = Reset(p)
      BY <1>7, <1>11
    <2>2. /\ q \in Engine(size) /\ q.overlays = <<>> /\ Steady(p, q)
          /\ q.prediction_epoch = p.prediction_epoch + 1
      BY <1>11, <2>1, ResetFacts DEF Empty
    <2>3. /\ q.prediction_epoch \in p.prediction_epoch .. p.prediction_epoch + 1
          /\ p.preference = "Experimental" => q.prediction_epoch = p.prediction_epoch
      BY <1>5, <1>11, <2>2
    <2>4. JudgedFrom(size, p, q, fb) /\ Dims(p, q)
      BY <2>2, <2>3, SteadyJudged
    <2>. QED
      BY <2>2, <2>4
  <1>12. CASE validity = "Correct"
    <2>1. /\ credited \in Engine(size) /\ credited.overlays = p.overlays
          /\ credited.prediction_epoch = p.prediction_epoch /\ Kept(p, credited)
          /\ credited.confirmed_epoch = raised
          /\ credited.glitch_trigger = p.glitch_trigger /\ credited.quick = p.quick
      <3>1. raised \in Nat
        BY <1>5
      <3>. HIDE DEF raised
      <3>. QED
        BY <1>8, <3>1, WithConfirmed
    <2>2. /\ repaired \in Engine(size) /\ repaired.overlays = credited.overlays
          /\ Kept(credited, repaired)
          /\ repaired.prediction_epoch = credited.prediction_epoch
          /\ repaired.confirmed_epoch = credited.confirmed_epoch /\ Dims(credited, repaired)
      <3>1. age \in Int
        BY <1>5
      <3>2. repaired = QuickRepair(credited, age)
        BY <1>8
      <3>3. credited \in Engine(size)
        BY <2>1
      <3>. HIDE DEF age
      <3>. QED
        BY <3>1, <3>2, <3>3, QuickRepairFacts
    <2>3. /\ q \in Engine(size) /\ Thins(repaired, q) /\ Steady(repaired, q)
          /\ q.prediction_epoch = repaired.prediction_epoch
          /\ ~q.overlays[i].cells[col].active
      <3>1. repaired \in Engine(size) /\ i \in 1 .. Len(repaired.overlays)
        BY <2>1, <2>2
      <3>2. q = [repaired EXCEPT !.overlays[i].cells[col] = NoPrediction]
        BY <1>7, <1>12
      <3>. QED
        BY <3>1, <3>2, WithoutFacts
    <2>4. Thins(p, q)
      BY <2>1, <2>2, <2>3 DEF Thins
    <2>5. Kept(p, q) /\ q.confirmed_epoch = raised /\ q.prediction_epoch = p.prediction_epoch
      BY <2>1, <2>2, <2>3 DEF Kept, Steady
    <2>6. Dims(p, q)
      <3>1. /\ q.glitch_trigger = repaired.glitch_trigger /\ q.quick = repaired.quick
            /\ p.glitch_trigger \in Nat /\ repaired.glitch_trigger \in Nat
        BY <2>2, <2>3, EngineParts DEF Steady
      <3>. QED
        BY <2>1, <2>2, <3>1 DEF Dims, Debt
    <2>7. Credit(p, q, fb)
      <3>1. x \in Predictions(p)
        BY <1>1, <1>3, <1>6, <1>12, PredictionsIn
      <3>2. x.cell = cell /\ x.row = row /\ x.col = col
        OBVIOUS
      <3>. HIDE DEF x, cell, row
      <3>3. raised >= p.confirmed_epoch /\ (raised # p.confirmed_epoch => raised = cell.epoch)
        BY <1>4, <1>5
      <3>. QED
        BY <1>6, <1>12, <2>5, <3>1, <3>2, <3>3 DEF Credit
    <2>8. q.prediction_epoch >= p.prediction_epoch
      BY <1>5, <2>5
    <2>. QED
      BY <2>3, <2>4, <2>5, <2>6, <2>7, <2>8 DEF JudgedFrom, Pending
  <1>13. CASE validity = "Pending"
    <2>1. q = PendingGlitch(p, age)
      BY <1>7, <1>13
    <2>2. age \in Int /\ age = now - cell.time
      BY <1>5
    <2>2a. age \in Int
      BY <1>5
    <2>. HIDE DEF age
    <2>3. /\ q \in Engine(size) /\ q.overlays = p.overlays /\ Kept(p, q)
          /\ q.prediction_epoch = p.prediction_epoch /\ q.confirmed_epoch = p.confirmed_epoch
          /\ Dims(p, q)
          /\ age >= GLITCH_THRESHOLD => q.glitch_trigger >= GLITCH_REPAIR_COUNT
          /\ age >= GLITCH_FLAG_THRESHOLD => q.glitch_trigger >= 2 * GLITCH_REPAIR_COUNT
          /\ q.glitch_trigger \in Nat /\ Debt(q) \in Nat
      BY <2>1, <2>2a, PendingGlitchFacts
    <2>4. JudgedFrom(size, p, q, fb)
      <3>1. Thins(p, q)
        BY <2>3, ThinsItself
      <3>. QED
        BY <1>5, <2>3, <3>1 DEF JudgedFrom, Credit
    <2>5. Pending(q, cell)
      <3>1. q.late < cell.expiration
        BY <1>6, <1>13, <2>3 DEF Kept
      <3>2. Lit(q, cell)
        <4>. HIDE DEF cell
        <4>. QED
          BY <2>2, <2>3, Constants DEF Lit
      <3>. QED
        BY <3>1, <3>2 DEF Pending
    <2>. QED
      BY <2>3, <2>4, <2>5
  <1>14. CASE validity = "Inactive"
    <2>1. q = p
      BY <1>7, <1>14
    <2>2. Thins(p, q) /\ Steady(p, q)
      BY <2>1, ThinsItself DEF Steady, Kept
    <2>2a. /\ q \in Engine(size) /\ q.prediction_epoch = p.prediction_epoch
           /\ q.prediction_epoch \in p.prediction_epoch .. p.prediction_epoch + 1
      BY <1>5, <2>1
    <2>3. JudgedFrom(size, p, q, fb) /\ Dims(p, q)
      BY <2>2, <2>2a, SteadyJudged
    <2>. QED
      BY <1>6, <1>14, <2>1, <2>3 DEF Pending
  <1>. QED
    BY <1>6, <1>7, <1>9, <1>10, <1>11, <1>12, <1>13, <1>14

-----------------------------------------------------------------------------
(* Judging all cells *)

\* The cells before column n of row i have been judged.
Seen(p, i, n) ==
    \A k \in DOMAIN p.overlays : \A c \in DOMAIN p.overlays[k].cells :
        k < i \/ (k = i /\ c < n) => Pending(p, p.overlays[k].cells[c])

LEMMA JudgedItself ==
    ASSUME NEW size, NEW p \in Engine(size), NEW fb
    PROVE  JudgedFrom(size, p, p, fb)
  <1>1. p.prediction_epoch \in Nat /\ p.confirmed_epoch \in Nat
    BY EngineParts
  <1>2. Thins(p, p)
    BY ThinsItself
  <1>. QED
    BY <1>1, <1>2 DEF JudgedFrom, Credit, Kept

\* Judging goes on from where it was.
LEMMA JudgedOn ==
    ASSUME NEW size, NEW fb, NEW p \in Engine(size), NEW q, NEW r,
           JudgedFrom(size, p, q, fb), JudgedFrom(size, q, r, fb)
    PROVE  JudgedFrom(size, p, r, fb)
  <1>1. q \in Engine(size) /\ r \in Engine(size)
    BY DEF JudgedFrom
  <1>2. Kept(p, r)
    BY DEF JudgedFrom, Kept
  <1>3. r.overlays = <<>> \/ Thins(p, r)
    <2>1. CASE q.overlays = <<>> /\ Thins(q, r)
      <3>1. r.overlays \in Seq(OverlayRow(size)) /\ Len(r.overlays) = 0
        BY <1>1, <2>1, EngineParts DEF Thins
      <3>. QED
        BY <3>1
    <2>2. CASE Thins(p, q) /\ Thins(q, r)
      BY <1>1, <2>2, ThinsTransitive
    <2>. QED
      BY <2>1, <2>2 DEF JudgedFrom
  <1>4. Predictions(q) \subseteq Predictions(p)
    BY <1>1, NoOverlays, ThinsFacts DEF JudgedFrom
  <1>5. /\ p.confirmed_epoch \in Nat /\ q.confirmed_epoch \in Nat /\ r.confirmed_epoch \in Nat
        /\ p.prediction_epoch \in Nat /\ q.prediction_epoch \in Nat /\ r.prediction_epoch \in Nat
    BY <1>1, EngineParts
  <1>6. r.prediction_epoch >= p.prediction_epoch
        /\ (p.preference = "Experimental" => r.prediction_epoch = p.prediction_epoch)
    BY <1>5 DEF JudgedFrom, Kept
  <1>7. Credit(p, r, fb)
    <2>1. q.late = p.late /\ Credit(p, q, fb) /\ Credit(q, r, fb)
      BY DEF JudgedFrom, Kept
    <2>2. r.confirmed_epoch >= p.confirmed_epoch
      BY <1>5, <2>1 DEF Credit
    <2>3. CASE r.confirmed_epoch = q.confirmed_epoch
      BY <2>1, <2>2, <2>3 DEF Credit
    <2>4. CASE r.confirmed_epoch # q.confirmed_epoch
      <3>1. PICK x \in Predictions(q) :
               /\ Creditable(x.cell) /\ x.cell.epoch = r.confirmed_epoch
               /\ x.cell.expiration <= q.late
               /\ OnScreen(fb, x.row, x.col) /\ fb.cells[x.row][x.col] = x.cell.replacement
        BY <2>1, <2>4 DEF Credit
      <3>. QED
        BY <1>4, <2>1, <2>2, <3>1 DEF Credit
    <2>. QED
      BY <2>3, <2>4
  <1>. QED
    BY <1>1, <1>2, <1>3, <1>6, <1>7 DEF JudgedFrom

\* What was seen stays seen: a later cell undoes none of it.
LEMMA SeenOn ==
    ASSUME NEW size, NEW fb, NEW p \in Engine(size), NEW q, JudgedFrom(size, p, q, fb),
           Dims(p, q), NEW i, NEW n, Seen(p, i, n), now \in Nat
    PROVE  Seen(q, i, n)
  <1>1. CASE q.overlays = <<>>
    BY <1>1 DEF Seen
  <1>2. CASE Thins(p, q)
    <2>0. q \in Engine(size)
      BY DEF JudgedFrom
    <2>1. DOMAIN q.overlays = 1 .. Len(p.overlays) /\ DOMAIN p.overlays = 1 .. Len(p.overlays)
      <3>1. p.overlays \in Seq(OverlayRow(size)) /\ q.overlays \in Seq(OverlayRow(size))
        BY <2>0, EngineParts
      <3>. QED
        BY <1>2, <3>1 DEF Thins
    <2>2. ASSUME NEW k \in DOMAIN q.overlays, NEW c \in DOMAIN q.overlays[k].cells,
                 k < i \/ (k = i /\ c < n), q.overlays[k].cells[c].active
          PROVE  q.late < q.overlays[k].cells[c].expiration /\ Lit(q, q.overlays[k].cells[c])
      <3>1. k \in DOMAIN p.overlays /\ k \in 1 .. Len(p.overlays)
        BY <2>1
      <3>2. /\ DOMAIN p.overlays[k].cells = Cols(size[2])
            /\ DOMAIN q.overlays[k].cells = Cols(size[2])
        BY <2>0, <3>1, RowColumns
      <3>3. q.overlays[k].cells[c] = p.overlays[k].cells[c]
        BY <1>2, <2>2, <3>1, <3>2 DEF Thins
      <3>. DEFINE cell == q.overlays[k].cells[c]
      <3>4. Pending(p, cell) /\ cell.active
        BY <2>2, <3>1, <3>2, <3>3 DEF Seen
      <3>5. cell.time \in Nat
        <4>1. q.overlays[k].cells \in [Cols(size[2]) -> Cell]
          BY <2>0, RowParts
        <4>2. cell \in Cell
          BY <3>2, <4>1
        <4>. HIDE DEF cell
        <4>. QED
          BY <4>2 DEF Cell
      <3>. HIDE DEF cell
      <3>6. q.late < cell.expiration
        BY <3>4 DEF Pending, JudgedFrom, Kept
      <3>7. Lit(q, cell)
        <4>1. /\ p.glitch_trigger \in Nat /\ q.glitch_trigger \in Nat
              /\ p.quick \in Nat /\ q.quick \in Nat
          BY <2>0, EngineParts
        <4>2. Debt(p) \in Nat /\ Debt(q) \in Nat
          BY <4>1, Constants DEF Debt
        <4>3. Lit(p, cell)
          BY <3>4 DEF Pending
        <4>. QED
          BY <3>5, <4>1, <4>2, <4>3, Constants DEF Lit, Dims
      <3>. QED
        BY <3>6, <3>7 DEF cell
    <2>. QED
      BY <2>2 DEF Seen, Pending
  <1>. QED
    BY <1>1, <1>2 DEF JudgedFrom

\* One more column of a row.
LEMMA JudgeNext ==
    ASSUME NEW size, NEW fb \in ScreenIn(size), NEW p \in Engine(size), NEW q,
           JudgedFrom(size, p, q, fb), NEW i \in 1 .. Len(p.overlays),
           NEW n \in Cols(size[2]), q.overlays # <<>>, now \in Nat,
           NEW r, r = JudgeCell(q, fb, i, n)
    PROVE  /\ JudgedFrom(size, p, r, fb)
           /\ Seen(q, i, n) => Seen(r, i, n + 1)
  <1>1. q \in Engine(size) /\ i \in 1 .. Len(q.overlays)
    BY DEF JudgedFrom, Thins
  <1>2. /\ JudgedFrom(size, q, r, fb) /\ Dims(q, r)
        /\ r.overlays # <<>> => Pending(r, r.overlays[i].cells[n])
    BY <1>1, JudgeCellFacts
  <1>3. JudgedFrom(size, p, r, fb)
    BY <1>2, JudgedOn
  <1>4. ASSUME Seen(q, i, n) PROVE Seen(r, i, n + 1)
    <2>1. Seen(r, i, n)
      BY <1>1, <1>2, <1>4, SeenOn
    <2>2. ASSUME NEW k \in DOMAIN r.overlays, NEW c \in DOMAIN r.overlays[k].cells,
                 k < i \/ (k = i /\ c < n + 1)
          PROVE  Pending(r, r.overlays[k].cells[c])
      <3>1. r \in Engine(size)
        BY <1>2 DEF JudgedFrom
      <3>2. r.overlays # <<>>
        BY <2>2
      <3>3. c \in Cols(size[2])
        BY <3>1, RowParts
      <3>4. c \in Int /\ n \in Int
        BY <3>3 DEF Cols
      <3>5. k < i \/ (k = i /\ c < n) \/ (k = i /\ c = n)
        BY <2>2, <3>4
      <3>. QED
        BY <1>2, <2>1, <2>2, <3>2, <3>5 DEF Seen
    <2>. QED
      BY <2>2 DEF Seen
  <1>. QED
    BY <1>3, <1>4

\* All columns of a row, by induction over them.
LEMMA JudgeRowFacts ==
    ASSUME NEW size \in Sizes, NEW fb \in ScreenIn(size), NEW p0 \in Engine(size), NEW p,
           JudgedFrom(size, p0, p, fb), NEW i \in 1 .. Len(p0.overlays), now \in Nat,
           NEW q, q = JudgeRow(p, fb, i)
    PROVE  /\ JudgedFrom(size, p0, q, fb)
           /\ Seen(p, i, 0) => Seen(q, i + 1, 0)
  <1>. DEFINE S == {e \in Engine(size) : JudgedFrom(size, p0, e, fb)}
              w == Width(fb)
              Body(f, k) == IF k = 0 THEN p
                            ELSE IF f[k - 1].overlays = <<>> THEN f[k - 1]
                            ELSE JudgeCell(f[k - 1], fb, i, k - 1)
              R == CHOOSE f : f = [k \in 0 .. w |->
                            IF k = 0 THEN p
                            ELSE IF f[k - 1].overlays = <<>> THEN f[k - 1]
                            ELSE JudgeCell(f[k - 1], fb, i, k - 1)]
              step == [m \in 0 .. w - 1 |-> [e \in S |->
                         IF e.overlays = <<>> THEN e ELSE JudgeCell(e, fb, i, m)]]
  <1>1. w = size[2] /\ w \in Nat /\ Cols(size[2]) = 0 .. w - 1
    BY PredictionAssumption DEF Width, ScreenIn, Cols
  <1>2. p \in S /\ \A e \in S : e \in Engine(size) /\ JudgedFrom(size, p0, e, fb)
    BY DEF JudgedFrom
  <1>3. ASSUME NEW m \in 0 .. w - 1, NEW e \in S
        PROVE  (IF e.overlays = <<>> THEN e ELSE JudgeCell(e, fb, i, m)) \in S
    <2>1. CASE e.overlays = <<>>
      BY <2>1
    <2>2. CASE e.overlays # <<>>
      <3>. DEFINE r == JudgeCell(e, fb, i, m)
      <3>1. r = JudgeCell(e, fb, i, m) /\ m \in Cols(size[2])
        BY <1>1
      <3>. HIDE DEF r
      <3>2. JudgedFrom(size, p0, r, fb)
        BY <1>2, <2>2, <3>1, JudgeNext
      <3>. QED
        BY <2>2, <3>1, <3>2 DEF JudgedFrom
    <2>. QED
      BY <2>1, <2>2
  <1>. HIDE DEF w, S
  <1>4. step \in [0 .. w - 1 -> [S -> S]]
    BY <1>3
  <1>5. PICK r \in [0 .. w -> S] :
            r[0] = p /\ \A m \in 0 .. w - 1 : r[m + 1] = step[m][r[m]]
    <2>. HIDE DEF step
    <2>1. \E r : IsLoop(S, p, w, step, r)
      BY <1>1, <1>2, <1>4, LoopExists
    <2>. QED
      BY <2>1 DEF IsLoop
  <1>6. ASSUME NEW m \in 0 .. w - 1
        PROVE  r[m + 1] = IF r[m].overlays = <<>> THEN r[m] ELSE JudgeCell(r[m], fb, i, m)
    <2>1. r[m] \in S
      BY <1>1
    <2>. QED
      BY <1>5, <2>1
  <1>. HIDE DEF step
  <1>7. ASSUME NEW k \in 0 .. w PROVE r[k] = Body(r, k)
    <2>1. CASE k = 0
      BY <2>1, <1>5
    <2>2. CASE k # 0
      <3>1. k - 1 \in 0 .. w - 1 /\ (k - 1) + 1 = k
        BY <2>2, <1>1
      <3>. QED
        BY <2>2, <3>1, <1>6
    <2>. QED
      BY <2>1, <2>2
  <1>8. r = [k \in 0 .. w |-> Body(r, k)]
    BY <1>7
  <1>9. R = [k \in 0 .. w |-> Body(R, k)]
    BY <1>8
  <1>10. q = R[w]
    BY DEF JudgeRow, w
  <1>. HIDE DEF R
  <1>11. \A k \in 0 .. w : R[k] = Body(R, k)
    BY <1>9
  <1>12. ASSUME NEW m \in 0 .. w - 1
         PROVE  R[m + 1] = IF R[m].overlays = <<>> THEN R[m] ELSE JudgeCell(R[m], fb, i, m)
    <2>1. m + 1 \in 0 .. w /\ m + 1 # 0 /\ (m + 1) - 1 = m
      BY <1>1
    <2>. QED
      BY <1>11, <2>1
  <1>13. R[0] = p
    BY <1>1, <1>11
  <1>. DEFINE T == {m \in 0 .. w : R[m] = r[m] /\ (Seen(p, i, 0) => Seen(r[m], i, m))}
  <1>14. 0 \in T
    BY <1>1, <1>5, <1>13
  <1>15. ASSUME NEW m \in 0 .. w - 1, m \in T PROVE m + 1 \in T
    <2>1. m + 1 \in 0 .. w /\ R[m] = r[m] /\ r[m] \in S
      BY <1>1, <1>15
    <2>2. R[m + 1] = r[m + 1]
      BY <1>6, <1>12, <2>1
    <2>3. ASSUME Seen(p, i, 0) PROVE Seen(r[m + 1], i, m + 1)
      <3>1. Seen(r[m], i, m)
        BY <1>15, <2>3
      <3>2. CASE r[m].overlays = <<>>
        <4>1. r[m + 1].overlays = <<>>
          BY <1>6, <3>2
        <4>. QED
          BY <4>1 DEF Seen
      <3>3. CASE r[m].overlays # <<>>
        <4>. DEFINE a == r[m]
                    b == r[m + 1]
        <4>1. b = JudgeCell(a, fb, i, m) /\ a.overlays # <<>> /\ Seen(a, i, m)
          BY <1>6, <3>1, <3>3
        <4>2. m \in Cols(size[2])
          BY <1>1
        <4>3. JudgedFrom(size, p0, a, fb)
          BY <1>2, <2>1
        <4>. HIDE DEF a, b
        <4>4. Seen(b, i, m + 1)
          BY <4>1, <4>2, <4>3, JudgeNext
        <4>. QED
          BY <4>4 DEF b
      <3>. QED
        BY <3>2, <3>3
    <2>. QED
      BY <2>1, <2>2, <2>3
  <1>16. w \in T
    <2>. HIDE DEF T
    <2>1. 0 .. w \subseteq T
      BY <1>1, <1>14, <1>15, Induction
    <2>. QED
      BY <1>1, <2>1
  <1>17. q = r[w] /\ (Seen(p, i, 0) => Seen(q, i, w))
    BY <1>10, <1>16
  <1>18. q \in S
    BY <1>1, <1>17
  <1>19. q \in Engine(size) /\ JudgedFrom(size, p0, q, fb)
    BY <1>2, <1>18
  <1>20. ASSUME Seen(q, i, w) PROVE Seen(q, i + 1, 0)
    <2>1. ASSUME NEW k \in DOMAIN q.overlays, NEW c \in DOMAIN q.overlays[k].cells,
                 k < i + 1 \/ (k = i + 1 /\ c < 0)
          PROVE  Pending(q, q.overlays[k].cells[c])
      <3>1. c \in 0 .. w - 1
        <4>1. q \in Engine(size)
          BY <1>19
        <4>2. q.overlays[k].cells \in [Cols(size[2]) -> Cell]
          BY <4>1, RowParts
        <4>. QED
          BY <1>1, <4>2
      <3>2. k \in Int
        <4>1. q.overlays \in Seq(OverlayRow(size))
          BY <1>19, EngineParts
        <4>. QED
          BY <4>1
      <3>3. k < i \/ (k = i /\ c < w)
        BY <1>1, <2>1, <3>1, <3>2
      <3>. QED
        BY <1>20, <3>3 DEF Seen
    <2>. QED
      BY <2>1 DEF Seen
  <1>. QED
    BY <1>17, <1>19, <1>20

\* All rows, by induction over them.
LEMMA JudgeCellsFacts ==
    ASSUME NEW size \in Sizes, NEW fb \in ScreenIn(size), NEW p \in Engine(size), now \in Nat,
           NEW q, q = JudgeCells(p, fb)
    PROVE  /\ JudgedFrom(size, p, q, fb)
           /\ \A x \in Predictions(q) : Pending(q, x.cell)
  <1>. DEFINE S == {e \in Engine(size) : JudgedFrom(size, p, e, fb)}
              n == Len(p.overlays)
              Body(f, k) == IF k = 0 THEN p ELSE JudgeRow(f[k - 1], fb, k)
              R == CHOOSE f : f = [k \in 0 .. n |->
                            IF k = 0 THEN p ELSE JudgeRow(f[k - 1], fb, k)]
              step == [m \in 0 .. n - 1 |-> [e \in S |-> JudgeRow(e, fb, m + 1)]]
  <1>1. n \in Nat /\ DOMAIN p.overlays = 1 .. n
    BY EngineParts
  <1>2. p \in S /\ \A e \in S : e \in Engine(size) /\ JudgedFrom(size, p, e, fb)
    BY JudgedItself
  <1>3. ASSUME NEW m \in 0 .. n - 1, NEW e \in S, NEW r, r = JudgeRow(e, fb, m + 1)
        PROVE  r \in S /\ (Seen(e, m + 1, 0) => Seen(r, m + 2, 0))
    <2>. DEFINE i == m + 1
    <2>1. i \in 1 .. n /\ i + 1 = m + 2
      BY <1>1
    <2>2. i \in 1 .. Len(p.overlays)
      BY <2>1
    <2>3. r = JudgeRow(e, fb, i) /\ JudgedFrom(size, p, e, fb)
      BY <1>2, <1>3
    <2>. HIDE DEF i
    <2>4. JudgedFrom(size, p, r, fb) /\ (Seen(e, i, 0) => Seen(r, i + 1, 0))
      BY <2>2, <2>3, JudgeRowFacts
    <2>. QED
      BY <2>1, <2>4 DEF JudgedFrom, i
  <1>. HIDE DEF n, S
  <1>4. step \in [0 .. n - 1 -> [S -> S]]
    BY <1>3
  <1>5. PICK r \in [0 .. n -> S] :
            r[0] = p /\ \A m \in 0 .. n - 1 : r[m + 1] = step[m][r[m]]
    <2>. HIDE DEF step
    <2>1. \E r : IsLoop(S, p, n, step, r)
      BY <1>1, <1>2, <1>4, LoopExists
    <2>. QED
      BY <2>1 DEF IsLoop
  <1>6. ASSUME NEW m \in 0 .. n - 1
        PROVE  r[m] \in S /\ r[m + 1] = JudgeRow(r[m], fb, m + 1)
    <2>1. r[m] \in S
      BY <1>1
    <2>. QED
      BY <1>5, <2>1
  <1>. HIDE DEF step
  <1>7. ASSUME NEW k \in 0 .. n PROVE r[k] = Body(r, k)
    <2>1. CASE k = 0
      BY <2>1, <1>5
    <2>2. CASE k # 0
      <3>1. k - 1 \in 0 .. n - 1 /\ (k - 1) + 1 = k
        BY <2>2, <1>1
      <3>. QED
        BY <2>2, <3>1, <1>6
    <2>. QED
      BY <2>1, <2>2
  <1>8. r = [k \in 0 .. n |-> Body(r, k)]
    BY <1>7
  <1>9. R = [k \in 0 .. n |-> Body(R, k)]
    BY <1>8
  <1>10. q = R[n]
    BY DEF JudgeCells, n
  <1>. HIDE DEF R
  <1>11. \A k \in 0 .. n : R[k] = Body(R, k)
    BY <1>9
  <1>12. ASSUME NEW m \in 0 .. n - 1
         PROVE  R[m + 1] = JudgeRow(R[m], fb, m + 1)
    <2>1. m + 1 \in 0 .. n /\ m + 1 # 0 /\ (m + 1) - 1 = m
      BY <1>1
    <2>. QED
      BY <1>11, <2>1
  <1>13. R[0] = p
    BY <1>1, <1>11
  <1>. DEFINE T == {m \in 0 .. n : R[m] = r[m] /\ Seen(r[m], m + 1, 0)}
  <1>14. 0 \in T
    <2>1. ASSUME NEW k \in DOMAIN p.overlays, NEW c \in DOMAIN p.overlays[k].cells,
                 k < 0 + 1 \/ (k = 0 + 1 /\ c < 0)
          PROVE  FALSE
      <3>1. p.overlays[k].cells \in [Cols(size[2]) -> Cell]
        BY RowParts
      <3>2. c \in Cols(size[2]) /\ k \in 1 .. n
        BY <1>1, <3>1
      <3>. QED
        BY <1>1, <2>1, <3>2 DEF Cols
    <2>2. Seen(p, 0 + 1, 0)
      BY <2>1 DEF Seen
    <2>. QED
      BY <1>1, <1>5, <1>13, <2>2
  <1>15. ASSUME NEW m \in 0 .. n - 1, m \in T PROVE m + 1 \in T
    <2>. DEFINE a == r[m]
                b == r[m + 1]
    <2>1. m + 1 \in 0 .. n /\ R[m] = a /\ a \in S /\ Seen(a, m + 1, 0) /\ (m + 1) + 1 = m + 2
      BY <1>1, <1>15
    <2>2. R[m + 1] = b /\ b = JudgeRow(a, fb, m + 1)
      BY <1>6, <1>12, <2>1
    <2>. HIDE DEF a, b
    <2>3. Seen(b, m + 2, 0)
      BY <1>3, <2>1, <2>2
    <2>. QED
      BY <2>1, <2>2, <2>3 DEF b
  <1>16. n \in T
    <2>. HIDE DEF T
    <2>1. 0 .. n \subseteq T
      BY <1>1, <1>14, <1>15, Induction
    <2>. QED
      BY <1>1, <2>1
  <1>17. q = r[n] /\ Seen(q, n + 1, 0)
    BY <1>10, <1>16
  <1>18. q \in S
    BY <1>1, <1>17
  <1>19. q \in Engine(size) /\ JudgedFrom(size, p, q, fb)
    BY <1>2, <1>18
  <1>20. ASSUME NEW x \in Predictions(q) PROVE Pending(q, x.cell)
    <2>1. PICK i \in DOMAIN q.overlays : \E c \in DOMAIN q.overlays[i].cells :
             /\ q.overlays[i].cells[c].active
             /\ x = [row |-> q.overlays[i].row, col |-> c, cell |-> q.overlays[i].cells[c]]
      BY PredictionsIn
    <2>2. PICK c \in DOMAIN q.overlays[i].cells :
             x = [row |-> q.overlays[i].row, col |-> c, cell |-> q.overlays[i].cells[c]]
      BY <2>1
    <2>3. i \in 1 .. n
      <3>1. q.overlays # <<>>
        BY <2>1
      <3>2. Thins(p, q) /\ q.overlays \in Seq(OverlayRow(size))
        BY <1>19, <3>1, EngineParts DEF JudgedFrom
      <3>. QED
        BY <3>2 DEF Thins, n
    <2>4. i < n + 1
      BY <1>1, <2>3
    <2>. QED
      BY <1>17, <2>2, <2>4 DEF Seen
  <1>. QED
    BY <1>19, <1>20

-----------------------------------------------------------------------------
(* A cull *)

\* The cursors left are on the screen and pending.
LEMMA JudgeCursorsFacts ==
    ASSUME NEW size, NEW fb \in ScreenIn(size), NEW p \in Engine(size),
           NEW q, q = JudgeCursors(p, fb)
    PROVE  /\ q \in Engine(size) /\ Steady(p, q)
           /\ q.overlays = <<>> \/ q.overlays = p.overlays
           /\ q.prediction_epoch \in p.prediction_epoch .. p.prediction_epoch + 1
           /\ p.preference = "Experimental" => q.prediction_epoch = p.prediction_epoch
           /\ \A i \in DOMAIN q.cursors : q.cursors[i].expiration > q.late
  <1>. DEFINE pending(c) == CursorValidity(p, c, fb) = "Pending"
              S == {c \in Range(p.cursors) : pending(c)}
              cursors == Only(p.cursors, S)
              none == <<>>
              wrong == p.cursors # <<>> /\ CursorValidity(p, Cursor(p), fb) = "IncorrectOrExpired"
  <1>1. p.cursors \in Seq(CursorMove(size)) /\ p.prediction_epoch \in Nat /\ p.late \in Nat
    BY EngineParts
  <1>2. cursors \in Seq(CursorMove(size) \cap S)
    <2>. HIDE DEF S
    <2>. QED
      BY <1>1, OnlyType
  <1>3. CASE wrong /\ p.preference = "Experimental"
    <2>1. q = [p EXCEPT !.cursors = none]
      BY <1>3 DEF JudgeCursors
    <2>2. none \in Seq(CursorMove(size)) /\ none = <<>>
      OBVIOUS
    <2>2b. none \in Seq(CursorMove(size))
      BY <2>2
    <2>. HIDE DEF none
    <2>3. /\ q \in Engine(size) /\ q.cursors = none /\ q.overlays = p.overlays
          /\ q.prediction_epoch = p.prediction_epoch /\ Steady(p, q)
      BY <2>1, <2>2b, WithCursors
    <2>. QED
      BY <1>1, <2>2, <2>3
  <1>4. CASE wrong /\ p.preference # "Experimental"
    <2>1. q = Reset(p)
      BY <1>4 DEF JudgeCursors
    <2>2. /\ q \in Engine(size) /\ Empty(q) /\ Steady(p, q)
          /\ q.prediction_epoch = p.prediction_epoch + 1
      BY <1>4, <2>1, ResetFacts
    <2>. QED
      BY <1>1, <1>4, <2>2 DEF Empty
  <1>5. CASE ~wrong
    <2>1. q = [p EXCEPT !.cursors = cursors]
      BY <1>5 DEF JudgeCursors
    <2>2. cursors \in Seq(CursorMove(size))
      <3>1. Seq(CursorMove(size) \cap S) \subseteq Seq(CursorMove(size))
        OBVIOUS
      <3>. HIDE DEF S, cursors
      <3>. QED
        BY <1>2, <3>1
    <2>3. ASSUME NEW i \in DOMAIN cursors PROVE cursors[i].expiration > p.late
      <3>1. cursors[i] \in CursorMove(size) /\ cursors[i] \in S
        <4>. HIDE DEF S, cursors
        <4>. QED
          BY <1>2
      <3>2. pending(cursors[i])
        BY <3>1
      <3>. HIDE DEF cursors
      <3>3. p.late < cursors[i].expiration
        BY <3>2 DEF CursorValidity
      <3>. QED
        BY <1>1, <3>1, <3>3 DEF CursorMove
    <2>. HIDE DEF cursors
    <2>4. /\ q \in Engine(size) /\ q.cursors = cursors /\ q.overlays = p.overlays
          /\ q.prediction_epoch = p.prediction_epoch /\ Steady(p, q)
      BY <2>1, <2>2, WithCursors
    <2>. QED
      BY <1>1, <2>3, <2>4 DEF Steady, Kept
  <1>. QED
    BY <1>3, <1>4, <1>5

Alike(p, q) ==
    /\ q.sent = p.sent /\ q.late = p.late /\ q.preference = p.preference
    /\ q.overwrite = p.overwrite

\* What a cull may do to an engine.
Culled(size, p, q, fb) ==
    /\ q \in Engine(size) /\ Alike(p, q)
    /\ Predictions(q) \subseteq Predictions(p) /\ (DistinctRows(p) => DistinctRows(q))
    /\ p.preference # "Experimental" => q.prediction_epoch >= p.prediction_epoch
    /\ Credit(p, q, fb)
    /\ \A x \in Predictions(q) : q.late < x.cell.expiration /\ Timely(q, now, x)
    /\ \A i \in DOMAIN q.cursors : q.cursors[i].expiration > q.late

\* A change of the screen's size leaves no prediction for the old one.
LEMMA FitFacts ==
    ASSUME NEW size, NEW fb \in ScreenIn(size), NEW p, p \in Engine(p.size), NEW q, q = Fit(p, fb)
    PROVE  /\ q \in Engine(size) /\ Steady(p, q)
           /\ q.overlays = <<>> \/ q.overlays = p.overlays
           /\ q.prediction_epoch \in p.prediction_epoch .. p.prediction_epoch + 1
           /\ p.preference = "Experimental" => q.prediction_epoch = p.prediction_epoch
  <1>1. fb.size = size
    BY DEF ScreenIn
  <1>2. CASE p.size = size
    <2>1. q = p
      BY <1>1, <1>2 DEF Fit
    <2>2. p.prediction_epoch \in Nat
      BY EngineParts
    <2>. QED
      BY <1>2, <2>1, <2>2 DEF Steady, Kept
  <1>3. CASE p.size # size
    <2>. DEFINE none == <<>>
                moved == [p EXCEPT !.size = size]
                cleared == [moved EXCEPT !.cursors = none, !.overlays = none]
    <2>1. q = BecomeTentative(cleared)
      BY <1>1, <1>3 DEF Fit, Reset
    <2>2. /\ cleared \in Engine(size) /\ cleared.overlays = <<>> /\ Steady(p, cleared)
          /\ cleared.prediction_epoch = p.prediction_epoch
      <3>1. none \in Seq(CursorMove(size)) /\ none \in Seq(OverlayRow(size)) /\ none = <<>>
        OBVIOUS
      <3>. HIDE DEF none
      <3>2. cleared \in Engine(size)
        BY <3>1 DEF Engine
      <3>3. cleared.overlays = none
        BY DEF Engine
      <3>4. Steady(p, cleared) /\ cleared.prediction_epoch = p.prediction_epoch
        BY DEF Engine, Steady, Kept
      <3>. QED
        BY <3>1, <3>2, <3>3, <3>4
    <2>3. cleared \in Engine(size)
      BY <2>2
    <2>. HIDE DEF cleared
    <2>4. /\ q \in Engine(size) /\ q.overlays = cleared.overlays /\ Steady(cleared, q)
          /\ q.prediction_epoch =
                cleared.prediction_epoch + (IF cleared.preference = "Experimental" THEN 0 ELSE 1)
      BY <2>1, <2>3, BecomeTentativeFacts
    <2>5. p.prediction_epoch \in Nat /\ cleared.preference = p.preference
      BY <2>2, EngineParts DEF Steady, Kept
    <2>. QED
      BY <2>2, <2>4, <2>5 DEF Steady, Kept
  <1>. QED
    BY <1>2, <1>3

\* The round trip time sets the triggers and nothing else.
LEMMA TriggersFacts ==
    ASSUME NEW size, NEW p \in Engine(size), NEW q, q = Triggers(p)
    PROVE  /\ q \in Engine(size) /\ Alike(p, q) /\ q.overlays = p.overlays
           /\ q.prediction_epoch = p.prediction_epoch /\ q.confirmed_epoch = p.confirmed_epoch
  <1>. DEFINE flagging == CASE p.interval > FLAG_TRIGGER_HIGH -> TRUE
                          [] p.interval <= FLAG_TRIGGER_LOW -> FALSE
                          [] OTHER -> p.flagging
              f == flagging \/ p.glitch_trigger > GLITCH_REPAIR_COUNT
              s == \/ p.interval > SRTT_TRIGGER_HIGH
                   \/ p.srtt_trigger /\ ~(p.interval <= SRTT_TRIGGER_LOW /\ ~Active(p))
  <1>1. q = [p EXCEPT !.srtt_trigger = s, !.flagging = f]
    BY DEF Triggers
  <1>2. s \in BOOLEAN /\ f \in BOOLEAN
    OBVIOUS
  <1>. HIDE DEF s, f
  <1>. QED
    BY <1>1, <1>2 DEF Engine, Alike

\* cull, whatever the screen and the predictions.
LEMMA CullFacts ==
    ASSUME NEW size \in Sizes, NEW fb \in ScreenIn(size), NEW p, p \in Engine(p.size),
           p.preference # "Never", now \in Nat, NEW q, q = Cull(p, fb)
    PROVE  Culled(size, p, q, fb)
  <1>. DEFINE a == Fit(p, fb)
              b == Triggers(a)
              on_screen == {row \in Range(b.overlays) : row.row \in Rows(Height(fb))}
              overlays == Only(b.overlays, on_screen)
              c == [b EXCEPT !.overlays = overlays]
              d == JudgeCells(c, fb)
  <1>1. /\ a = Fit(p, fb) /\ b = Triggers(a) /\ d = JudgeCells(c, fb)
        /\ c = [b EXCEPT !.overlays = overlays]
    OBVIOUS
  <1>2. q = JudgeCursors(d, fb)
    BY DEF Cull
  <1>. HIDE DEF a, b, c, d
  <1>3. /\ a \in Engine(size) /\ Steady(p, a) /\ (a.overlays = <<>> \/ a.overlays = p.overlays)
        /\ a.prediction_epoch \in p.prediction_epoch .. p.prediction_epoch + 1
        /\ p.preference = "Experimental" => a.prediction_epoch = p.prediction_epoch
    BY <1>1, FitFacts
  <1>4. /\ b \in Engine(size) /\ Alike(a, b) /\ b.overlays = a.overlays
        /\ b.prediction_epoch = a.prediction_epoch /\ b.confirmed_epoch = a.confirmed_epoch
    BY <1>1, <1>3, TriggersFacts
  <1>5. overlays = b.overlays /\ b.overlays \in Seq(OverlayRow(size))
    <2>1. b.overlays \in Seq(OverlayRow(size))
      BY <1>4, EngineParts
    <2>2. ASSUME NEW i \in 1 .. Len(b.overlays) PROVE b.overlays[i] \in on_screen
      <3>1. b.overlays[i] \in OverlayRow(size) /\ b.overlays[i] \in Range(b.overlays)
        BY <2>1 DEF Range
      <3>. QED
        BY <3>1 DEF OverlayRow, Height, ScreenIn
    <2>. HIDE DEF on_screen
    <2>. QED
      BY <2>1, <2>2, OnlyAll
  <1>5b. overlays \in Seq(OverlayRow(size))
    BY <1>5
  <1>. HIDE DEF overlays
  <1>6. /\ c \in Engine(size) /\ c.overlays = overlays /\ Steady(b, c)
        /\ c.prediction_epoch = b.prediction_epoch
    <2>1. b \in Engine(size) /\ c = [b EXCEPT !.overlays = overlays]
      BY <1>1, <1>4
    <2>. QED
      BY <1>5b, <2>1, WithOverlays
  <1>7. JudgedFrom(size, c, d, fb) /\ \A x \in Predictions(d) : Pending(d, x.cell)
    BY <1>1, <1>6, JudgeCellsFacts
  <1>8. d \in Engine(size)
    BY <1>7 DEF JudgedFrom
  <1>9. /\ q \in Engine(size) /\ Steady(d, q)
        /\ q.overlays = <<>> \/ q.overlays = d.overlays
        /\ q.prediction_epoch \in d.prediction_epoch .. d.prediction_epoch + 1
        /\ d.preference = "Experimental" => q.prediction_epoch = d.prediction_epoch
        /\ \A i \in DOMAIN q.cursors : q.cursors[i].expiration > q.late
    BY <1>2, <1>8, JudgeCursorsFacts
  <1>10. Alike(p, q) /\ Alike(p, c) /\ c.confirmed_epoch = p.confirmed_epoch
         /\ d.preference = p.preference
    BY <1>3, <1>4, <1>6, <1>7, <1>9 DEF Steady, Kept, Alike, JudgedFrom
  <1>11. c.overlays = <<>> \/ c.overlays = p.overlays
    BY <1>3, <1>4, <1>5, <1>6
  <1>12. Predictions(c) \subseteq Predictions(p) /\ (DistinctRows(p) => DistinctRows(c))
    <2>1. CASE c.overlays = <<>>
      BY <2>1, NoOverlays DEF DistinctRows
    <2>2. CASE c.overlays = p.overlays
      BY <2>2, SamePredictions DEF DistinctRows
    <2>. QED
      BY <1>11, <2>1, <2>2
  <1>13. Predictions(d) \subseteq Predictions(c) /\ (DistinctRows(c) => DistinctRows(d))
    <2>1. CASE d.overlays = <<>>
      BY <2>1, NoOverlays DEF DistinctRows
    <2>2. CASE Thins(c, d)
      BY <1>6, <1>8, <2>2, ThinsFacts
    <2>. QED
      BY <1>7, <2>1, <2>2 DEF JudgedFrom
  <1>14. Predictions(q) \subseteq Predictions(d) /\ (DistinctRows(d) => DistinctRows(q))
    <2>1. CASE q.overlays = <<>>
      BY <2>1, NoOverlays DEF DistinctRows
    <2>2. CASE q.overlays = d.overlays
      BY <2>2, SamePredictions DEF DistinctRows
    <2>. QED
      BY <1>9, <2>1, <2>2
  <1>15. /\ p.prediction_epoch \in Nat /\ a.prediction_epoch \in Nat
         /\ d.prediction_epoch \in Nat /\ q.prediction_epoch \in Nat
    BY <1>3, <1>8, <1>9, EngineParts
  <1>16. /\ q.prediction_epoch >= p.prediction_epoch
         /\ p.preference = "Experimental" => q.prediction_epoch = p.prediction_epoch
    <2>1. /\ d.prediction_epoch >= c.prediction_epoch
          /\ p.preference = "Experimental" => d.prediction_epoch = c.prediction_epoch
      BY <1>7, <1>10 DEF JudgedFrom, Alike
    <2>. QED
      BY <1>3, <1>4, <1>6, <1>9, <1>10, <1>15, <2>1
  <1>17. Credit(p, q, fb)
    <2>1. Credit(c, d, fb) /\ c.late = p.late /\ q.confirmed_epoch = d.confirmed_epoch
      BY <1>7, <1>9, <1>10 DEF JudgedFrom, Alike, Steady
    <2>. QED
      BY <1>10, <1>12, <2>1 DEF Credit
  <1>18. ASSUME NEW x \in Predictions(q)
         PROVE  q.late < x.cell.expiration /\ Timely(q, now, x)
    <2>1. Pending(d, x.cell) /\ x.cell.active /\ x.cell.time \in Nat
      BY <1>7, <1>9, <1>14, PredictionParts
    <2>2. d.late < x.cell.expiration /\ Lit(d, x.cell)
      BY <2>1 DEF Pending
    <2>3. q.late = d.late /\ q.glitch_trigger = d.glitch_trigger
      BY <1>9 DEF Steady, Kept
    <2>4. Debt(d) \in {0, 1} /\ d.glitch_trigger \in Nat
      BY <1>8, EngineParts DEF Debt
    <2>5. now - x.cell.time >= GLITCH_THRESHOLD => q.glitch_trigger > 0
      BY <2>2, <2>3, <2>4, Constants DEF Lit
    <2>6. now - x.cell.time >= GLITCH_FLAG_THRESHOLD => q.glitch_trigger > GLITCH_REPAIR_COUNT
      BY <2>2, <2>3, <2>4, Constants DEF Lit
    <2>. QED
      BY <2>2, <2>3, <2>5, <2>6 DEF Timely
  <1>. QED
    BY <1>9, <1>10, <1>12, <1>13, <1>14, <1>16, <1>17, <1>18 DEF Culled

-----------------------------------------------------------------------------
(* Editing *)

\* What a key adds: a prediction that is not on the screen fb already, if it may earn credit.
New(p, q, fb, glyphs, x) ==
    /\ x.cell.epoch \in p.prediction_epoch .. q.prediction_epoch
    /\ x.cell.expiration = p.sent + 1 /\ x.cell.time = now
    /\ Creditable(x.cell) => fb.cells[x.row][x.col] # x.cell.replacement
    /\ p.overwrite /\ Visible(x.cell) => x.cell.replacement \in glyphs

\* What a key may do to an engine.
Edited(size, p, q, fb, glyphs) ==
    /\ q \in Engine(size) /\ Steady(p, q)
    /\ q.prediction_epoch >= p.prediction_epoch
    /\ DistinctRows(p) => DistinctRows(q)
    /\ \A x \in Predictions(q) : x \in Predictions(p) \/ New(p, q, fb, glyphs, x)

\* Two edits in a row are an edit.
LEMMA EditedOn ==
    ASSUME NEW size, NEW fb, NEW glyphs, NEW p \in Engine(size), NEW q, NEW r,
           Edited(size, p, q, fb, glyphs), Edited(size, q, r, fb, glyphs)
    PROVE  Edited(size, p, r, fb, glyphs)
  <1>1. q \in Engine(size) /\ r \in Engine(size)
    BY DEF Edited
  <1>2. Steady(p, r) /\ q.sent = p.sent /\ q.overwrite = p.overwrite
    BY DEF Edited, Steady, Kept
  <1>3. p.prediction_epoch \in Nat /\ q.prediction_epoch \in Nat /\ r.prediction_epoch \in Nat
    BY <1>1, EngineParts
  <1>4. r.prediction_epoch >= p.prediction_epoch
    BY <1>3 DEF Edited
  <1>5. DistinctRows(p) => DistinctRows(r)
    BY DEF Edited
  <1>6. ASSUME NEW x \in Predictions(r)
        PROVE  x \in Predictions(p) \/ New(p, r, fb, glyphs, x)
    <2>1. x.cell.epoch \in Nat
      BY <1>1, PredictionParts
    <2>2. CASE x \in Predictions(q)
      <3>1. x \in Predictions(p) \/ New(p, q, fb, glyphs, x)
        BY <2>2 DEF Edited
      <3>. QED
        BY <1>3, <2>1, <3>1 DEF Edited, New
    <2>3. CASE New(q, r, fb, glyphs, x)
      BY <1>2, <1>3, <2>1, <2>3 DEF Edited, New
    <2>. QED
      BY <2>2, <2>3 DEF Edited
  <1>. QED
    BY <1>1, <1>2, <1>4, <1>5, <1>6 DEF Edited

LEMMA SameEdited ==
    ASSUME NEW size, NEW fb, NEW glyphs, NEW p \in Engine(size), NEW q \in Engine(size),
           Steady(p, q), q.overlays = p.overlays, q.prediction_epoch >= p.prediction_epoch
    PROVE  Edited(size, p, q, fb, glyphs)
  BY SamePredictions DEF Edited, DistinctRows

LEMMA Sized ==
    ASSUME NEW size \in Sizes, NEW fb \in ScreenIn(size)
    PROVE  /\ size[1] \in Nat /\ size[1] >= 1 /\ size[2] \in Nat /\ size[2] >= 1
           /\ Height(fb) = size[1] /\ Width(fb) = size[2] /\ fb.size = size
           /\ Rows(size[1]) = 0 .. size[1] - 1 /\ Cols(size[2]) = 0 .. size[2] - 1
           /\ fb.row \in Rows(size[1]) /\ fb.col \in Cols(size[2])
           /\ fb.cells \in [Rows(size[1]) -> [Cols(size[2]) -> Glyph]]
  <1>1. size[1] \in Nat /\ size[1] >= 1 /\ size[2] \in Nat /\ size[2] >= 1
    BY PredictionAssumption
  <1>2. /\ Height(fb) = size[1] /\ Width(fb) = size[2] /\ fb.size = size
        /\ fb.row \in Rows(size[1]) /\ fb.col \in Cols(size[2])
        /\ fb.cells \in [Rows(size[1]) -> [Cols(size[2]) -> Glyph]]
    BY DEF Height, Width, ScreenIn
  <1>. QED
    BY <1>1, <1>2 DEF Rows, Cols

\* get_or_make_row adds a row that predicts nothing yet.
LEMMA MakeRowFacts ==
    ASSUME NEW size \in Sizes, NEW fb \in ScreenIn(size), NEW glyphs, NEW p \in Engine(size),
           NEW row \in Rows(size[1]), NEW q, q = MakeRow(p, fb, row)
    PROVE  /\ Edited(size, p, q, fb, glyphs) /\ q.cursors = p.cursors
           /\ q.prediction_epoch = p.prediction_epoch
           /\ RowIndex(q, row) \in DOMAIN q.overlays
           /\ q.overlays[RowIndex(q, row)].row = row
  <1>0. p.prediction_epoch \in Nat
    BY EngineParts
  <1>1. CASE HasRow(p, row)
    <2>1. q = p
      BY <1>1 DEF MakeRow
    <2>2. Steady(p, q)
      BY <2>1 DEF Steady, Kept
    <2>3. Edited(size, p, q, fb, glyphs)
      BY <1>0, <2>1, <2>2, SameEdited
    <2>4. \E i \in DOMAIN p.overlays : p.overlays[i].row = row
      BY <1>1 DEF HasRow
    <2>. QED
      BY <2>1, <2>3, <2>4 DEF RowIndex
  <1>2. CASE ~HasRow(p, row)
    <2>. DEFINE cells == [c \in Cols(Width(fb)) |-> NoPrediction]
                made == [row |-> row, cells |-> cells]
                overlays == Append(p.overlays, made)
                n == Len(p.overlays)
    <2>1. q = [p EXCEPT !.overlays = overlays]
      BY <1>2 DEF MakeRow
    <2>2. /\ made \in OverlayRow(size) /\ made.row = row /\ made.cells = cells
          /\ \A c \in DOMAIN cells : ~cells[c].active
      BY Sized, NoPredictionFacts DEF OverlayRow
    <2>. HIDE DEF made, cells
    <2>3. /\ p.overlays \in Seq(OverlayRow(size)) /\ n \in Nat
          /\ DOMAIN p.overlays = 1 .. n
      BY EngineParts
    <2>4. overlays \in Seq(OverlayRow(size))
      BY <2>2, <2>3
    <2>5. /\ DOMAIN overlays = 1 .. n + 1 /\ overlays[n + 1] = made
          /\ \A i \in 1 .. n : overlays[i] = p.overlays[i]
      BY <2>2, <2>3
    <2>. HIDE DEF overlays
    <2>6. /\ q \in Engine(size) /\ q.overlays = overlays /\ q.cursors = p.cursors
          /\ q.prediction_epoch = p.prediction_epoch /\ Steady(p, q)
      BY <2>1, <2>4, WithOverlays
    <2>7. ASSUME NEW x \in Predictions(q) PROVE x \in Predictions(p)
      <3>1. PICK i \in DOMAIN overlays : \E c \in DOMAIN overlays[i].cells :
               /\ overlays[i].cells[c].active
               /\ x = [row |-> overlays[i].row, col |-> c, cell |-> overlays[i].cells[c]]
        BY <2>6, PredictionsIn
      <3>2. i \in DOMAIN p.overlays /\ overlays[i] = p.overlays[i]
        <4>1. i # n + 1
          BY <2>2, <2>5, <3>1
        <4>2. i \in 1 .. n
          BY <2>3, <2>5, <4>1
        <4>. QED
          BY <2>3, <2>5, <4>2
      <3>. QED
        BY <3>1, <3>2, PredictionsIn
    <2>8. ASSUME DistinctRows(p) PROVE DistinctRows(q)
      <3>1. \A i \in 1 .. n : p.overlays[i].row # row
        BY <1>2, <2>3 DEF HasRow
      <3>2. ASSUME NEW i \in 1 .. n + 1, NEW j \in 1 .. n + 1, overlays[i].row = overlays[j].row
            PROVE  i = j
        <4>1. (i \in 1 .. n \/ i = n + 1) /\ (j \in 1 .. n \/ j = n + 1)
          BY <2>3
        <4>. QED
          BY <2>2, <2>3, <2>5, <2>8, <3>1, <3>2, <4>1 DEF DistinctRows
      <3>. QED
        BY <2>5, <2>6, <3>2 DEF DistinctRows
    <2>9. Edited(size, p, q, fb, glyphs)
      BY <1>0, <2>6, <2>7, <2>8 DEF Edited
    <2>10. \E i \in DOMAIN q.overlays : q.overlays[i].row = row
      <3>1. n + 1 \in DOMAIN overlays
        BY <2>3, <2>5
      <3>. QED
        BY <2>2, <2>5, <2>6, <3>1
    <2>. QED
      BY <2>6, <2>9, <2>10 DEF RowIndex
  <1>. QED
    BY <1>1, <1>2

\* New cells in a row.
Fills(size, p, fb, glyphs, i, cells) ==
    /\ i \in DOMAIN p.overlays /\ cells \in [Cols(size[2]) -> Cell]
    /\ \A c \in Cols(size[2]) :
          \/ cells[c] = p.overlays[i].cells[c]
          \/ New(p, p, fb, glyphs,
                 [row |-> p.overlays[i].row, col |-> c, cell |-> cells[c]])

\* Filling a row with new predictions is an edit.
LEMMA PutCellsFacts ==
    ASSUME NEW size, NEW fb, NEW glyphs, NEW p \in Engine(size), NEW i, NEW cells,
           Fills(size, p, fb, glyphs, i, cells),
           NEW q, q = [p EXCEPT !.overlays[i].cells = cells]
    PROVE  /\ Edited(size, p, q, fb, glyphs) /\ q.cursors = p.cursors
           /\ q.prediction_epoch = p.prediction_epoch
  <1>. DEFINE row == [p.overlays[i] EXCEPT !.cells = cells]
              overlays == [p.overlays EXCEPT ![i] = row]
  <1>0. /\ i \in DOMAIN p.overlays /\ cells \in [Cols(size[2]) -> Cell]
        /\ \A c \in Cols(size[2]) :
              \/ cells[c] = p.overlays[i].cells[c]
              \/ New(p, p, fb, glyphs,
                     [row |-> p.overlays[i].row, col |-> c, cell |-> cells[c]])
    BY DEF Fills
  <1>1. p.overlays \in Seq(OverlayRow(size)) /\ DOMAIN p.overlays = 1 .. Len(p.overlays)
        /\ p.prediction_epoch \in Nat
    BY EngineParts
  <1>2. /\ p.overlays[i].row \in Rows(size[1]) /\ p.overlays[i].cells \in [Cols(size[2]) -> Cell]
        /\ p.overlays[i] = [row |-> p.overlays[i].row, cells |-> p.overlays[i].cells]
    BY <1>0, RowParts
  <1>3. q = [p EXCEPT !.overlays = overlays]
    OBVIOUS
  <1>4. row \in OverlayRow(size) /\ row.row = p.overlays[i].row /\ row.cells = cells
    <2>1. row = [row |-> p.overlays[i].row, cells |-> cells]
      BY <1>2
    <2>. HIDE DEF row
    <2>. QED
      BY <1>0, <1>2, <2>1 DEF OverlayRow
  <1>. HIDE DEF row
  <1>5. /\ overlays \in Seq(OverlayRow(size)) /\ DOMAIN overlays = DOMAIN p.overlays
        /\ overlays[i] = row
        /\ \A k \in DOMAIN p.overlays : k # i => overlays[k] = p.overlays[k]
    BY <1>0, <1>1, <1>4
  <1>6. overlays \in Seq(OverlayRow(size))
    BY <1>5
  <1>. HIDE DEF overlays
  <1>7. /\ q \in Engine(size) /\ q.overlays = overlays /\ Steady(p, q) /\ q.cursors = p.cursors
        /\ q.prediction_epoch = p.prediction_epoch
    <2>1. ASSUME NEW w, w = [p EXCEPT !.overlays = overlays]
          PROVE  /\ w \in Engine(size) /\ w.overlays = overlays /\ Steady(p, w)
                 /\ w.cursors = p.cursors /\ w.prediction_epoch = p.prediction_epoch
      BY <1>6, <2>1, WithOverlays
    <2>. QED
      BY <1>3, <2>1
  <1>8. \A k \in DOMAIN p.overlays : overlays[k].row = p.overlays[k].row
    BY <1>0, <1>4, <1>5
  <1>9. DistinctRows(p) => DistinctRows(q)
    BY <1>5, <1>7, <1>8 DEF DistinctRows
  <1>10. ASSUME NEW x \in Predictions(q)
         PROVE  x \in Predictions(p) \/ New(p, q, fb, glyphs, x)
    <2>1. PICK k \in DOMAIN overlays : \E c \in DOMAIN overlays[k].cells :
             /\ overlays[k].cells[c].active
             /\ x = [row |-> overlays[k].row, col |-> c, cell |-> overlays[k].cells[c]]
      <3>1. ASSUME NEW w, w.overlays = overlays, x \in Predictions(w)
            PROVE  \E k \in DOMAIN overlays : \E c \in DOMAIN overlays[k].cells :
                      /\ overlays[k].cells[c].active
                      /\ x = [row |-> overlays[k].row, col |-> c, cell |-> overlays[k].cells[c]]
        BY <3>1, PredictionsIn
      <3>. QED
        BY <1>7, <3>1
    <2>2. PICK c \in DOMAIN overlays[k].cells :
             /\ overlays[k].cells[c].active
             /\ x = [row |-> overlays[k].row, col |-> c, cell |-> overlays[k].cells[c]]
      BY <2>1
    <2>3. CASE k # i
      <3>1. k \in DOMAIN p.overlays /\ overlays[k] = p.overlays[k]
        BY <1>5, <2>3
      <3>. QED
        BY <2>2, <3>1, PredictionsIn
    <2>4. CASE k = i
      <3>1. c \in Cols(size[2]) /\ c \in DOMAIN p.overlays[i].cells
        BY <1>0, <1>2, <1>4, <1>5, <2>4
      <3>2. x = [row |-> p.overlays[i].row, col |-> c, cell |-> cells[c]] /\ cells[c].active
        BY <1>4, <1>5, <2>2, <2>4
      <3>3. CASE cells[c] = p.overlays[i].cells[c]
        BY <1>0, <3>1, <3>2, <3>3, PredictionsIn
      <3>4. CASE New(p, p, fb, glyphs, x)
        BY <1>7, <3>4 DEF New
      <3>. QED
        BY <1>0, <3>1, <3>2, <3>3, <3>4
    <2>. QED
      BY <2>3, <2>4
  <1>. QED
    <2>1. q.prediction_epoch >= p.prediction_epoch
      BY <1>1, <1>7
    <2>2. Edited(size, p, q, fb, glyphs)
      BY <1>7, <1>9, <1>10, <2>1 DEF Edited
    <2>. QED
      BY <1>7, <2>2

HasPlace(p, row) ==
    RowIndex(p, row) \in DOMAIN p.overlays /\ p.overlays[RowIndex(p, row)].row = row

LEMMA SamePlace ==
    ASSUME NEW p, NEW q, NEW row, q.overlays = p.overlays, HasPlace(p, row)
    PROVE  HasPlace(q, row)
  BY DEF HasPlace, RowIndex

ContentIn == [unknown : BOOLEAN, replacement : Glyph]

\* A cell shifted by an insertion or a backspace holds what was there to see.
LEMMA ContentFacts ==
    ASSUME NEW size \in Sizes, NEW fb \in ScreenIn(size), NEW p \in Engine(size),
           NEW row \in Rows(size[1]), NEW col \in Cols(size[2]), HasPlace(p, row)
    PROVE  Content(p, fb, row, col) \in ContentIn
  <1>. DEFINE cell == CellsOf(p, row)[col]
              i == RowIndex(p, row)
  <1>1. p.overlays[i].cells \in [Cols(size[2]) -> Cell]
    <2>1. i \in DOMAIN p.overlays
      BY DEF HasPlace
    <2>. HIDE DEF i
    <2>. QED
      BY <2>1, RowParts
  <1>2. cell \in Cell
    BY <1>1 DEF CellsOf
  <1>3. cell.active \in BOOLEAN /\ cell.unknown \in BOOLEAN /\ cell.replacement \in Glyph
    BY <1>2 DEF Cell
  <1>4. fb.cells[row][col] \in Glyph
    BY Sized
  <1>5. Content(p, fb, row, col) =
           CASE ~cell.active -> Known(fb.cells[row][col])
             [] cell.active /\ cell.unknown -> Unknown
             [] OTHER -> Known(cell.replacement)
    BY DEF Content
  <1>. HIDE DEF cell
  <1>6. \A glyph \in Glyph : Known(glyph) \in ContentIn
    BY DEF Known, ContentIn
  <1>7. Unknown \in ContentIn
    BY DEF Unknown, ContentIn, Glyph
  <1>8. CASE ~cell.active
    BY <1>4, <1>5, <1>6, <1>8
  <1>9. CASE cell.active /\ cell.unknown
    BY <1>5, <1>7, <1>9
  <1>10. CASE cell.active /\ ~cell.unknown
    BY <1>3, <1>5, <1>6, <1>10
  <1>. QED
    BY <1>3, <1>8, <1>9, <1>10

\* What may be predicted: whatever is on the screen now is not given credit for.
Foreseen(size, p, fb, glyphs, row, content, original) ==
    /\ DOMAIN content \subseteq Cols(size[2])
    /\ \A c \in DOMAIN content :
          /\ content[c] \in ContentIn /\ original[c] \in Glyph
          /\ original[c] = fb.cells[row][c] \/ content[c].replacement = Blank
          /\ p.overwrite /\ ~content[c].unknown =>
                content[c].replacement \in glyphs \cup {Blank}

\* Predicting cells of a row is an edit, if the originals are what the screen shows.
LEMMA PredictCellsFacts ==
    ASSUME NEW size \in Sizes, NEW fb \in ScreenIn(size), NEW glyphs, NEW p \in Engine(size),
           NEW row \in Rows(size[1]), HasPlace(p, row), now \in Nat,
           NEW content, NEW original, Foreseen(size, p, fb, glyphs, row, content, original),
           NEW q, q = PredictCells(p, row, content, original)
    PROVE  /\ Edited(size, p, q, fb, glyphs) /\ q.cursors = p.cursors
           /\ q.prediction_epoch = p.prediction_epoch
  <1>. DEFINE i == RowIndex(p, row)
              old == p.overlays[i].cells
              cells == [c \in DOMAIN old |->
                          IF c \in DOMAIN content THEN Predict(p, old[c], content[c], original[c])
                          ELSE old[c]]
  <1>0. /\ DOMAIN content \subseteq Cols(size[2])
        /\ \A c \in DOMAIN content :
              /\ content[c] \in ContentIn /\ original[c] \in Glyph
              /\ original[c] = fb.cells[row][c] \/ content[c].replacement = Blank
              /\ p.overwrite /\ ~content[c].unknown =>
                    content[c].replacement \in glyphs \cup {Blank}
    BY DEF Foreseen
  <1>1. q = [p EXCEPT !.overlays[i].cells = cells]
    BY DEF PredictCells
  <1>2. i \in DOMAIN p.overlays /\ p.overlays[i].row = row
    BY DEF HasPlace
  <1>. HIDE DEF i
  <1>3. old \in [Cols(size[2]) -> Cell]
    BY <1>2, RowParts
  <1>4. p.sent \in Nat /\ p.prediction_epoch \in Nat /\ p.overwrite \in BOOLEAN
    BY EngineParts
  <1>. HIDE DEF old
  <1>5. ASSUME NEW c \in DOMAIN content,
               NEW cell, cell = Predict(p, old[c], content[c], original[c])
        PROVE  /\ cell \in Cell
               /\ New(p, p, fb, glyphs, [row |-> row, col |-> c, cell |-> cell])
    <2>. DEFINE before == old[c]
                originals == (IF before.active /\ ~before.unknown
                              THEN before.originals \cup {before.replacement} ELSE {})
                             \cup {original[c]}
    <2>1. before \in Cell
      BY <1>0, <1>3
    <2>2. /\ content[c].unknown \in BOOLEAN /\ content[c].replacement \in Glyph
          /\ original[c] \in Glyph
      BY <1>0 DEF ContentIn
    <2>3. originals \subseteq Glyph /\ original[c] \in originals
      <3>. HIDE DEF before
      <3>. QED
        BY <2>1, <2>2 DEF Cell
    <2>4. cell = [active |-> TRUE, unknown |-> content[c].unknown,
                  replacement |-> content[c].replacement, originals |-> originals,
                  expiration |-> p.sent + 1, epoch |-> p.prediction_epoch, time |-> now]
      BY <1>5 DEF Predict
    <2>. HIDE DEF originals
    <2>5. cell \in Cell
      BY <1>4, <2>2, <2>3, <2>4 DEF Cell
    <2>6. /\ cell.unknown = content[c].unknown /\ cell.replacement = content[c].replacement
          /\ cell.originals = originals /\ cell.expiration = p.sent + 1
          /\ cell.epoch = p.prediction_epoch /\ cell.time = now
      BY <2>4
    <2>7. Creditable(cell) => fb.cells[row][c] # cell.replacement
      BY <1>0, <2>3, <2>6 DEF Creditable
    <2>8. p.overwrite /\ Visible(cell) => cell.replacement \in glyphs
      BY <1>0, <2>6 DEF Visible
    <2>9. cell.epoch \in p.prediction_epoch .. p.prediction_epoch
      BY <1>4, <2>6
    <2>. QED
      BY <2>5, <2>6, <2>7, <2>8, <2>9 DEF New
  <1>6. cells \in [Cols(size[2]) -> Cell]
    <2>1. ASSUME NEW c \in Cols(size[2])
          PROVE  (IF c \in DOMAIN content THEN Predict(p, old[c], content[c], original[c])
                  ELSE old[c]) \in Cell
      BY <1>3, <1>5
    <2>. QED
      BY <1>3, <2>1
  <1>7. ASSUME NEW c \in Cols(size[2])
        PROVE  \/ cells[c] = p.overlays[i].cells[c]
               \/ New(p, p, fb, glyphs,
                      [row |-> p.overlays[i].row, col |-> c, cell |-> cells[c]])
    <2>1. cells[c] = IF c \in DOMAIN content THEN Predict(p, old[c], content[c], original[c])
                     ELSE old[c]
      BY <1>3
    <2>. HIDE DEF cells
    <2>2. CASE c \in DOMAIN content
      BY <1>2, <1>5, <2>1, <2>2
    <2>3. CASE c \notin DOMAIN content
      BY <2>1, <2>3 DEF old
    <2>. QED
      BY <2>2, <2>3
  <1>. HIDE DEF cells
  <1>. QED
    <2>1. ASSUME NEW w, w = [p EXCEPT !.overlays[i].cells = cells]
          PROVE  /\ Edited(size, p, w, fb, glyphs) /\ w.cursors = p.cursors
                 /\ w.prediction_epoch = p.prediction_epoch
      <3>1. Fills(size, p, fb, glyphs, i, cells)
        BY <1>2, <1>6, <1>7 DEF Fills
      <3>. QED
        BY <2>1, <3>1, PutCellsFacts
    <2>. QED
      BY <1>1, <2>1

\* newline_carriage_return is an edit that predicts no glyph.
LEMMA NewlineFacts ==
    ASSUME NEW size \in Sizes, NEW fb \in ScreenIn(size), NEW glyphs, NEW p \in Engine(size),
           now \in Nat, NEW q, q = NewlineCarriageReturn(p, fb)
    PROVE  Edited(size, p, q, fb, glyphs) /\ q.prediction_epoch = p.prediction_epoch
  <1>. DEFINE ready == InitCursor(p, fb)
              row == Cursor(ready).row
              left == SetCursor(ready, row, 0)
              bottom == MakeRow(left, fb, row)
              i == RowIndex(bottom, row)
              blank(cell) == [cell EXCEPT !.active = TRUE, !.replacement = Blank,
                                          !.epoch = p.prediction_epoch,
                                          !.expiration = p.sent + 1, !.time = now]
              old == bottom.overlays[i].cells
              cells == [c \in DOMAIN old |-> blank(old[c])]
              down == row + 1
              first == 0
  <1>1. q = IF row # Height(fb) - 1 THEN SetCursor(ready, down, first)
            ELSE [bottom EXCEPT !.overlays[i].cells = cells]
    BY DEF NewlineCarriageReturn
  <1>2. /\ ready = InitCursor(p, fb) /\ row = Cursor(ready).row
        /\ left = SetCursor(ready, row, first) /\ bottom = MakeRow(left, fb, row)
        /\ down = row + 1 /\ first = 0
    OBVIOUS
  <1>3. p.prediction_epoch \in Nat /\ p.sent \in Nat
    BY EngineParts
  <1>. HIDE DEF ready, row, left, bottom, down, first
  <1>4. /\ ready \in Engine(size) /\ ready.overlays = p.overlays /\ ready.cursors # <<>>
        /\ ready.prediction_epoch = p.prediction_epoch /\ Steady(p, ready)
    BY <1>2, InitCursorFacts
  <1>5. row \in Rows(size[1]) /\ ready \in Engine(size)
    BY <1>2, <1>4, CursorParts
  <1>6. first \in Cols(size[2])
    BY <1>2, Sized
  <1>7. Edited(size, p, ready, fb, glyphs)
    BY <1>3, <1>4, SameEdited
  <1>8. CASE row # Height(fb) - 1
    <2>1. down \in Rows(size[1])
      BY <1>2, <1>5, <1>8, Sized
    <2>2. q = SetCursor(ready, down, first)
      BY <1>1, <1>8
    <2>3. /\ q \in Engine(size) /\ q.overlays = ready.overlays /\ Steady(ready, q)
          /\ q.prediction_epoch = ready.prediction_epoch
      BY <1>4, <1>5, <1>6, <2>1, <2>2, SetCursorFacts
    <2>4. Edited(size, ready, q, fb, glyphs)
      BY <1>3, <1>4, <2>3, SameEdited
    <2>. QED
      BY <1>4, <1>7, <2>3, <2>4, EditedOn
  <1>9. CASE row = Height(fb) - 1
    <2>1. q = [bottom EXCEPT !.overlays[i].cells = cells]
      BY <1>1, <1>9
    <2>2. left = SetCursor(ready, row, first) /\ row \in Rows(size[1])
      BY <1>2, <1>5
    <2>3. /\ left \in Engine(size) /\ left.overlays = ready.overlays /\ Steady(ready, left)
          /\ left.prediction_epoch = ready.prediction_epoch
      BY <1>4, <1>5, <1>6, <2>2, SetCursorFacts
    <2>4. Edited(size, ready, left, fb, glyphs)
      BY <1>3, <1>4, <2>3, SameEdited
    <2>5. bottom = MakeRow(left, fb, row)
      BY <1>2
    <2>6. /\ Edited(size, left, bottom, fb, glyphs)
          /\ bottom.prediction_epoch = left.prediction_epoch
          /\ i \in DOMAIN bottom.overlays /\ bottom.overlays[i].row = row
      BY <1>5, <2>3, <2>5, MakeRowFacts
    <2>7. bottom \in Engine(size) /\ Steady(left, bottom)
      BY <2>6 DEF Edited
    <2>8. bottom.prediction_epoch = p.prediction_epoch /\ bottom.sent = p.sent
      BY <1>4, <2>3, <2>6, <2>7 DEF Steady, Kept
    <2>. HIDE DEF i
    <2>9. old \in [Cols(size[2]) -> Cell]
      BY <2>6, <2>7, RowParts
    <2>. HIDE DEF old
    <2>10. ASSUME NEW cell \in Cell
           PROVE  /\ blank(cell) \in Cell /\ blank(cell).replacement = Blank
                  /\ blank(cell).epoch = p.prediction_epoch
                  /\ blank(cell).expiration = p.sent + 1 /\ blank(cell).time = now
      <3>. DEFINE epoch == p.prediction_epoch
                  expiration == p.sent + 1
                  glyph == Blank
                  b == [cell EXCEPT !.active = TRUE, !.replacement = glyph, !.epoch = epoch,
                                    !.expiration = expiration, !.time = now]
      <3>1. epoch \in Nat /\ expiration \in Nat /\ glyph \in Glyph
        BY <1>3 DEF Glyph
      <3>2. blank(cell) = b
        OBVIOUS
      <3>. HIDE DEF epoch, expiration, glyph, blank
      <3>3. b \in Cell
        BY <3>1 DEF Cell
      <3>4. /\ b.replacement = glyph /\ b.epoch = epoch /\ b.expiration = expiration
            /\ b.time = now
        BY DEF Cell
      <3>. QED
        BY <3>2, <3>3, <3>4 DEF epoch, expiration, glyph
    <2>11. cells \in [Cols(size[2]) -> Cell] /\ \A c \in Cols(size[2]) : cells[c] = blank(old[c])
      <3>. HIDE DEF blank
      <3>. QED
        BY <2>9, <2>10
    <2>12. ASSUME NEW c \in Cols(size[2])
           PROVE  New(bottom, bottom, fb, glyphs,
                      [row |-> bottom.overlays[i].row, col |-> c, cell |-> cells[c]])
      <3>1. /\ cells[c].replacement = Blank /\ cells[c].epoch = p.prediction_epoch
            /\ cells[c].expiration = p.sent + 1 /\ cells[c].time = now
        <4>. HIDE DEF blank, cells
        <4>. QED
          BY <2>9, <2>10, <2>11
      <3>. HIDE DEF cells
      <3>. QED
        BY <1>3, <2>8, <3>1 DEF New, Creditable, Visible
    <2>13. cells \in [Cols(size[2]) -> Cell]
      BY <2>11
    <2>. HIDE DEF cells
    <2>14. ASSUME NEW w, w = [bottom EXCEPT !.overlays[i].cells = cells]
           PROVE  /\ Edited(size, bottom, w, fb, glyphs)
                  /\ w.prediction_epoch = bottom.prediction_epoch
      <3>1. Fills(size, bottom, fb, glyphs, i, cells)
        BY <2>6, <2>12, <2>13 DEF Fills
      <3>2. bottom \in Engine(size)
        BY <2>7
      <3>. QED
        BY <2>14, <3>1, <3>2, PutCellsFacts
    <2>15. /\ Edited(size, bottom, q, fb, glyphs)
           /\ q.prediction_epoch = bottom.prediction_epoch
      BY <2>1, <2>14
    <2>16. Edited(size, p, left, fb, glyphs)
      BY <1>7, <2>4, EditedOn
    <2>17. Edited(size, p, bottom, fb, glyphs)
      BY <2>6, <2>16, EditedOn
    <2>. QED
      BY <2>8, <2>15, <2>17, EditedOn
  <1>. QED
    BY <1>8, <1>9

\* A backspace is an edit of one cell, or of the row from there on if the engine inserts.
LEMMA BackspaceFacts ==
    ASSUME NEW size \in Sizes, NEW fb \in ScreenIn(size), NEW glyphs, NEW p \in Engine(size),
           p.cursors # <<>>, now \in Nat, NEW q, q = Backspace(p, fb)
    PROVE  Edited(size, p, q, fb, glyphs) /\ q.prediction_epoch = p.prediction_epoch
  <1>. DEFINE row == Cursor(p).row
              col == Cursor(p).col - 1
              made == MakeRow(p, fb, row)
              set == SetCursor(made, row, col)
              moved == ExpireCursor(set)
              shifted == [c \in col .. Width(fb) - 1 |->
                            IF c + 2 < Width(fb) THEN Content(made, fb, row, c + 1) ELSE Unknown]
              blank == [c \in {col} |-> Known(Blank)]
              under == [c \in {col} |-> fb.cells[fb.row][fb.col]]
              cells == fb.cells[row]
  <1>1. /\ Cursor(p).col = 0 => q = made
        /\ Cursor(p).col > 0 /\ p.overwrite => q = PredictCells(moved, row, blank, under)
        /\ Cursor(p).col > 0 /\ ~p.overwrite => q = PredictCells(moved, row, shifted, cells)
    <2>1. Cursor(p).col \in Nat
      BY CursorParts, Sized
    <2>2. q = CASE Cursor(p).col = 0 -> made
                [] Cursor(p).col > 0 /\ p.overwrite -> PredictCells(moved, row, blank, under)
                [] OTHER -> PredictCells(moved, row, shifted, cells)
      BY DEF Backspace
    <2>. HIDE DEF made, moved, shifted, blank, under, cells, row
    <2>. QED
      BY <2>1, <2>2
  <1>2. /\ row \in Rows(size[1]) /\ Cursor(p).col \in Cols(size[2])
    BY CursorParts
  <1>3. Cursor(p).col \in 0 .. size[2] - 1 /\ Cols(size[2]) = 0 .. size[2] - 1 /\ size[2] \in Nat
        /\ p.overwrite \in BOOLEAN
    BY <1>2, Sized, EngineParts
  <1>4. made = MakeRow(p, fb, row) /\ set = SetCursor(made, row, col) /\ moved = ExpireCursor(set)
        /\ col = Cursor(p).col - 1 /\ cells = fb.cells[row]
    OBVIOUS
  <1>5. cells \in [Cols(size[2]) -> Glyph] /\ fb.cells[fb.row][fb.col] \in Glyph
    <2>1. /\ fb.cells \in [Rows(size[1]) -> [Cols(size[2]) -> Glyph]]
          /\ fb.row \in Rows(size[1]) /\ fb.col \in Cols(size[2])
      BY Sized
    <2>2. fb.cells[fb.row] \in [Cols(size[2]) -> Glyph]
      BY <2>1
    <2>. QED
      BY <1>2, <2>1, <2>2
  <1>. HIDE DEF row, col, made, set, moved, cells
  <1>6. /\ Edited(size, p, made, fb, glyphs) /\ made.cursors = p.cursors
        /\ made.prediction_epoch = p.prediction_epoch /\ HasPlace(made, row)
    BY <1>2, <1>4, MakeRowFacts DEF HasPlace
  <1>7. made \in Engine(size) /\ made.overwrite = p.overwrite /\ made.cursors # <<>>
    BY <1>6 DEF Edited, Steady, Kept
  <1>8. CASE Cursor(p).col = 0
    BY <1>1, <1>6, <1>8
  <1>9. ASSUME Cursor(p).col # 0 PROVE col \in Cols(size[2])
    BY <1>3, <1>4, <1>9
  <1>10. ASSUME Cursor(p).col # 0
         PROVE  /\ moved \in Engine(size) /\ Edited(size, p, moved, fb, glyphs)
                /\ moved.prediction_epoch = p.prediction_epoch /\ HasPlace(moved, row)
                /\ moved.overwrite = p.overwrite
    <2>1. col \in Cols(size[2])
      BY <1>9, <1>10
    <2>2. set = SetCursor(made, row, col) /\ moved = ExpireCursor(set)
      BY <1>4
    <2>3. /\ set \in Engine(size) /\ set.overlays = made.overlays /\ set.cursors # <<>>
          /\ set.prediction_epoch = made.prediction_epoch /\ Steady(made, set)
      BY <1>2, <1>7, <2>1, <2>2, SetCursorFacts
    <2>4. /\ moved \in Engine(size) /\ moved.overlays = set.overlays
          /\ moved.prediction_epoch = set.prediction_epoch /\ Steady(set, moved)
      BY <2>2, <2>3, ExpireCursorFacts
    <2>5. Steady(made, moved) /\ moved.overlays = made.overlays
          /\ moved.prediction_epoch = made.prediction_epoch
      BY <2>3, <2>4 DEF Steady, Kept
    <2>6. made.prediction_epoch \in Nat
      BY <1>7, EngineParts
    <2>7. moved.prediction_epoch >= made.prediction_epoch
      BY <2>5, <2>6
    <2>8. Edited(size, made, moved, fb, glyphs)
      BY <1>7, <2>4, <2>5, <2>7, SameEdited
    <2>9. HasPlace(moved, row)
      BY <1>6, <2>5, SamePlace
    <2>. QED
      BY <1>6, <1>7, <2>4, <2>5, <2>8, <2>9, EditedOn DEF Steady, Kept
  <1>11. CASE Cursor(p).col # 0 /\ p.overwrite
    <2>1. q = PredictCells(moved, row, blank, under)
      BY <1>1, <1>3, <1>11
    <2>2. Foreseen(size, moved, fb, glyphs, row, blank, under)
      BY <1>5, <1>9, <1>11 DEF Foreseen, Known, ContentIn, Glyph
    <2>. HIDE DEF blank, under
    <2>3. moved \in Engine(size) /\ HasPlace(moved, row) /\ row \in Rows(size[1])
      BY <1>2, <1>10, <1>11
    <2>4. /\ Edited(size, moved, q, fb, glyphs) /\ q.prediction_epoch = moved.prediction_epoch
      BY <2>1, <2>2, <2>3, PredictCellsFacts
    <2>. QED
      BY <1>10, <1>11, <2>4, EditedOn
  <1>12. CASE Cursor(p).col # 0 /\ ~p.overwrite
    <2>1. q = PredictCells(moved, row, shifted, cells)
      BY <1>1, <1>3, <1>12
    <2>2. ASSUME NEW c \in DOMAIN shifted
          PROVE  c \in Cols(size[2]) /\ shifted[c] \in ContentIn
      <3>1. c \in col .. size[2] - 1
        BY Sized
      <3>2. c \in Cols(size[2])
        BY <1>3, <1>9, <1>12, <3>1
      <3>3. CASE c + 2 < Width(fb)
        <4>. DEFINE next == c + 1
        <4>1. next \in Cols(size[2])
          BY <1>3, <3>2, <3>3, Sized
        <4>2. shifted[c] = Content(made, fb, row, next)
          BY <3>3
        <4>. HIDE DEF next, shifted
        <4>3. Content(made, fb, row, next) \in ContentIn
          BY <1>2, <1>6, <1>7, <4>1, ContentFacts
        <4>. QED
          BY <3>2, <4>2, <4>3
      <3>4. CASE ~(c + 2 < Width(fb))
        BY <3>2, <3>4 DEF Unknown, ContentIn, Glyph
      <3>. QED
        BY <3>3, <3>4
    <2>. HIDE DEF shifted
    <2>3. moved.overwrite = FALSE
      BY <1>3, <1>10, <1>12
    <2>4. Foreseen(size, moved, fb, glyphs, row, shifted, cells)
      BY <1>4, <1>5, <2>2, <2>3 DEF Foreseen
    <2>5. moved \in Engine(size) /\ HasPlace(moved, row) /\ row \in Rows(size[1])
      BY <1>2, <1>10, <1>12
    <2>6. /\ Edited(size, moved, q, fb, glyphs) /\ q.prediction_epoch = moved.prediction_epoch
      BY <2>1, <2>4, <2>5, PredictCellsFacts
    <2>. QED
      BY <1>10, <1>12, <2>6, EditedOn
  <1>. QED
    BY <1>3, <1>8, <1>11, <1>12

LEMMA TentativeEdited ==
    ASSUME NEW size, NEW fb, NEW glyphs, NEW p \in Engine(size), NEW q, q = BecomeTentative(p)
    PROVE  Edited(size, p, q, fb, glyphs)
  <1>1. /\ q \in Engine(size) /\ q.overlays = p.overlays /\ Steady(p, q)
        /\ q.prediction_epoch =
              p.prediction_epoch + (IF p.preference = "Experimental" THEN 0 ELSE 1)
    BY BecomeTentativeFacts
  <1>2. p.prediction_epoch \in Nat
    BY EngineParts
  <1>3. q.prediction_epoch >= p.prediction_epoch
    BY <1>1, <1>2
  <1>. QED
    BY <1>1, <1>3, SameEdited

\* A glyph that is printed, at the end of the row too.
LEMMA InsertGlyphFacts ==
    ASSUME NEW size \in Sizes, NEW fb \in ScreenIn(size), NEW p \in Engine(size),
           p.cursors # <<>>, now \in Nat, NEW glyph \in Glyph,
           NEW q, q = InsertGlyph(p, fb, glyph)
    PROVE  Edited(size, p, q, fb, {glyph})
  <1>. DEFINE row == Cursor(p).row
              col == Cursor(p).col
              last == Width(fb) - 1
              made == MakeRow(p, fb, row)
              before == IF col = last THEN BecomeTentative(made) ELSE made
              inserted == [c \in IF p.overwrite THEN {col} ELSE col .. last |->
                             IF c = col THEN Known(glyph)
                             ELSE IF c = last THEN Unknown
                             ELSE Content(made, fb, row, c - 1)]
              cells == fb.cells[row]
              put == PredictCells(before, row, inserted, cells)
              predicted == ExpireCursor(put)
              tentative == BecomeTentative(predicted)
              next == col + 1
              glyphs == {glyph}
  <1>1. q = IF col < last THEN SetCursor(predicted, row, next)
            ELSE NewlineCarriageReturn(tentative, fb)
    BY DEF InsertGlyph
  <1>2. /\ made = MakeRow(p, fb, row) /\ put = PredictCells(before, row, inserted, cells)
        /\ predicted = ExpireCursor(put) /\ tentative = BecomeTentative(predicted)
        /\ before = made \/ before = BecomeTentative(made)
        /\ cells = fb.cells[row] /\ next = col + 1 /\ last = Width(fb) - 1
    OBVIOUS
  <1>3. row \in Rows(size[1]) /\ col \in Cols(size[2])
    BY CursorParts
  <1>4. col \in 0 .. size[2] - 1 /\ Cols(size[2]) = 0 .. size[2] - 1 /\ size[2] \in Nat
        /\ last = size[2] - 1 /\ p.overwrite \in BOOLEAN
    BY <1>3, Sized, EngineParts
  <1>5. cells \in [Cols(size[2]) -> Glyph]
    BY <1>3, Sized
  <1>6. glyph \in glyphs
    OBVIOUS
  <1>. HIDE DEF row, col, last, made, before, cells, put, predicted, tentative, next, glyphs
  <1>7. /\ Edited(size, p, made, fb, glyphs) /\ made.cursors = p.cursors
        /\ made.prediction_epoch = p.prediction_epoch /\ HasPlace(made, row)
    BY <1>2, <1>3, MakeRowFacts DEF HasPlace
  <1>8. made \in Engine(size) /\ made.overwrite = p.overwrite
    BY <1>7 DEF Edited, Steady, Kept
  <1>9. /\ Edited(size, made, before, fb, glyphs) /\ before.cursors = made.cursors
        /\ before.overlays = made.overlays
    <2>1. CASE before = made
      <3>1. Steady(made, before) /\ made.prediction_epoch \in Nat
        BY <1>8, <2>1, EngineParts DEF Steady, Kept
      <3>2. before.prediction_epoch >= made.prediction_epoch
        BY <2>1, <3>1
      <3>. QED
        BY <1>8, <2>1, <3>1, <3>2, SameEdited
    <2>2. CASE before = BecomeTentative(made)
      BY <1>8, <2>2, TentativeEdited, BecomeTentativeFacts
    <2>. QED
      BY <1>2, <2>1, <2>2
  <1>10. /\ before \in Engine(size) /\ before.overwrite = p.overwrite /\ HasPlace(before, row)
         /\ Edited(size, p, before, fb, glyphs)
    <2>1. before \in Engine(size) /\ before.overwrite = p.overwrite
      BY <1>8, <1>9 DEF Edited, Steady, Kept
    <2>2. HasPlace(before, row)
      BY <1>7, <1>9, SamePlace
    <2>. QED
      BY <1>7, <1>9, <2>1, <2>2, EditedOn
  <1>11. Foreseen(size, before, fb, glyphs, row, inserted, cells)
    <2>1. ASSUME NEW c \in DOMAIN inserted
          PROVE  /\ c \in Cols(size[2]) /\ inserted[c] \in ContentIn
                 /\ p.overwrite => inserted[c].replacement = glyph
      <3>1. c \in Cols(size[2]) /\ (p.overwrite => c = col) /\ c \in Int
        BY <1>3, <1>4
      <3>2. CASE c = col
        BY <3>1, <3>2 DEF Known, ContentIn
      <3>3. CASE c # col /\ c = last
        BY <3>1, <3>3 DEF Unknown, ContentIn, Glyph
      <3>4. CASE c # col /\ c # last
        <4>. DEFINE prior == c - 1
        <4>1. prior \in Cols(size[2])
          BY <1>4, <3>1, <3>4
        <4>2. inserted[c] = Content(made, fb, row, prior)
          BY <3>4
        <4>. HIDE DEF prior, inserted
        <4>3. Content(made, fb, row, prior) \in ContentIn
          BY <1>3, <1>7, <1>8, <4>1, ContentFacts
        <4>. QED
          BY <3>1, <3>4, <4>2, <4>3
      <3>. QED
        BY <3>2, <3>3, <3>4
    <2>. HIDE DEF inserted
    <2>2. \A c \in DOMAIN inserted : cells[c] \in Glyph
      BY <1>5, <2>1
    <2>. QED
      BY <1>2, <1>6, <1>10, <2>1, <2>2 DEF Foreseen
  <1>. HIDE DEF inserted
  <1>12. Edited(size, before, put, fb, glyphs) /\ put.cursors = before.cursors
    <2>1. put = PredictCells(before, row, inserted, cells)
      BY <1>2
    <2>. QED
      BY <1>3, <1>10, <1>11, <2>1, PredictCellsFacts
  <1>13. put \in Engine(size) /\ put.cursors # <<>>
    BY <1>7, <1>9, <1>12 DEF Edited
  <1>14. /\ predicted \in Engine(size) /\ predicted.overlays = put.overlays
         /\ predicted.cursors # <<>> /\ Steady(put, predicted)
         /\ predicted.prediction_epoch = put.prediction_epoch
    BY <1>2, <1>13, ExpireCursorFacts
  <1>15. Edited(size, p, predicted, fb, glyphs)
    <2>1. put.prediction_epoch \in Nat
      BY <1>13, EngineParts
    <2>2. predicted.prediction_epoch >= put.prediction_epoch
      BY <1>14, <2>1
    <2>3. Edited(size, put, predicted, fb, glyphs)
      BY <1>13, <1>14, <2>2, SameEdited
    <2>4. Edited(size, p, put, fb, glyphs)
      BY <1>10, <1>12, EditedOn
    <2>. QED
      BY <2>3, <2>4, EditedOn
  <1>16. CASE col < last
    <2>1. q = SetCursor(predicted, row, next)
      BY <1>1, <1>16
    <2>2. next \in Cols(size[2])
      BY <1>2, <1>4, <1>16
    <2>3. /\ q \in Engine(size) /\ q.overlays = predicted.overlays
          /\ q.prediction_epoch = predicted.prediction_epoch /\ Steady(predicted, q)
      BY <1>3, <1>14, <2>1, <2>2, SetCursorFacts
    <2>4. predicted.prediction_epoch \in Nat
      BY <1>14, EngineParts
    <2>5. q.prediction_epoch >= predicted.prediction_epoch
      BY <2>3, <2>4
    <2>6. Edited(size, predicted, q, fb, glyphs)
      BY <1>14, <2>3, <2>5, SameEdited
    <2>. QED
      BY <1>15, <2>6, EditedOn DEF glyphs
  <1>17. CASE ~(col < last)
    <2>1. q = NewlineCarriageReturn(tentative, fb)
      BY <1>1, <1>17
    <2>2. Edited(size, predicted, tentative, fb, glyphs)
      BY <1>2, <1>14, TentativeEdited
    <2>3. tentative \in Engine(size)
      BY <2>2 DEF Edited
    <2>4. Edited(size, tentative, q, fb, glyphs)
      BY <2>1, <2>3, NewlineFacts
    <2>5. Edited(size, p, tentative, fb, glyphs)
      BY <1>15, <2>2, EditedOn
    <2>. QED
      BY <2>4, <2>5, EditedOn DEF glyphs
  <1>. QED
    BY <1>16, <1>17

\* An arrow predicts no cell.
LEMMA ArrowFacts ==
    ASSUME NEW size \in Sizes, NEW fb \in ScreenIn(size), NEW glyphs, NEW p \in Engine(size),
           p.cursors # <<>>, NEW col, NEW q, q = Arrow(p, fb, col)
    PROVE  Edited(size, p, q, fb, glyphs)
  <1>0. p.prediction_epoch \in Nat
    BY EngineParts
  <1>1. CASE col \in Cols(Width(fb))
    <2>. DEFINE row == Cursor(p).row
                set == SetCursor(p, row, col)
    <2>1. q = ExpireCursor(set) /\ set = SetCursor(p, row, col)
      BY <1>1 DEF Arrow
    <2>2. row \in Rows(size[1]) /\ col \in Cols(size[2])
      BY <1>1, CursorParts, Sized
    <2>. HIDE DEF row, set
    <2>3. /\ set \in Engine(size) /\ set.overlays = p.overlays /\ set.cursors # <<>>
          /\ set.prediction_epoch = p.prediction_epoch /\ Steady(p, set)
      BY <2>1, <2>2, SetCursorFacts
    <2>4. /\ q \in Engine(size) /\ q.overlays = set.overlays
          /\ q.prediction_epoch = set.prediction_epoch /\ Steady(set, q)
      BY <2>1, <2>3, ExpireCursorFacts
    <2>5. Steady(p, q) /\ q.overlays = p.overlays
      BY <2>3, <2>4 DEF Steady, Kept
    <2>6. q.prediction_epoch >= p.prediction_epoch
      BY <1>0, <2>3, <2>4
    <2>. QED
      BY <2>4, <2>5, <2>6, SameEdited
  <1>2. CASE col \notin Cols(Width(fb))
    <2>1. q = p
      BY <1>2 DEF Arrow
    <2>2. Steady(p, q) /\ q.prediction_epoch >= p.prediction_epoch
      BY <1>0, <2>1 DEF Steady, Kept
    <2>. QED
      BY <2>1, <2>2, SameEdited
  <1>. QED
    BY <1>1, <1>2

GlyphsOf(key) == IF key.kind = "print" THEN {key.glyph} ELSE {}

\* A byte is a cull, and then an edit that begins an epoch if the host may echo differently.
Handles(size, p, q, fb, key, culled) ==
    /\ Culled(size, p, culled, fb) /\ Edited(size, culled, q, fb, GlyphsOf(key))
    /\ ChangesEcho(key) /\ p.preference # "Experimental" =>
          q.prediction_epoch > culled.prediction_epoch

LEMMA CulledLike ==
    ASSUME NEW size, NEW fb, NEW p, NEW a, NEW q, Culled(size, a, q, fb), Alike(p, a),
           a.overlays = p.overlays, a.confirmed_epoch = p.confirmed_epoch,
           p.preference # "Experimental" => a.prediction_epoch = p.prediction_epoch
    PROVE  Culled(size, p, q, fb)
  <1>1. Predictions(a) = Predictions(p) /\ (DistinctRows(p) => DistinctRows(a))
    BY SamePredictions DEF DistinctRows
  <1>. QED
    BY <1>1 DEF Culled, Alike, Credit

\* new_user_byte is a cull and then an edit, for every kind of key.
LEMMA NewUserByteFacts ==
    ASSUME NEW size \in Sizes, NEW fb \in ScreenIn(size), NEW p, p \in Engine(p.size),
           p.preference # "Never", now \in Nat, NEW key \in KeyIn,
           key.kind \notin {"resize", "paste"}, NEW q, q = NewUserByte(p, fb, key)
    PROVE  \E culled : Handles(size, p, q, fb, key, culled)
  <1>. DEFINE epoch == IF p.preference = "Experimental" THEN p.confirmed_epoch
                       ELSE p.prediction_epoch
              a == [p EXCEPT !.prediction_epoch = epoch]
              c == Cull(a, fb)
              ready == InitCursor(c, fb)
              right == Cursor(ready).col + 1
              left == Cursor(ready).col - 1
              G == GlyphsOf(key)
  <1>1. /\ key.kind = "print" => q = InsertGlyph(ready, fb, key.glyph)
        /\ key.kind = "backspace" => q = Backspace(ready, fb)
        /\ key.kind = "wide" => q = BecomeTentative(ready)
        /\ key.kind = "return" => q = Return(c, fb)
        /\ key.kind = "control" => q = BecomeTentative(c)
        /\ key.kind = "right" => q = Arrow(ready, fb, right)
        /\ key.kind = "left" => q = Arrow(ready, fb, left)
    <2>1. q = CASE key.kind = "print" -> InsertGlyph(ready, fb, key.glyph)
               [] key.kind = "backspace" -> Backspace(ready, fb)
               [] key.kind = "wide" -> BecomeTentative(ready)
               [] key.kind = "return" -> Return(c, fb)
               [] key.kind = "control" -> BecomeTentative(c)
               [] key.kind = "right" -> Arrow(ready, fb, right)
               [] key.kind = "left" -> Arrow(ready, fb, left)
      BY DEF NewUserByte
    <2>. HIDE DEF c, ready, right, left
    <2>. QED
      BY <2>1
  <1>2. /\ key.kind \in {"print", "return", "control", "backspace", "wide", "right", "left"}
        /\ key.kind = "print" => key.glyph \in Glyph
    BY DEF KeyIn, Glyph
  <1>3. /\ a \in Engine(p.size) /\ a.overlays = p.overlays /\ a.prediction_epoch = epoch
        /\ Steady(p, a)
    <2>1. epoch \in Nat
      BY EngineParts
    <2>2. a = [p EXCEPT !.prediction_epoch = epoch]
      OBVIOUS
    <2>. HIDE DEF epoch, a
    <2>. QED
      BY <2>1, <2>2, WithEpoch
  <1>4. a.size = p.size
    BY <1>3, EngineParts
  <1>5. Alike(p, a) /\ a.confirmed_epoch = p.confirmed_epoch /\ a.preference = p.preference
    BY <1>3 DEF Steady, Kept, Alike
  <1>6. c = Cull(a, fb) /\ ready = InitCursor(c, fb)
    OBVIOUS
  <1>. HIDE DEF a, c, ready, right, left, G
  <1>7. Culled(size, a, c, fb)
    <2>1. c = Cull(a, fb) /\ a \in Engine(a.size) /\ a.preference # "Never"
      BY <1>3, <1>4, <1>5, <1>6
    <2>. QED
      BY <2>1, CullFacts
  <1>8. Culled(size, p, c, fb)
    <2>1. a.overlays = p.overlays
      BY <1>3
    <2>2. p.preference # "Experimental" => a.prediction_epoch = p.prediction_epoch
      BY <1>3
    <2>. QED
      BY <1>5, <1>7, <2>1, <2>2, CulledLike
  <1>9. c \in Engine(size) /\ c.preference = p.preference /\ c.prediction_epoch \in Nat
    <2>1. c \in Engine(size) /\ c.preference = p.preference
      BY <1>8 DEF Culled, Alike
    <2>. QED
      BY <2>1, EngineParts
  <1>10. /\ ready \in Engine(size) /\ ready.overlays = c.overlays /\ ready.cursors # <<>>
         /\ ready.prediction_epoch = c.prediction_epoch /\ Steady(c, ready)
    BY <1>6, <1>9, InitCursorFacts
  <1>11. Edited(size, c, ready, fb, G)
    <2>1. ready.prediction_epoch >= c.prediction_epoch
      BY <1>9, <1>10
    <2>. QED
      BY <1>9, <1>10, <2>1, SameEdited
  <1>12. ASSUME key.kind \notin {"return", "control"}, Edited(size, ready, q, fb, G)
         PROVE  Handles(size, p, q, fb, key, c)
    <2>1. Edited(size, c, q, fb, G)
      BY <1>9, <1>11, <1>12, EditedOn
    <2>. QED
      BY <1>8, <1>12, <2>1 DEF Handles, ChangesEcho, G
  <1>13. CASE key.kind = "print"
    <2>. DEFINE glyph == key.glyph
    <2>1. glyph \in Glyph /\ q = InsertGlyph(ready, fb, glyph) /\ G = {glyph}
      BY <1>1, <1>2, <1>13 DEF G, GlyphsOf
    <2>. HIDE DEF glyph
    <2>2. Edited(size, ready, q, fb, {glyph})
      BY <1>10, <2>1, InsertGlyphFacts
    <2>. QED
      BY <1>12, <1>13, <2>1, <2>2
  <1>14. CASE key.kind = "backspace"
    BY <1>1, <1>10, <1>12, <1>14, BackspaceFacts
  <1>15. CASE key.kind = "wide"
    BY <1>1, <1>10, <1>12, <1>15, TentativeEdited
  <1>16. CASE key.kind \in {"right", "left"}
    BY <1>1, <1>10, <1>12, <1>16, ArrowFacts
  <1>17. CASE key.kind = "return"
    <2>. DEFINE b == BecomeTentative(c)
    <2>1. b = BecomeTentative(c) /\ q = NewlineCarriageReturn(b, fb)
      BY <1>1, <1>17 DEF Return
    <2>. HIDE DEF b
    <2>2. /\ Edited(size, c, b, fb, G)
          /\ b.prediction_epoch =
                c.prediction_epoch + (IF c.preference = "Experimental" THEN 0 ELSE 1)
      BY <1>9, <2>1, TentativeEdited, BecomeTentativeFacts
    <2>3. b \in Engine(size)
      BY <2>2 DEF Edited
    <2>4. Edited(size, b, q, fb, G) /\ q.prediction_epoch = b.prediction_epoch
      BY <2>1, <2>3, NewlineFacts
    <2>5. Edited(size, c, q, fb, G)
      BY <1>9, <2>2, <2>4, EditedOn
    <2>6. p.preference # "Experimental" => q.prediction_epoch > c.prediction_epoch
      BY <1>9, <2>2, <2>4
    <2>. QED
      BY <1>8, <2>5, <2>6 DEF Handles, G
  <1>18. CASE key.kind = "control"
    <2>1. q = BecomeTentative(c)
      BY <1>1, <1>18
    <2>2. /\ Edited(size, c, q, fb, G)
          /\ q.prediction_epoch =
                c.prediction_epoch + (IF c.preference = "Experimental" THEN 0 ELSE 1)
      BY <1>9, <2>1, TentativeEdited, BecomeTentativeFacts
    <2>3. p.preference # "Experimental" => q.prediction_epoch > c.prediction_epoch
      BY <1>9, <2>2
    <2>. QED
      BY <1>8, <2>2, <2>3 DEF Handles, G
  <1>. QED
    BY <1>2, <1>13, <1>14, <1>15, <1>16, <1>17, <1>18

-----------------------------------------------------------------------------
(* Epochs *)

\* A cull of a screen without silent glyphs confirms no silent epoch.
LEMMA EpochsCulled ==
    ASSUME NEW size \in Sizes, NEW fb \in ScreenIn(size), NEW p, p \in Engine(p.size), NEW q,
           Culled(size, p, q, fb), p.preference # "Experimental", NEW echoes \in BOOLEAN,
           Epochs(p, echoes), Silence(fb)
    PROVE  Epochs(q, echoes)
  <1>1. /\ q \in Engine(size) /\ Predictions(q) \subseteq Predictions(p)
        /\ q.prediction_epoch >= p.prediction_epoch /\ q.sent = p.sent /\ q.late = p.late
        /\ q.confirmed_epoch # p.confirmed_epoch =>
             \E y \in Predictions(p) :
                /\ Creditable(y.cell) /\ y.cell.epoch = q.confirmed_epoch
                /\ y.cell.expiration <= p.late
                /\ OnScreen(fb, y.row, y.col) /\ fb.cells[y.row][y.col] = y.cell.replacement
        /\ \A x \in Predictions(q) : q.late < x.cell.expiration
    BY DEF Culled, Credit, Alike
  <1>2. /\ p.prediction_epoch \in Nat /\ q.prediction_epoch \in Nat /\ p.late \in Nat
        /\ p.confirmed_epoch \in Nat /\ q.confirmed_epoch \in Nat /\ p.sent \in Nat
    BY <1>1, EngineParts
  <1>3. \A x \in Predictions(p) : x.cell.epoch \in Nat /\ x.cell.expiration \in Nat
    BY PredictionParts
  <1>4. /\ p.confirmed_epoch <= p.prediction_epoch
        /\ ~echoes => p.confirmed_epoch < p.prediction_epoch
        /\ \A x \in Predictions(p) :
              /\ x.cell.epoch <= p.prediction_epoch
              /\ x.cell.expiration <= p.sent + 1
              /\ Visible(x.cell) /\ x.cell.epoch = p.prediction_epoch
                    => (IsSilent(x.cell) <=> ~echoes)
              /\ IsSilent(x.cell) => x.cell.epoch > p.confirmed_epoch
        /\ \A x, y \in Predictions(p) :
              /\ x.cell.epoch < y.cell.epoch => x.cell.expiration <= y.cell.expiration
              /\ Visible(x.cell) /\ Visible(y.cell) /\ x.cell.epoch = y.cell.epoch
                    => (IsSilent(x.cell) <=> IsSilent(y.cell))
    BY DEF Epochs
  <1>5. ASSUME NEW y \in Predictions(p), Creditable(y.cell), OnScreen(fb, y.row, y.col),
               fb.cells[y.row][y.col] = y.cell.replacement
        PROVE  Visible(y.cell) /\ ~IsSilent(y.cell)
    <2>1. fb.cells[y.row][y.col] \notin Silent
      BY <1>5, Sized DEF Silence, OnScreen
    <2>. QED
      BY <1>5, <2>1 DEF Visible, IsSilent, Creditable
  <1>6. CASE q.confirmed_epoch = p.confirmed_epoch
    <2>1. /\ q.confirmed_epoch <= q.prediction_epoch
          /\ ~echoes => q.confirmed_epoch < q.prediction_epoch
      BY <1>1, <1>2, <1>4, <1>6
    <2>2. ASSUME NEW x \in Predictions(q)
          PROVE  /\ x.cell.epoch <= q.prediction_epoch
                 /\ x.cell.expiration <= q.sent + 1
                 /\ Visible(x.cell) /\ x.cell.epoch = q.prediction_epoch
                       => (IsSilent(x.cell) <=> ~echoes)
                 /\ IsSilent(x.cell) => x.cell.epoch > q.confirmed_epoch
      <3>1. x \in Predictions(p)
        BY <1>1
      <3>. QED
        BY <1>1, <1>2, <1>3, <1>4, <1>6, <3>1
    <2>. QED
      BY <1>1, <1>4, <2>1, <2>2 DEF Epochs
  <1>7. CASE q.confirmed_epoch # p.confirmed_epoch
    <2>1. PICK y \in Predictions(p) :
             /\ Creditable(y.cell) /\ y.cell.epoch = q.confirmed_epoch
             /\ y.cell.expiration <= p.late
             /\ OnScreen(fb, y.row, y.col) /\ fb.cells[y.row][y.col] = y.cell.replacement
      BY <1>1, <1>7
    <2>2. Visible(y.cell) /\ ~IsSilent(y.cell)
      BY <1>5, <2>1
    <2>3. y.cell.epoch <= p.prediction_epoch
          /\ (~echoes => y.cell.epoch # p.prediction_epoch)
      BY <1>4, <2>2
    <2>4. /\ q.confirmed_epoch <= q.prediction_epoch
          /\ ~echoes => q.confirmed_epoch < q.prediction_epoch
      BY <1>1, <1>2, <2>1, <2>3
    <2>5. ASSUME NEW x \in Predictions(q)
          PROVE  /\ x.cell.epoch <= q.prediction_epoch
                 /\ x.cell.expiration <= q.sent + 1
                 /\ Visible(x.cell) /\ x.cell.epoch = q.prediction_epoch
                       => (IsSilent(x.cell) <=> ~echoes)
                 /\ IsSilent(x.cell) => x.cell.epoch > q.confirmed_epoch
      <3>1. x \in Predictions(p) /\ p.late < x.cell.expiration
        BY <1>1
      <3>2. /\ x.cell.epoch <= q.prediction_epoch
            /\ x.cell.expiration <= q.sent + 1
            /\ Visible(x.cell) /\ x.cell.epoch = q.prediction_epoch
                  => (IsSilent(x.cell) <=> ~echoes)
        BY <1>1, <1>2, <1>3, <1>4, <3>1
      <3>3. ASSUME IsSilent(x.cell) PROVE x.cell.epoch > q.confirmed_epoch
        <4>1. x.cell.epoch # y.cell.epoch
          BY <1>4, <2>2, <3>1, <3>3 DEF IsSilent
        <4>2. ~(x.cell.epoch < y.cell.epoch)
          BY <1>2, <1>3, <1>4, <2>1, <3>1
        <4>. QED
          BY <1>3, <2>1, <3>1, <4>1, <4>2
      <3>. QED
        BY <3>2, <3>3
    <2>. QED
      BY <1>1, <1>4, <2>4, <2>5 DEF Epochs
  <1>. QED
    BY <1>6, <1>7

\* A key adds to the present epoch what its predictions are of, or begins another.
LEMMA EpochsEdited ==
    ASSUME NEW size \in Sizes, NEW fb, NEW glyphs, NEW p \in Engine(size), NEW q,
           Edited(size, p, q, fb, glyphs), p.overwrite,
           NEW echoes \in BOOLEAN, Epochs(p, echoes), NEW later \in BOOLEAN,
           \A glyph \in glyphs : glyph \in Silent <=> ~echoes,
           \/ later = echoes
           \/ q.prediction_epoch > p.prediction_epoch /\ glyphs = {}
    PROVE  Epochs(q, later)
  <1>1. /\ q \in Engine(size) /\ q.sent = p.sent /\ q.confirmed_epoch = p.confirmed_epoch
        /\ q.prediction_epoch >= p.prediction_epoch
        /\ \A x \in Predictions(q) : x \in Predictions(p) \/ New(p, q, fb, glyphs, x)
    BY DEF Edited, Steady, Kept
  <1>2. /\ p.prediction_epoch \in Nat /\ q.prediction_epoch \in Nat
        /\ p.confirmed_epoch \in Nat /\ q.confirmed_epoch \in Nat /\ p.sent \in Nat
    BY <1>1, EngineParts
  <1>3. \A x \in Predictions(q) : x.cell.epoch \in Nat /\ x.cell.expiration \in Nat
    BY <1>1, PredictionParts
  <1>4. /\ p.confirmed_epoch <= p.prediction_epoch
        /\ ~echoes => p.confirmed_epoch < p.prediction_epoch
        /\ \A x \in Predictions(p) :
              /\ x.cell.epoch <= p.prediction_epoch
              /\ x.cell.expiration <= p.sent + 1
              /\ Visible(x.cell) /\ x.cell.epoch = p.prediction_epoch
                    => (IsSilent(x.cell) <=> ~echoes)
              /\ IsSilent(x.cell) => x.cell.epoch > p.confirmed_epoch
        /\ \A x, y \in Predictions(p) :
              /\ x.cell.epoch < y.cell.epoch => x.cell.expiration <= y.cell.expiration
              /\ Visible(x.cell) /\ Visible(y.cell) /\ x.cell.epoch = y.cell.epoch
                    => (IsSilent(x.cell) <=> IsSilent(y.cell))
    BY DEF Epochs
  <1>5. ASSUME NEW x, New(p, q, fb, glyphs, x)
        PROVE  /\ x.cell.epoch >= p.prediction_epoch /\ x.cell.epoch <= q.prediction_epoch
               /\ x.cell.expiration = p.sent + 1
               /\ Visible(x.cell) => (IsSilent(x.cell) <=> ~echoes) /\ glyphs # {}
    <2>1. Visible(x.cell) => x.cell.replacement \in glyphs
      BY <1>5 DEF New
    <2>. QED
      BY <1>2, <1>5, <2>1 DEF New, IsSilent
  <1>6. /\ q.confirmed_epoch <= q.prediction_epoch
        /\ ~later => q.confirmed_epoch < q.prediction_epoch
    BY <1>1, <1>2, <1>4
  <1>7. ASSUME NEW x \in Predictions(q)
        PROVE  /\ x.cell.epoch <= q.prediction_epoch
               /\ x.cell.expiration <= q.sent + 1
               /\ Visible(x.cell) /\ x.cell.epoch = q.prediction_epoch
                     => (IsSilent(x.cell) <=> ~later)
               /\ IsSilent(x.cell) => x.cell.epoch > q.confirmed_epoch
    <2>1. CASE x \in Predictions(p)
      <3>1. /\ x.cell.epoch <= p.prediction_epoch /\ x.cell.expiration <= p.sent + 1
            /\ Visible(x.cell) /\ x.cell.epoch = p.prediction_epoch
                    => (IsSilent(x.cell) <=> ~echoes)
            /\ IsSilent(x.cell) => x.cell.epoch > p.confirmed_epoch
        BY <1>4, <2>1
      <3>2. x.cell.epoch = q.prediction_epoch =>
              x.cell.epoch = p.prediction_epoch /\ q.prediction_epoch = p.prediction_epoch
        BY <1>1, <1>2, <1>3, <3>1
      <3>3. x.cell.epoch <= q.prediction_epoch
        BY <1>1, <1>2, <1>3, <3>1
      <3>. QED
        BY <1>1, <1>2, <3>1, <3>2, <3>3
    <2>2. CASE New(p, q, fb, glyphs, x)
      <3>1. /\ x.cell.epoch >= p.prediction_epoch /\ x.cell.epoch <= q.prediction_epoch
            /\ x.cell.expiration = p.sent + 1
            /\ Visible(x.cell) => (IsSilent(x.cell) <=> ~echoes) /\ glyphs # {}
        BY <1>5, <2>2
      <3>2. Visible(x.cell) => later = echoes
        BY <3>1
      <3>3. x.cell.expiration <= q.sent + 1
        BY <1>1, <1>2, <3>1
      <3>4. ASSUME IsSilent(x.cell) PROVE x.cell.epoch > q.confirmed_epoch
        <4>1. ~echoes
          BY <3>1, <3>4 DEF IsSilent
        <4>. QED
          BY <1>1, <1>2, <1>3, <1>4, <3>1, <4>1
      <3>. QED
        BY <3>1, <3>2, <3>3, <3>4
    <2>. QED
      BY <1>1, <2>1, <2>2
  <1>8. ASSUME NEW x \in Predictions(q), NEW y \in Predictions(q)
        PROVE  /\ x.cell.epoch < y.cell.epoch => x.cell.expiration <= y.cell.expiration
               /\ Visible(x.cell) /\ Visible(y.cell) /\ x.cell.epoch = y.cell.epoch
                     => (IsSilent(x.cell) <=> IsSilent(y.cell))
    <2>1. CASE x \in Predictions(p) /\ y \in Predictions(p)
      BY <1>4, <2>1
    <2>2. CASE New(p, q, fb, glyphs, x) /\ New(p, q, fb, glyphs, y)
      <3>1. x.cell.expiration <= y.cell.expiration
        BY <1>2, <1>5, <2>2
      <3>. QED
        BY <1>5, <2>2, <3>1
    <2>3. CASE x \in Predictions(p) /\ New(p, q, fb, glyphs, y)
      <3>1. x.cell.expiration <= y.cell.expiration
        BY <1>4, <1>5, <2>3
      <3>2. x.cell.epoch = y.cell.epoch => x.cell.epoch = p.prediction_epoch
        BY <1>2, <1>3, <1>4, <1>5, <2>3
      <3>3. Visible(y.cell) => (IsSilent(y.cell) <=> ~echoes)
        BY <1>5, <2>3
      <3>4. Visible(x.cell) /\ x.cell.epoch = p.prediction_epoch => (IsSilent(x.cell) <=> ~echoes)
        BY <1>4, <2>3
      <3>. QED
        BY <3>1, <3>2, <3>3, <3>4
    <2>4. CASE New(p, q, fb, glyphs, x) /\ y \in Predictions(p)
      <3>1. ~(x.cell.epoch < y.cell.epoch)
        BY <1>2, <1>3, <1>4, <1>5, <2>4
      <3>2. x.cell.epoch = y.cell.epoch => y.cell.epoch = p.prediction_epoch
        BY <1>2, <1>3, <1>4, <1>5, <2>4
      <3>3. Visible(x.cell) => (IsSilent(x.cell) <=> ~echoes)
        BY <1>5, <2>4
      <3>4. Visible(y.cell) /\ y.cell.epoch = p.prediction_epoch => (IsSilent(y.cell) <=> ~echoes)
        BY <1>4, <2>4
      <3>. QED
        BY <3>1, <3>2, <3>3, <3>4
    <2>. QED
      BY <1>1, <2>1, <2>2, <2>3, <2>4
  <1>. QED
    BY <1>6, <1>7, <1>8 DEF Epochs

LEMMA EpochsReset ==
    ASSUME NEW size, NEW p \in Engine(size), NEW q, q = Reset(p),
           p.preference # "Experimental", NEW echoes \in BOOLEAN, Epochs(p, echoes),
           NEW later \in BOOLEAN
    PROVE  Epochs(q, later)
  <1>1. /\ Predictions(q) = {} /\ q.confirmed_epoch = p.confirmed_epoch
        /\ q.prediction_epoch = p.prediction_epoch + 1
    BY ResetFacts DEF Steady
  <1>2. p.prediction_epoch \in Nat /\ p.confirmed_epoch \in Nat
    BY EngineParts
  <1>3. p.confirmed_epoch <= p.prediction_epoch
    BY DEF Epochs
  <1>4. q.confirmed_epoch <= q.prediction_epoch /\ q.confirmed_epoch < q.prediction_epoch
    BY <1>1, <1>2, <1>3
  <1>. QED
    BY <1>1, <1>4 DEF Epochs

-----------------------------------------------------------------------------
(* The screen that is shown *)

\* One prediction at a place.
LEMMA AtPlace ==
    ASSUME NEW p, DistinctRows(p), NEW x \in Predictions(p), NEW y \in Predictions(p),
           x.row = y.row, x.col = y.col
    PROVE  x.cell = y.cell
  <1>1. PICK i \in DOMAIN p.overlays : \E c \in DOMAIN p.overlays[i].cells :
           /\ p.overlays[i].cells[c].active
           /\ x = [row |-> p.overlays[i].row, col |-> c, cell |-> p.overlays[i].cells[c]]
    BY PredictionsIn
  <1>2. PICK c \in DOMAIN p.overlays[i].cells :
           x = [row |-> p.overlays[i].row, col |-> c, cell |-> p.overlays[i].cells[c]]
    BY <1>1
  <1>3. PICK j \in DOMAIN p.overlays : \E d \in DOMAIN p.overlays[j].cells :
           /\ p.overlays[j].cells[d].active
           /\ y = [row |-> p.overlays[j].row, col |-> d, cell |-> p.overlays[j].cells[d]]
    BY PredictionsIn
  <1>4. PICK d \in DOMAIN p.overlays[j].cells :
           y = [row |-> p.overlays[j].row, col |-> d, cell |-> p.overlays[j].cells[d]]
    BY <1>3
  <1>5. c = d /\ p.overlays[i].row = p.overlays[j].row
    BY <1>2, <1>4
  <1>6. i = j
    BY <1>5 DEF DistinctRows
  <1>. QED
    BY <1>2, <1>4, <1>5, <1>6

\* A cell shows the prediction x, or glyph.
Shows(p, x, row, col, glyph) ==
    /\ x.row = row /\ x.col = col /\ ~x.cell.unknown
    /\ ~Tentative(x.cell, p.confirmed_epoch) /\ glyph = x.cell.replacement

\* A cell shows the screen's glyph or a prediction that is not tentative.
LEMMA ShownCellFacts ==
    ASSUME NEW p, \A i \in DOMAIN p.overlays : DOMAIN p.overlays[i].cells = Cols(p.size[2]),
           NEW row, NEW col \in Cols(p.size[2]), NEW glyph,
           NEW shown, shown = ShownCell(p, row, col, glyph)
    PROVE  shown = glyph \/ \E x \in Predictions(p) : Shows(p, x, row, col, shown)
  <1>. DEFINE rows == {j \in DOMAIN p.overlays : p.overlays[j].row = row}
              cells == {p.overlays[i].cells[col] : i \in rows}
              S == {c \in cells : c.active /\ ~c.unknown /\ ~Tentative(c, p.confirmed_epoch)}
  <1>1. shown = IF S = {} THEN glyph ELSE (CHOOSE c \in S : TRUE).replacement
    BY DEF ShownCell
  <1>2. CASE S # {}
    <2>. DEFINE c == CHOOSE c \in S : TRUE
    <2>1. c \in S
      BY <1>2
    <2>2. shown = c.replacement
      BY <1>1, <1>2
    <2>. HIDE DEF c
    <2>3. PICK i \in DOMAIN p.overlays : p.overlays[i].row = row /\ c = p.overlays[i].cells[col]
      BY <2>1
    <2>4. c.active /\ ~c.unknown /\ ~Tentative(c, p.confirmed_epoch)
      BY <2>1
    <2>. DEFINE x == [row |-> row, col |-> col, cell |-> c]
    <2>5. x \in Predictions(p)
      BY <2>3, <2>4, PredictionsIn
    <2>6. Shows(p, x, row, col, shown)
      BY <2>2, <2>4 DEF Shows
    <2>. QED
      BY <2>5, <2>6
  <1>. QED
    BY <1>1, <1>2

LEMMA ApplyFacts ==
    ASSUME NEW size \in Sizes, NEW fb \in ScreenIn(size), NEW p \in Engine(size),
           NEW q, q = Apply(p, fb)
    PROVE  /\ q \in ScreenIn(size)
           /\ \A row \in Rows(size[1]) : \A col \in Cols(size[2]) :
                 \/ q.cells[row][col] = fb.cells[row][col]
                 \/ \E x \in Predictions(p) : Shows(p, x, row, col, q.cells[row][col])
  <1>. DEFINE settled == {c \in Range(p.cursors) : ~Tentative(c, p.confirmed_epoch)}
              cursors == Only(p.cursors, settled)
              cursor == IF cursors = <<>> THEN fb ELSE Last(cursors)
              glyphs == [r \in DOMAIN fb.cells |-> [c \in DOMAIN fb.cells[r] |->
                            ShownCell(p, r, c, fb.cells[r][c])]]
              row0 == cursor.row
              col0 == cursor.col
  <1>1. /\ fb.row \in Rows(size[1]) /\ fb.col \in Cols(size[2]) /\ fb.size = size
        /\ fb.cells \in [Rows(size[1]) -> [Cols(size[2]) -> Glyph]]
    BY Sized
  <1>2. CASE ~Shown(p)
    BY <1>2 DEF Apply
  <1>3. CASE Shown(p)
    <2>1. q = [fb EXCEPT !.row = row0, !.col = col0, !.cells = glyphs]
      BY <1>3 DEF Apply
    <2>2. row0 \in Rows(size[1]) /\ col0 \in Cols(size[2])
      <3>1. CASE cursors = <<>>
        <4>. HIDE DEF cursors
        <4>. QED
          BY <1>1, <3>1
      <3>2. CASE cursors # <<>>
        <4>1. p.cursors \in Seq(CursorMove(size))
          BY EngineParts
        <4>2. cursors \in Seq(CursorMove(size) \cap settled)
          <5>. HIDE DEF settled
          <5>. QED
            BY <4>1, OnlyType
        <4>. HIDE DEF cursors, settled
        <4>3. Last(cursors) \in CursorMove(size)
          BY <3>2, <4>2 DEF Last
        <4>. QED
          BY <3>2, <4>3 DEF CursorMove
      <3>. QED
        BY <3>1, <3>2
    <2>3. ASSUME NEW row \in Rows(size[1]), NEW col \in Cols(size[2])
          PROVE  /\ glyphs[row][col] \in Glyph
                 /\ \/ glyphs[row][col] = fb.cells[row][col]
                    \/ \E x \in Predictions(p) : Shows(p, x, row, col, glyphs[row][col])
      <3>. DEFINE shown == ShownCell(p, row, col, fb.cells[row][col])
                  under == fb.cells[row][col]
      <3>1. glyphs[row][col] = shown
        BY <1>1
      <3>2. shown = ShownCell(p, row, col, under) /\ under \in Glyph /\ under = fb.cells[row][col]
        BY <1>1
      <3>3. /\ \A i \in DOMAIN p.overlays : DOMAIN p.overlays[i].cells = Cols(p.size[2])
            /\ col \in Cols(p.size[2])
        <4>1. p.size = size
          BY EngineParts
        <4>2. ASSUME NEW i \in DOMAIN p.overlays
              PROVE  DOMAIN p.overlays[i].cells = Cols(size[2])
          <5>1. p.overlays[i].cells \in [Cols(size[2]) -> Cell]
            BY RowParts
          <5>. QED
            BY <5>1
        <4>. QED
          BY <4>1, <4>2
      <3>. HIDE DEF shown, under, glyphs
      <3>4. shown = under \/ \E x \in Predictions(p) : Shows(p, x, row, col, shown)
        BY <3>2, <3>3, ShownCellFacts
      <3>5. shown \in Glyph
        BY <3>2, <3>4, PredictionParts DEF Shows
      <3>. QED
        BY <3>1, <3>2, <3>4, <3>5
    <2>4. glyphs \in [Rows(size[1]) -> [Cols(size[2]) -> Glyph]]
      <3>1. /\ DOMAIN glyphs = Rows(size[1])
            /\ \A row \in Rows(size[1]) :
                  glyphs[row] = [c \in Cols(size[2]) |-> ShownCell(p, row, c, fb.cells[row][c])]
        BY <1>1
      <3>1b. glyphs = [row \in Rows(size[1]) |-> glyphs[row]]
        BY <1>1
      <3>2. ASSUME NEW row \in Rows(size[1]) PROVE glyphs[row] \in [Cols(size[2]) -> Glyph]
        <4>1. \A c \in Cols(size[2]) : glyphs[row][c] \in Glyph
          BY <2>3
        <4>2. /\ DOMAIN glyphs[row] = Cols(size[2])
              /\ glyphs[row] = [c \in Cols(size[2]) |-> glyphs[row][c]]
          BY <3>1
        <4>. HIDE DEF glyphs
        <4>. QED
          BY <4>1, <4>2
      <3>. HIDE DEF glyphs
      <3>. QED
        BY <3>1b, <3>2
    <2>. HIDE DEF glyphs, row0, col0
    <2>5. q \in ScreenIn(size) /\ q.cells = glyphs
      BY <2>1, <2>2, <2>4 DEF ScreenIn
    <2>. QED
      BY <2>3, <2>5
  <1>. QED
    BY <1>2, <1>3

\* What is shown is not silent, if silent predictions are of epochs not confirmed.
LEMMA ApplySilence ==
    ASSUME NEW size \in Sizes, NEW fb \in ScreenIn(size), NEW p \in Engine(size),
           NEW q, q = Apply(p, fb), Silence(fb),
           \A x \in Predictions(p) : IsSilent(x.cell) => x.cell.epoch > p.confirmed_epoch
    PROVE  Silence(q)
  <1>1. /\ fb.cells \in [Rows(size[1]) -> [Cols(size[2]) -> Glyph]]
        /\ q \in ScreenIn(size)
    BY Sized, ApplyFacts
  <1>2. q.cells \in [Rows(size[1]) -> [Cols(size[2]) -> Glyph]]
    BY <1>1, Sized
  <1>3. ASSUME NEW row \in Rows(size[1]), NEW col \in Cols(size[2])
        PROVE  q.cells[row][col] \notin Silent
    <2>1. CASE q.cells[row][col] = fb.cells[row][col]
      BY <1>1, <2>1 DEF Silence
    <2>2. CASE \E x \in Predictions(p) : Shows(p, x, row, col, q.cells[row][col])
      <3>1. PICK x \in Predictions(p) : Shows(p, x, row, col, q.cells[row][col])
        BY <2>2
      <3>2. ~IsSilent(x.cell)
        BY <3>1, PredictionParts, EngineParts DEF Shows, Tentative
      <3>. QED
        BY <3>1, <3>2, PredictionAssumption DEF Shows, IsSilent, Visible
    <2>. QED
      BY <2>1, <2>2, ApplyFacts
  <1>. QED
    BY <1>2, <1>3 DEF Silence

\* Where there is a tentative prediction, the screen is shown as it is.
LEMMA ApplyTentative ==
    ASSUME NEW size \in Sizes, NEW fb \in ScreenIn(size), NEW p \in Engine(size),
           NEW q, q = Apply(p, fb), DistinctRows(p), NEW x \in Predictions(p),
           Tentative(x.cell, p.confirmed_epoch)
    PROVE  q.cells[x.row][x.col] = fb.cells[x.row][x.col]
  <1>1. x.row \in Rows(size[1]) /\ x.col \in Cols(size[2])
    BY PredictionParts
  <1>2. ASSUME NEW y \in Predictions(p), Shows(p, y, x.row, x.col, q.cells[x.row][x.col])
        PROVE  FALSE
    <2>1. y.row = x.row /\ y.col = x.col /\ ~Tentative(y.cell, p.confirmed_epoch)
      BY <1>2 DEF Shows
    <2>2. y.cell = x.cell
      BY <2>1, AtPlace
    <2>. QED
      BY <2>1, <2>2
  <1>. QED
    BY <1>1, <1>2, ApplyFacts

-----------------------------------------------------------------------------
(* The host's screen *)

LEMMA MinTwo ==
    ASSUME NEW a \in Int, NEW b \in Int, NEW m, m = Min({a, b})
    PROVE  m \in {a, b} /\ m <= a /\ m <= b
  <1>1. \E x \in {a, b} : \A y \in {a, b} : x <= y
    OBVIOUS
  <1>. QED
    BY <1>1 DEF Min

LEMMA MaxTwo ==
    ASSUME NEW a \in Int, NEW b \in Int, NEW m, m = Max({a, b})
    PROVE  m \in {a, b} /\ m >= a /\ m >= b
  <1>1. \E x \in {a, b} : \A y \in {a, b} : x >= y
    OBVIOUS
  <1>. QED
    BY <1>1 DEF Max

\* Cells of a screen that shows nothing typed in silence.
Legible(size, cells) ==
    /\ cells \in [Rows(size[1]) -> [Cols(size[2]) -> Glyph]]
    /\ \A r \in Rows(size[1]) : \A c \in Cols(size[2]) : cells[r][c] \notin Silent

LEMMA LegibleWith ==
    ASSUME NEW size \in Sizes, NEW before, Legible(size, before),
           NEW row, row \in Rows(size[1]), NEW col, col \in Cols(size[2]),
           NEW glyph, glyph \in Glyph, glyph \notin Silent,
           NEW cells, cells = [before EXCEPT ![row] = [before[row] EXCEPT ![col] = glyph]]
    PROVE  Legible(size, cells)
  <1>. DEFINE line == [before[row] EXCEPT ![col] = glyph]
  <1>1. line \in [Cols(size[2]) -> Glyph] /\ \A c \in Cols(size[2]) : line[c] \notin Silent
    BY DEF Legible
  <1>2. cells = [before EXCEPT ![row] = line]
    OBVIOUS
  <1>. HIDE DEF line
  <1>. QED
    BY <1>1, <1>2 DEF Legible

LEMMA LegibleScreen ==
    ASSUME NEW size \in Sizes, NEW fb \in ScreenIn(size), NEW cells, Legible(size, cells),
           NEW col, col \in Cols(size[2]), NEW q, q = [fb EXCEPT !.cells = cells, !.col = col]
    PROVE  q \in ScreenIn(size) /\ Silence(q)
  <1>1. q \in ScreenIn(size) /\ q.cells = cells
    BY DEF ScreenIn, Legible
  <1>. QED
    BY <1>1 DEF Silence, Legible

LEMMA SilenceLegible ==
    ASSUME NEW size \in Sizes, NEW fb \in ScreenIn(size), Silence(fb)
    PROVE  Legible(size, fb.cells)
  BY DEF ScreenIn, Silence, Legible

LEMMA WithCursor ==
    ASSUME NEW size \in Sizes, NEW fb \in ScreenIn(size), Silence(fb),
           NEW col \in Cols(size[2]), NEW q, q = [fb EXCEPT !.col = col]
    PROVE  q \in ScreenIn(size) /\ Silence(q)
  BY DEF ScreenIn, Silence

\* The host's return, resize and echo make screens of screens, silent ones of silent ones.
LEMMA NewLineFacts ==
    ASSUME NEW size \in Sizes, NEW fb \in ScreenIn(size), Silence(fb), NEW q, q = NewLine(fb)
    PROVE  q \in ScreenIn(size) /\ Silence(q)
  <1>1. /\ fb.cells \in [Rows(size[1]) -> [Cols(size[2]) -> Glyph]]
        /\ fb.row \in 0 .. size[1] - 1 /\ size[1] \in Nat /\ size[2] \in Nat
        /\ Rows(size[1]) = 0 .. size[1] - 1 /\ Height(fb) = size[1]
        /\ 0 \in Cols(size[2])
    BY Sized
  <1>2. CASE fb.row < Height(fb) - 1
    <2>. DEFINE down == fb.row + 1
                first == 0
    <2>1. q = [fb EXCEPT !.row = down, !.col = first]
      BY <1>2 DEF NewLine
    <2>2. down \in Rows(size[1]) /\ first \in Cols(size[2])
      BY <1>1, <1>2
    <2>. HIDE DEF down, first
    <2>. QED
      BY <2>1, <2>2 DEF ScreenIn, Silence
  <1>3. CASE ~(fb.row < Height(fb) - 1)
    <2>. DEFINE first == 0
                cells == [r \in DOMAIN fb.cells |->
                            IF r < fb.row THEN fb.cells[r + 1]
                            ELSE [c \in DOMAIN fb.cells[r] |-> Blank]]
    <2>1. q = [fb EXCEPT !.col = first, !.cells = cells]
      BY <1>3 DEF NewLine
    <2>2. ASSUME NEW r \in Rows(size[1])
          PROVE  /\ cells[r] \in [Cols(size[2]) -> Glyph]
                 /\ \A c \in Cols(size[2]) : cells[r][c] \notin Silent
      <3>1. CASE r < fb.row
        <4>1. r + 1 \in Rows(size[1]) /\ cells[r] = fb.cells[r + 1]
          BY <1>1, <3>1
        <4>. HIDE DEF cells
        <4>. QED
          BY <1>1, <4>1 DEF Silence
      <3>2. CASE ~(r < fb.row)
        <4>1. cells[r] = [c \in Cols(size[2]) |-> Blank]
          BY <1>1, <3>2
        <4>2. Blank \in Glyph /\ Blank \notin Silent
          BY PredictionAssumption DEF Glyph
        <4>. HIDE DEF cells
        <4>. QED
          BY <4>1, <4>2
      <3>. QED
        BY <3>1, <3>2
    <2>3. DOMAIN cells = Rows(size[1]) /\ cells = [r \in Rows(size[1]) |-> cells[r]]
      BY <1>1
    <2>. HIDE DEF cells
    <2>4. cells \in [Rows(size[1]) -> [Cols(size[2]) -> Glyph]]
      BY <2>2, <2>3
    <2>5. first \in Cols(size[2])
      BY <1>1
    <2>. HIDE DEF first
    <2>6. q \in ScreenIn(size) /\ q.cells = cells
      BY <2>1, <2>4, <2>5 DEF ScreenIn
    <2>. QED
      BY <2>2, <2>4, <2>6 DEF Silence
  <1>. QED
    BY <1>2, <1>3

LEMMA ResizedFacts ==
    ASSUME NEW old \in Sizes, NEW fb \in ScreenIn(old), Silence(fb), NEW size \in Sizes,
           NEW q, q = Resized(fb, size)
    PROVE  q \in ScreenIn(size) /\ Silence(q)
  <1>1. /\ fb.cells \in [Rows(old[1]) -> [Cols(old[2]) -> Glyph]]
        /\ fb.row \in Nat /\ fb.col \in Nat /\ fb.size = old
        /\ Height(fb) = old[1] /\ Width(fb) = old[2]
    BY Sized
  <1>2. size[1] \in Nat /\ size[1] >= 1 /\ size[2] \in Nat /\ size[2] >= 1
    BY PredictionAssumption
  <1>3. Min({fb.row, size[1] - 1}) \in Rows(size[1]) /\ Min({fb.col, size[2] - 1}) \in Cols(size[2])
    <2>. DEFINE row == fb.row
                col == fb.col
                bottom == size[1] - 1
                last == size[2] - 1
                down == Min({row, bottom})
                on == Min({col, last})
    <2>1. /\ row \in Nat /\ col \in Nat /\ bottom \in Nat /\ last \in Nat
          /\ Rows(size[1]) = 0 .. bottom /\ Cols(size[2]) = 0 .. last
      BY <1>1, <1>2 DEF Rows, Cols
    <2>2. down = Min({row, bottom}) /\ on = Min({col, last})
      OBVIOUS
    <2>. HIDE DEF row, col, bottom, last, down, on
    <2>3. row \in Int /\ col \in Int /\ bottom \in Int /\ last \in Int
      BY <2>1
    <2>4. down \in {row, bottom} /\ down <= bottom
      BY <2>2, <2>3, MinTwo
    <2>5. on \in {col, last} /\ on <= last
      BY <2>2, <2>3, MinTwo
    <2>6. down \in Rows(size[1]) /\ on \in Cols(size[2])
      BY <2>1, <2>4, <2>5
    <2>. QED
      BY <2>6 DEF down, on, row, col, bottom, last
  <1>. DEFINE cells == [r \in Rows(size[1]) |-> [c \in Cols(size[2]) |->
                          IF OnScreen(fb, r, c) THEN fb.cells[r][c] ELSE Blank]]
  <1>4. q = [size |-> size, row |-> Min({fb.row, size[1] - 1}),
             col |-> Min({fb.col, size[2] - 1}), cells |-> cells]
    BY DEF Resized
  <1>5. ASSUME NEW r \in Rows(size[1]), NEW c \in Cols(size[2])
        PROVE  cells[r][c] \in Glyph /\ cells[r][c] \notin Silent
    <2>1. Blank \in Glyph /\ Blank \notin Silent
      BY PredictionAssumption DEF Glyph
    <2>2. OnScreen(fb, r, c) => r \in Rows(old[1]) /\ c \in Cols(old[2])
      BY <1>1 DEF OnScreen
    <2>. QED
      BY <1>1, <2>1, <2>2 DEF Silence
  <1>6. cells \in [Rows(size[1]) -> [Cols(size[2]) -> Glyph]]
    BY <1>5
  <1>. HIDE DEF cells
  <1>7. q \in ScreenIn(size) /\ q.cells = cells
    BY <1>3, <1>4, <1>6 DEF ScreenIn
  <1>. QED
    BY <1>5, <1>6, <1>7 DEF Silence

LEMMA HandledFacts ==
    ASSUME NEW fb \in Screens, NEW key \in KeyIn, Silence(fb), NEW q, q = Handled(fb, key),
           host_echoes /\ key.kind \in {"print", "paste"} => key.glyph \notin Silent
    PROVE  q \in Screens /\ Silence(q)
  <1>1. PICK size \in Sizes : fb \in ScreenIn(size)
    BY DEF Screens
  <1>2. \A s \in Sizes : q \in ScreenIn(s) => q \in Screens
    BY DEF Screens
  <1>3. /\ fb.row \in Rows(size[1]) /\ fb.col \in 0 .. size[2] - 1 /\ size[2] \in Nat
        /\ Cols(size[2]) = 0 .. size[2] - 1 /\ Width(fb) = size[2] /\ size[2] >= 1
        /\ fb.col \in Cols(size[2])
    BY <1>1, Sized
  <1>4. /\ key.kind \in {"print", "paste", "return", "control", "resize", "backspace", "wide",
                         "right", "left"}
        /\ key.kind \in {"print", "paste"} => key.glyph \in Glyph
        /\ key.kind = "resize" => key.size \in Sizes
    BY DEF KeyIn, Glyph
  <1>. DEFINE back == fb.col - 1
              right == Min({fb.col + 1, Width(fb) - 1})
              left == Max({fb.col - 1, 0})
              on == IF fb.col < Width(fb) - 1 THEN fb.col + 1 ELSE fb.col
              row == fb.row
              col == fb.col
              glyph == key.glyph
              blank == Blank
  <1>5. /\ key.kind = "resize" => q = Resized(fb, key.size)
        /\ key.kind = "return" => q = NewLine(fb)
        /\ key.kind \notin {"resize", "return"} /\ ~host_echoes => q = fb
        /\ key.kind \in {"print", "paste"} /\ host_echoes =>
              q = [fb EXCEPT !.cells[row][col] = glyph, !.col = on]
        /\ key.kind = "right" /\ host_echoes => q = [fb EXCEPT !.col = right]
        /\ key.kind = "left" /\ host_echoes => q = [fb EXCEPT !.col = left]
        /\ key.kind = "backspace" /\ host_echoes /\ fb.col = 0 => q = fb
        /\ key.kind = "backspace" /\ host_echoes /\ fb.col # 0 =>
              q = [fb EXCEPT !.col = back, !.cells[row][back] = blank]
        /\ key.kind \in {"wide", "control"} => q = fb
    <2>1. q = IF key.kind = "resize" THEN Resized(fb, key.size)
              ELSE IF key.kind = "return" THEN NewLine(fb)
              ELSE IF ~host_echoes THEN fb
              ELSE CASE key.kind \in {"print", "paste"} ->
                           [fb EXCEPT !.cells[row][col] = glyph, !.col = on]
                     [] key.kind = "right" -> [fb EXCEPT !.col = right]
                     [] key.kind = "left" -> [fb EXCEPT !.col = left]
                     [] key.kind = "backspace" ->
                           IF fb.col = 0 THEN fb
                           ELSE [fb EXCEPT !.col = back, !.cells[row][back] = blank]
                     [] key.kind \in {"wide", "control"} -> fb
      BY DEF Handled, Printed
    <2>. HIDE DEF back, right, left, on, row, col, glyph, blank
    <2>. QED
      BY <2>1
  <1>6. on \in Cols(size[2])
    BY <1>3
  <1>7. right \in Cols(size[2]) /\ left \in Cols(size[2])
    <2>. DEFINE next == fb.col + 1
                prev == fb.col - 1
                last == Width(fb) - 1
    <2>1. /\ next \in Int /\ prev \in Int /\ last \in Int /\ 0 \in Int
          /\ right = Min({next, last}) /\ left = Max({prev, 0})
          /\ next \in Nat /\ prev < last /\ last \in Nat /\ 0 <= last
          /\ Cols(size[2]) = 0 .. last
      BY <1>3
    <2>. HIDE DEF right, left, next, prev, last
    <2>2. right \in {next, last} /\ right <= last
      BY <2>1, MinTwo
    <2>3. left \in {prev, 0} /\ left >= 0
      BY <2>1, MaxTwo
    <2>. QED
      BY <2>1, <2>2, <2>3
  <1>8. fb.col # 0 => back \in Cols(size[2])
    BY <1>3
  <1>9. row \in Rows(size[1]) /\ col \in Cols(size[2])
    BY <1>3
  <1>18. blank \in Glyph /\ blank \notin Silent
    BY PredictionAssumption DEF Glyph
  <1>10. key.kind \in {"print", "paste"} => glyph \in Glyph
    BY <1>4
  <1>. HIDE DEF back, right, left, on, row, col, blank
  <1>11. CASE key.kind = "resize"
    BY <1>1, <1>2, <1>4, <1>5, <1>11, ResizedFacts
  <1>12. CASE key.kind = "return"
    BY <1>1, <1>2, <1>5, <1>12, NewLineFacts
  <1>13. CASE q = fb
    BY <1>13
  <1>14. CASE key.kind \in {"print", "paste"} /\ host_echoes
    <2>1. glyph \in Glyph /\ glyph \notin Silent
      BY <1>10, <1>14
    <2>2. q = [fb EXCEPT !.cells[row][col] = glyph, !.col = on]
      BY <1>5, <1>14
    <2>. DEFINE cells == [fb.cells EXCEPT ![row] = [fb.cells[row] EXCEPT ![col] = glyph]]
    <2>3. q = [fb EXCEPT !.cells = cells, !.col = on]
      BY <2>2
    <2>4. Legible(size, fb.cells)
      BY <1>1, SilenceLegible
    <2>5. Legible(size, cells)
      <3>. DEFINE before == fb.cells
      <3>1. cells = [before EXCEPT ![row] = [before[row] EXCEPT ![col] = glyph]]
        OBVIOUS
      <3>2. Legible(size, before)
        BY <2>4
      <3>. HIDE DEF before, cells, glyph
      <3>. QED
        BY <1>9, <2>1, <3>1, <3>2, LegibleWith
    <2>. HIDE DEF glyph, cells
    <2>6. q \in ScreenIn(size) /\ Silence(q)
      BY <1>1, <1>6, <2>3, <2>5, LegibleScreen
    <2>. QED
      BY <1>2, <2>6
  <1>15. CASE key.kind = "right" /\ host_echoes
    BY <1>1, <1>2, <1>5, <1>7, <1>15, WithCursor
  <1>16. CASE key.kind = "left" /\ host_echoes
    BY <1>1, <1>2, <1>5, <1>7, <1>16, WithCursor
  <1>17. CASE key.kind = "backspace" /\ host_echoes /\ fb.col # 0
    <2>4. q = [fb EXCEPT !.col = back, !.cells[row][back] = blank]
      BY <1>5, <1>17
    <2>. DEFINE cells == [fb.cells EXCEPT ![row] = [fb.cells[row] EXCEPT ![back] = blank]]
    <2>3. q = [fb EXCEPT !.cells = cells, !.col = back]
      BY <1>1, <2>4 DEF ScreenIn
    <2>1. Legible(size, fb.cells) /\ back \in Cols(size[2])
      BY <1>1, <1>8, <1>17, SilenceLegible
    <2>5. Legible(size, cells)
      <3>. DEFINE before == fb.cells
      <3>1. cells = [before EXCEPT ![row] = [before[row] EXCEPT ![back] = blank]]
        OBVIOUS
      <3>2. Legible(size, before)
        BY <2>1
      <3>. HIDE DEF before, cells
      <3>. QED
        BY <1>9, <1>18, <2>1, <3>1, <3>2, LegibleWith
    <2>. HIDE DEF cells
    <2>6. q \in ScreenIn(size) /\ Silence(q)
      BY <1>1, <2>1, <2>3, <2>5, LegibleScreen
    <2>. QED
      BY <1>2, <2>6
  <1>. QED
    BY <1>4, <1>5, <1>11, <1>12, <1>13, <1>14, <1>15, <1>16, <1>17

-----------------------------------------------------------------------------
(* The keys on their way to the host *)

\* The host takes a key: what was quiet before it is quiet.
LEMMA QuietTail ==
    ASSUME keys \in Seq(KeyIn), keys # <<>>, keys' = Tail(keys),
           host_echoes' = IF ChangesEcho(Head(keys)) THEN Head(keys).echo ELSE host_echoes,
           NEW i, i \in 1 .. Len(keys), Quiet(i + 1)
    PROVE  Quiet(i)'
  <1>. DEFINE n == Len(keys)
  <1>1. n \in Nat /\ n >= 1 /\ Len(keys') = n - 1 /\ Head(keys) = keys[1] /\ i \in 1 .. n
    OBVIOUS
  <1>2. \A j \in 1 .. n - 1 : keys'[j] = keys[j + 1]
    OBVIOUS
  <1>. HIDE DEF n
  <1>3. (i + 1) - 1 = i
    BY <1>1
  <1>4. CASE ~host_echoes /\ \A j \in 1 .. i : ~ChangesEcho(keys[j])
    <2>1. ~host_echoes'
      BY <1>1, <1>4
    <2>2. ASSUME NEW j \in 1 .. i - 1
          PROVE  ~ChangesEcho(keys'[j])
      BY <1>1, <1>2, <1>4 DEF ChangesEcho
    <2>. QED
      BY <2>1, <2>2 DEF Quiet, ChangesEcho
  <1>5. ASSUME NEW j \in 1 .. i, ChangesEcho(keys[j]), ~keys[j].echo,
               \A k \in j + 1 .. i : ~ChangesEcho(keys[k])
        PROVE  Quiet(i)'
    <2>1. CASE j = 1
      <3>1. ~host_echoes'
        BY <1>1, <1>5, <2>1
      <3>2. ASSUME NEW k \in 1 .. i - 1
            PROVE  ~ChangesEcho(keys'[k])
        BY <1>1, <1>2, <1>5, <2>1 DEF ChangesEcho
      <3>. QED
        BY <3>1, <3>2 DEF Quiet, ChangesEcho
    <2>2. CASE j # 1
      <3>. DEFINE l == j - 1
      <3>1. l \in 1 .. i - 1 /\ keys'[l] = keys[j]
        BY <1>1, <1>2, <2>2
      <3>2. ASSUME NEW k \in l + 1 .. i - 1
            PROVE  ~ChangesEcho(keys'[k])
        <4>1. k + 1 \in j + 1 .. i /\ keys'[k] = keys[k + 1]
          BY <1>1, <1>2
        <4>. QED
          BY <1>5, <4>1
      <3>. HIDE DEF l
      <3>3. ChangesEcho(keys'[l]) /\ ~keys'[l].echo
        BY <1>5, <3>1
      <3>. QED
        BY <3>1, <3>2, <3>3 DEF Quiet, ChangesEcho
    <2>. QED
      BY <2>1, <2>2
  <1>. QED
    BY <1>3, <1>4, <1>5 DEF Quiet

\* A key is typed: what was quiet is quiet, and a key that ends the echo makes it so.
LEMMA QuietAppend ==
    ASSUME keys \in Seq(KeyIn), NEW key \in KeyIn, keys' = Append(keys, key),
           host_echoes' = host_echoes, NEW n \in Nat, n = Len(keys)
    PROVE  /\ \A i \in 1 .. n + 1 : Quiet(i) => Quiet(i)'
           /\ Quiet(n + 1) /\ ~ChangesEcho(key) => Quiet(n + 2)'
           /\ ChangesEcho(key) /\ ~key.echo => Quiet(n + 2)'
  <1>1. n \in Nat /\ Len(keys') = n + 1 /\ keys'[n + 1] = key
    OBVIOUS
  <1>2. \A j \in 1 .. n : keys'[j] = keys[j]
    OBVIOUS
  <1>4. (n + 2) - 1 = n + 1 /\ (n + 1) - 1 = n
    BY <1>1
  <1>5. ASSUME NEW i \in 1 .. n + 1, Quiet(i)
        PROVE  Quiet(i)'
    <2>1. \A j \in 1 .. i - 1 : keys'[j] = keys[j] /\ j + 1 .. i - 1 \subseteq 1 .. i - 1
      BY <1>1, <1>2
    <2>2. CASE ~host_echoes /\ \A j \in 1 .. i - 1 : ~ChangesEcho(keys[j])
      BY <2>1, <2>2 DEF Quiet, ChangesEcho
    <2>3. ASSUME NEW j \in 1 .. i - 1, ChangesEcho(keys[j]), ~keys[j].echo,
                 \A k \in j + 1 .. i - 1 : ~ChangesEcho(keys[k])
          PROVE  Quiet(i)'
      <3>1. ChangesEcho(keys'[j]) /\ ~keys'[j].echo
        BY <2>1, <2>3
      <3>2. \A k \in j + 1 .. i - 1 : ~ChangesEcho(keys'[k])
        BY <2>1, <2>3
      <3>. QED
        BY <3>1, <3>2 DEF Quiet, ChangesEcho
    <2>. QED
      BY <1>5, <2>2, <2>3 DEF Quiet
  <1>6. ASSUME Quiet(n + 1), ~ChangesEcho(key)
        PROVE  Quiet(n + 2)'
    <2>1. CASE ~host_echoes /\ \A j \in 1 .. n : ~ChangesEcho(keys[j])
      <3>1. ASSUME NEW j \in 1 .. n + 1
            PROVE  ~ChangesEcho(keys'[j])
        <4>1. CASE j = n + 1
          BY <1>1, <1>6, <4>1
        <4>2. CASE j # n + 1
          <5>1. j \in 1 .. n
            BY <1>1, <4>2
          <5>. QED
            BY <1>2, <2>1, <5>1
        <4>. QED
          BY <4>1, <4>2
      <3>. QED
        BY <1>4, <2>1, <3>1 DEF Quiet, ChangesEcho
    <2>2. ASSUME NEW j \in 1 .. n, ChangesEcho(keys[j]), ~keys[j].echo,
                 \A k \in j + 1 .. n : ~ChangesEcho(keys[k])
          PROVE  Quiet(n + 2)'
      <3>1. j \in 1 .. n + 1 /\ ChangesEcho(keys'[j]) /\ ~keys'[j].echo
        BY <1>1, <1>2, <2>2
      <3>2. ASSUME NEW k \in j + 1 .. n + 1
            PROVE  ~ChangesEcho(keys'[k])
        <4>1. CASE k = n + 1
          BY <1>1, <1>6, <4>1
        <4>2. CASE k # n + 1
          <5>1. k \in j + 1 .. n /\ k \in 1 .. n
            BY <1>1, <4>2
          <5>. QED
            BY <1>2, <2>2, <5>1
        <4>. QED
          BY <4>1, <4>2
      <3>. QED
        BY <1>4, <3>1, <3>2 DEF Quiet, ChangesEcho
    <2>. QED
      BY <1>4, <1>6, <2>1, <2>2 DEF Quiet
  <1>7. ASSUME ChangesEcho(key), ~key.echo
        PROVE  Quiet(n + 2)'
    <2>1. n + 1 \in 1 .. n + 1 /\ ChangesEcho(keys'[n + 1]) /\ ~keys'[n + 1].echo
      BY <1>1, <1>7
    <2>2. (n + 1) + 1 .. n + 1 = {}
      BY <1>1
    <2>. QED
      BY <1>4, <2>1, <2>2 DEF Quiet, ChangesEcho
  <1>. QED
    BY <1>5, <1>6, <1>7

-----------------------------------------------------------------------------
(* The first state *)

LEMMA ScreenOfFacts ==
    ASSUME NEW glyph, glyph \in Glyph, glyph \notin Silent, NEW col,
           col \in 0 .. FirstSize[2] - 1, NEW q, q = ScreenOf(FirstSize, glyph, col)
    PROVE  q \in Screens /\ Silence(q) /\ q.size = FirstSize
  <1>1. FirstSize \in Sizes /\ 0 \in Rows(FirstSize[1]) /\ col \in Cols(FirstSize[2])
    BY PredictionAssumption DEF Rows, Cols
  <1>2. q \in ScreenIn(FirstSize)
    BY <1>1 DEF ScreenOf, ScreenIn
  <1>3. q \in Screens
    BY <1>1, <1>2 DEF Screens
  <1>. QED
    BY <1>3 DEF ScreenOf, Silence

LEMMA InitTyped ==
    ASSUME Init PROVE Typed /\ Silence(local_framebuffer) /\ Silence(screen)
  <1>. DEFINE none == <<0, 0>>
  <1>1. /\ Blank \in Glyph /\ Blank \notin Silent /\ Text \in Glyph /\ Text \notin Silent
        /\ 0 \in 0 .. FirstSize[2] - 1 /\ FirstCol \in 0 .. FirstSize[2] - 1
    BY PredictionAssumption DEF Glyph
  <1>. DEFINE zero == 0
  <1>2. local_framebuffer \in Screens /\ Silence(local_framebuffer)
    <2>1. local_framebuffer = ScreenOf(FirstSize, Blank, zero) /\ zero \in 0 .. FirstSize[2] - 1
      BY <1>1 DEF Init
    <2>. HIDE DEF zero
    <2>. QED
      BY <1>1, <2>1, ScreenOfFacts
  <1>3. screen \in Screens /\ Silence(screen)
    BY <1>1, ScreenOfFacts DEF Init
  <1>4. engine.size = none /\ engine \in Engine(none) /\ engine.sent = 0
    <2>1. DisplayPreferences \subseteq Preferences /\ Overwrites \subseteq BOOLEAN
      BY PredictionAssumption
    <2>2. none \in {<<0, 0>>} /\ none = <<0, 0>>
      OBVIOUS
    <2>. HIDE DEF none
    <2>3. engine \in
             [cursors : {<<>>}, overlays : {<<>>}, prediction_epoch : {1}, confirmed_epoch : {0},
              sent : {0}, late : {0}, size : {none}, srtt_trigger : {FALSE},
              flagging : {FALSE}, glitch_trigger : {0}, quick : {0}, interval : {250},
              preference : DisplayPreferences, overwrite : Overwrites]
      BY <2>2 DEF Init
    <2>4. <<>> \in Seq(CursorMove(none)) /\ <<>> \in Seq(OverlayRow(none))
      OBVIOUS
    <2>5. /\ engine.cursors = <<>> /\ engine.overlays = <<>> /\ engine.prediction_epoch = 1
          /\ engine.confirmed_epoch = 0 /\ engine.sent = 0 /\ engine.late = 0
          /\ engine.size = none
      BY <2>3
    <2>6. /\ engine.srtt_trigger = FALSE /\ engine.flagging = FALSE
          /\ engine.glitch_trigger = 0 /\ engine.quick = 0 /\ engine.interval = 250
      BY <2>3
    <2>7. engine.preference \in Preferences /\ engine.overwrite \in BOOLEAN
      BY <2>1, <2>3
    <2>8. engine =
             [cursors |-> engine.cursors, overlays |-> engine.overlays,
              prediction_epoch |-> engine.prediction_epoch,
              confirmed_epoch |-> engine.confirmed_epoch, sent |-> engine.sent,
              late |-> engine.late, size |-> engine.size,
              srtt_trigger |-> engine.srtt_trigger, flagging |-> engine.flagging,
              glitch_trigger |-> engine.glitch_trigger, quick |-> engine.quick,
              interval |-> engine.interval, preference |-> engine.preference,
              overwrite |-> engine.overwrite]
      BY <2>3
    <2>10. /\ engine.cursors \in Seq(CursorMove(none)) /\ engine.overlays \in Seq(OverlayRow(none))
           /\ engine.size \in {none}
      BY <2>4, <2>5
    <2>11. /\ engine.prediction_epoch \in Nat /\ engine.confirmed_epoch \in Nat
           /\ engine.sent \in Nat /\ engine.late \in Nat /\ engine.glitch_trigger \in Nat
           /\ engine.quick \in Nat /\ engine.interval \in Nat
      BY <2>5, <2>6
    <2>12. engine.srtt_trigger \in BOOLEAN /\ engine.flagging \in BOOLEAN
      BY <2>6
    <2>9. engine \in Engine(none)
      BY <2>7, <2>8, <2>10, <2>11, <2>12 DEF Engine
    <2>. QED
      BY <2>5, <2>9
  <1>. QED
    BY <1>2, <1>3, <1>4, PredictionAssumption DEF Init, Typed

LEMMA InitIInv ==
    ASSUME Init PROVE IInv
  <1>1. Typed /\ Silence(local_framebuffer) /\ Silence(screen)
    BY InitTyped
  <1>2. /\ engine.cursors = <<>> /\ engine.overlays = <<>> /\ engine.confirmed_epoch = 0
        /\ engine.prediction_epoch = 1 /\ host_framebuffer = local_framebuffer
        /\ latest.fb = local_framebuffer /\ keys = <<>> /\ typing_echoes = TRUE
        /\ phase = "typed"
    BY DEF Init
  <1>3. Predictions(engine) = {}
    BY <1>2, NoOverlays
  <1>4. Fitting
    BY <1>2 DEF Fitting, Empty
  <1>5. LookedAt
    BY <1>3 DEF LookedAt
  <1>6. Honest
    BY <1>2, <1>3 DEF Honest, DistinctRows
  <1>7. HostIsSilent
    BY <1>1, <1>2 DEF HostIsSilent
  <1>8. Secret
    BY <1>1, <1>2, <1>3 DEF Secret, Epochs
  <1>9. JudgedAreGone
    BY <1>2 DEF JudgedAreGone
  <1>. QED
    BY <1>1, <1>4, <1>5, <1>6, <1>7, <1>8, <1>9 DEF IInv

-----------------------------------------------------------------------------
(* Steps that the engine has no part in *)

\* The same engine, and what of the rest IInv says of it.
SameEngine ==
    UNCHANGED <<engine, local_framebuffer, host_framebuffer, typing_echoes>>

LEMMA SameEngineFacts ==
    ASSUME Fitting, Honest, Secret, SameEngine
    PROVE  Fitting' /\ Honest' /\ Secret'
  <1>1. Fitting'
    BY DEF Fitting, SameEngine, Empty
  <1>2. Honest'
    BY DEF Honest, HonestAt, DistinctRows, Predictions, Creditable, Tentative, SameEngine
  <1>3. Secret'
    BY DEF Secret, Overwriting, Epochs, Predictions, Silence, Visible, IsSilent, SameEngine
  <1>. QED
    BY <1>1, <1>2, <1>3

\* What HostIsSilent says of the keys depends on the keys alone.
LEMMA SameHost ==
    ASSUME HostIsSilent, UNCHANGED <<keys, host_echoes, typing_echoes>>,
           Silence(screen)', Silence(latest.fb)', Silence(host_framebuffer)'
    PROVE  HostIsSilent'
  BY DEF HostIsSilent, Quiet, ChangesEcho

LEMMA StutterIInv ==
    ASSUME IInv, UNCHANGED vars PROVE IInv'
  <1>. USE DEF vars, server
  <1>1. Typed'
    BY DEF IInv, Typed
  <1>2. Fitting' /\ Honest' /\ Secret'
    BY SameEngineFacts DEF IInv, SameEngine
  <1>3. LookedAt'
    BY DEF IInv, LookedAt, Underlined, Predictions, Timely
  <1>4. HostIsSilent'
    BY SameHost DEF IInv, HostIsSilent, Silence
  <1>5. JudgedAreGone'
    BY DEF IInv, JudgedAreGone
  <1>. QED
    BY <1>1, <1>2, <1>3, <1>4, <1>5 DEF IInv

\* wait_time ends the wait unless nothing can get late.
LEMMA WaitIInv ==
    ASSUME IInv, Wait PROVE IInv'
  <1>. USE DEF server
  <1>1. Typed'
    BY Constants DEF IInv, Typed, Wait
  <1>2. Fitting' /\ Honest' /\ Secret'
    BY SameEngineFacts DEF IInv, SameEngine, Wait
  <1>3. LookedAt'
    <2>1. CASE engine.preference = "Never" \/ Underlined(engine)
      BY <2>1 DEF LookedAt, Underlined, Wait
    <2>2. CASE NeedsPoll(engine)
      <3>1. phase' = "woken" /\ engine' = engine /\ now' - 1 = now /\ phase = "select"
        BY <2>2 DEF IInv, Typed, Wait
      <3>. QED
        BY <3>1 DEF IInv, LookedAt, Underlined, Predictions, Timely
    <2>3. CASE ~NeedsPoll(engine) /\ ~Underlined(engine)
      <3>1. engine.overlays \in Seq(OverlayRow(engine.size))
        BY EngineParts DEF IInv, Typed
      <3>2. Predictions(engine) = {}
        BY <2>3, PredictionsIn DEF NeedsPoll, Active, Underlined
      <3>3. Predictions(engine') = {}
        BY <3>2 DEF Wait
      <3>. QED
        BY <3>3 DEF LookedAt, Predictions
    <2>. QED
      BY <2>1, <2>2, <2>3
  <1>4. HostIsSilent'
    BY SameHost DEF IInv, HostIsSilent, Silence, Wait
  <1>5. JudgedAreGone'
    BY DEF IInv, JudgedAreGone, Wait
  <1>. QED
    BY <1>1, <1>2, <1>3, <1>4, <1>5 DEF IInv

LEMMA EchoAckIInv ==
    ASSUME IInv, EchoAck PROVE IInv'
  <1>1. Typed'
    BY DEF IInv, Typed, EchoAck
  <1>2. Fitting' /\ Honest' /\ Secret'
    BY SameEngineFacts DEF IInv, SameEngine, EchoAck
  <1>3. LookedAt'
    BY DEF IInv, LookedAt, Underlined, Predictions, Timely, EchoAck
  <1>4. HostIsSilent'
    BY SameHost DEF IInv, HostIsSilent, Silence, EchoAck
  <1>5. JudgedAreGone'
    BY DEF IInv, JudgedAreGone, EchoAck
  <1>. QED
    BY <1>1, <1>2, <1>3, <1>4, <1>5 DEF IInv

\* The host handles a key.
LEMMA HostIInv ==
    ASSUME IInv, Host PROVE IInv'
  <1>1. /\ keys \in Seq(KeyIn) /\ Len(keys) > unsent /\ unsent \in Nat
        /\ keys' = Tail(keys) /\ screen' = Handled(screen, Head(keys)) /\ screen \in Screens
        /\ Silence(screen) /\ SameEngine /\ UNCHANGED <<phase, now, latest>>
        /\ host_echoes' = IF ChangesEcho(Head(keys)) THEN Head(keys).echo ELSE host_echoes
    BY DEF IInv, Typed, HostIsSilent, Host, SameEngine
  <1>2. /\ keys # <<>> /\ Head(keys) \in KeyIn /\ Head(keys) = keys[1] /\ 1 \in DOMAIN keys
        /\ keys' \in Seq(KeyIn) /\ Len(keys) \in Nat /\ Len(keys) >= 1
        /\ Len(keys') = Len(keys) - 1
    BY <1>1
  <1>3. host_echoes /\ Head(keys).kind \in {"print", "paste"} => Head(keys).glyph \notin Silent
    BY <1>2 DEF IInv, HostIsSilent, Quiet
  <1>4. screen' \in Screens /\ Silence(screen')
    <2>. DEFINE key == Head(keys)
    <2>1. /\ key \in KeyIn /\ screen' = Handled(screen, key)
          /\ host_echoes /\ key.kind \in {"print", "paste"} => key.glyph \notin Silent
      BY <1>1, <1>2, <1>3
    <2>. HIDE DEF key
    <2>. QED
      BY <1>1, <2>1, HandledFacts
  <1>5. host_echoes' \in BOOLEAN
    BY <1>1, <1>2 DEF IInv, Typed, KeyIn, ChangesEcho
  <1>6. Typed'
    BY <1>2, <1>4, <1>5 DEF IInv, Typed, Host
  <1>7. Fitting' /\ Honest' /\ Secret'
    BY <1>1, SameEngineFacts DEF IInv
  <1>8. LookedAt'
    BY <1>1 DEF IInv, LookedAt, Underlined, Predictions, Timely, SameEngine
  <1>9. HostIsSilent'
    <2>. DEFINE n == Len(keys')
    <2>1. \A i \in 1 .. Len(keys) : Quiet(i + 1) => Quiet(i)'
      BY <1>1, <1>2, QuietTail
    <2>2. ASSUME NEW i \in DOMAIN keys', keys'[i].kind \in {"print", "paste"},
                 keys'[i].glyph \in Silent
          PROVE  Quiet(i)'
      <3>1. /\ i \in 1 .. Len(keys) /\ i + 1 \in DOMAIN keys /\ keys'[i] = keys[i + 1]
        BY <1>1, <1>2
      <3>2. Quiet(i + 1)
        BY <2>2, <3>1 DEF IInv, HostIsSilent
      <3>. QED
        BY <2>1, <3>1, <3>2
    <2>3. ASSUME ~typing_echoes', NEW i \in Nat, i = Len(keys') + 1
          PROVE  Quiet(i)'
      <3>1. i = Len(keys) /\ i \in 1 .. Len(keys) /\ Quiet(i + 1)
        BY <1>1, <1>2, <2>3 DEF IInv, HostIsSilent, SameEngine
      <3>. QED
        BY <2>1, <3>1
    <2>4. ~typing_echoes' => Quiet(Len(keys) + 1)'
      <3>1. \A i \in Nat : ~typing_echoes' /\ i = Len(keys') + 1 => Quiet(i)'
        BY <2>3
      <3>2. Len(keys') + 1 \in Nat
        BY <1>2
      <3>. QED
        BY <3>1, <3>2 DEF Quiet
    <2>5. Silence(screen)' /\ Silence(latest.fb)' /\ Silence(host_framebuffer)'
      BY <1>1, <1>4 DEF IInv, HostIsSilent, SameEngine, Silence
    <2>. QED
      BY <2>2, <2>4, <2>5 DEF HostIsSilent
  <1>10. JudgedAreGone'
    BY <1>1 DEF IInv, JudgedAreGone, SameEngine
  <1>. QED
    BY <1>6, <1>7, <1>8, <1>9, <1>10 DEF IInv

\* A packet brings a state, an echo ack and a send interval.
LEMMA HearIInv ==
    ASSUME IInv, Hear PROVE IInv'
  <1>. USE DEF server
  <1>1. PICK interval \in Intervals : engine' = Hinted(engine, interval)
    BY DEF Hear
  <1>2. /\ engine \in Engine(engine.size) /\ echo_ack \in Nat /\ interval \in Nat
        /\ phase' = "heard" /\ phase \in {"select", "woken"}
        /\ UNCHANGED <<local_framebuffer, host_framebuffer, typing_echoes, now, keys, unsent,
                       screen, host_echoes>>
    BY PredictionAssumption DEF IInv, Typed, Hear
  <1>3. /\ engine' \in Engine(engine.size) /\ engine'.size = engine.size
        /\ engine'.cursors = engine.cursors /\ engine'.overlays = engine.overlays
        /\ engine'.sent = engine.sent /\ engine'.preference = engine.preference
        /\ engine'.overwrite = engine.overwrite /\ engine'.flagging = engine.flagging
        /\ engine'.glitch_trigger = engine.glitch_trigger
        /\ engine'.prediction_epoch = engine.prediction_epoch
        /\ engine'.confirmed_epoch = engine.confirmed_epoch
    BY <1>1, <1>2 DEF Hinted, Engine
  <1>4. Predictions(engine') = Predictions(engine)
    BY <1>3, SamePredictions
  <1>5. Typed'
    BY <1>2, <1>3 DEF IInv, Typed, Hear
  <1>6. Fitting'
    BY <1>2, <1>3 DEF IInv, Fitting, Empty
  <1>7. LookedAt'
    <2>1. \A x \in Predictions(engine) : x.cell.time \in Nat
      BY <1>2, PredictionParts
    <2>2. now \in Nat /\ GLITCH_THRESHOLD \in Nat /\ GLITCH_FLAG_THRESHOLD \in Nat
      BY Constants DEF IInv, Typed
    <2>. QED
      BY <1>2, <1>3, <1>4, <2>1, <2>2 DEF IInv, LookedAt, Underlined, Timely
  <1>8. Honest'
    <2>1. DistinctRows(engine')
      BY <1>3 DEF IInv, Honest, DistinctRows
    <2>2. \A x \in Predictions(engine') : HonestAt(x)'
      BY <1>2, <1>3, <1>4 DEF IInv, Honest, HonestAt, Tentative, Creditable
    <2>. QED
      BY <2>1, <2>2 DEF Honest
  <1>9. HostIsSilent'
    BY <1>2, SameHost DEF IInv, HostIsSilent, Silence, Hear
  <1>10. Secret'
    <2>1. Epochs(engine, typing_echoes) => Epochs(engine', typing_echoes)
      BY <1>3, <1>4 DEF Epochs
    <2>2. Silence(local_framebuffer)' <=> Silence(local_framebuffer)
      BY <1>2 DEF Silence
    <2>. QED
      BY <1>2, <1>3, <2>1, <2>2 DEF IInv, Secret, Overwriting
  <1>11. JudgedAreGone'
    BY <1>2 DEF JudgedAreGone
  <1>. QED
    BY <1>5, <1>6, <1>7, <1>8, <1>9, <1>10, <1>11 DEF IInv

-----------------------------------------------------------------------------
(* A frame *)

\* An engine that never predicts leaves the screen as it is.
LEMMA NeverShown ==
    ASSUME NEW p, p.preference = "Never", NEW fb
    PROVE  Cull(p, fb) = p /\ Apply(p, fb) = fb
  BY DEF Cull, Apply, Shown

LEMMA IterateFacts ==
    ASSUME IInv, Iterate
    PROVE  /\ latest.fb \in Screens /\ local_framebuffer' = Apply(engine', latest.fb)
           /\ host_framebuffer' = latest.fb /\ phase' = "select" /\ engine \in Engine(engine.size)
           /\ Silence(latest.fb) /\ now \in Nat /\ engine.sent <= frame_num
           /\ UNCHANGED <<latest, now, keys, screen, host_echoes, typing_echoes>>
           /\ engine.preference = "Never" =>
                 engine' = engine /\ local_framebuffer' = latest.fb
           /\ engine.preference # "Never" =>
                 \A size \in Sizes : latest.fb \in ScreenIn(size) =>
                     /\ Culled(size, engine, engine', latest.fb)
                     /\ local_framebuffer' \in ScreenIn(size)
  <1>1. /\ latest.fb \in Screens /\ local_framebuffer' = Apply(engine', latest.fb)
        /\ host_framebuffer' = latest.fb /\ phase' = "select" /\ engine \in Engine(engine.size)
        /\ Silence(latest.fb) /\ now \in Nat /\ engine.sent <= frame_num
        /\ UNCHANGED <<latest, now, keys, screen, host_echoes, typing_echoes>>
        /\ engine' = Cull(engine, latest.fb)
    BY DEF IInv, Typed, HostIsSilent, Iterate, server
  <1>2. CASE engine.preference = "Never"
    BY <1>1, <1>2, NeverShown
  <1>3. ASSUME engine.preference # "Never", NEW size \in Sizes, latest.fb \in ScreenIn(size)
        PROVE  Culled(size, engine, engine', latest.fb) /\ local_framebuffer' \in ScreenIn(size)
    <2>1. Culled(size, engine, engine', latest.fb)
      BY <1>1, <1>3, CullFacts
    <2>2. engine' \in Engine(size)
      BY <2>1 DEF Culled
    <2>. QED
      BY <1>1, <1>3, <2>1, <2>2, ApplyFacts
  <1>. QED
    BY <1>1, <1>2, <1>3

\* tick and output_new_frame: a cull by the latest screen, which is then drawn over.
LEMMA IterateIInv ==
    ASSUME IInv, Iterate PROVE IInv'
  <1>1. /\ latest.fb \in Screens /\ local_framebuffer' = Apply(engine', latest.fb)
        /\ host_framebuffer' = latest.fb /\ phase' = "select" /\ engine \in Engine(engine.size)
        /\ Silence(latest.fb) /\ now \in Nat /\ engine.sent <= frame_num
        /\ UNCHANGED <<latest, now, keys, screen, host_echoes, typing_echoes>>
    BY IterateFacts
  <1>2. PICK size \in Sizes : latest.fb \in ScreenIn(size)
    BY <1>1 DEF Screens
  <1>3. /\ unsent' \in Nat /\ frame_num' \in Nat /\ frame_num \in Nat /\ frame_num' >= frame_num
        /\ UNCHANGED <<echo_ack, typed>>
    BY DEF IInv, Typed, Iterate, server
  <1>4. HostIsSilent'
    BY <1>1, SameHost DEF IInv, HostIsSilent, Silence
  <1>5. \A fb : fb \in ScreenIn(size) => fb \in Screens /\ fb.size = size
    BY <1>2 DEF Screens, ScreenIn
  <1>6. CASE engine.preference = "Never"
    <2>1. engine' = engine /\ local_framebuffer' = latest.fb
      BY <1>6, IterateFacts
    <2>2. Empty(engine) /\ Predictions(engine) = {}
      BY <1>6, NoOverlays DEF IInv, Fitting, Empty
    <2>3. Typed'
      <3>1. engine'.sent <= frame_num' /\ engine' \in Engine(engine'.size)
        BY <1>1, <1>3, <2>1, EngineParts
      <3>. QED
        BY <1>1, <1>3, <2>1, <3>1 DEF IInv, Typed
    <2>4. Fitting'
      BY <2>1, <2>2 DEF Fitting, Empty
    <2>5. LookedAt' /\ JudgedAreGone'
      BY <1>6, <2>1 DEF LookedAt, JudgedAreGone
    <2>6. Honest'
      BY <2>1, <2>2 DEF Honest, DistinctRows, Empty, Predictions
    <2>7. Secret'
      BY <1>1, <1>6, <2>1 DEF Secret, Overwriting, Silence
    <2>. QED
      BY <1>4, <2>3, <2>4, <2>5, <2>6, <2>7 DEF IInv
  <1>7. CASE engine.preference # "Never"
    <2>1. Culled(size, engine, engine', latest.fb) /\ local_framebuffer' \in ScreenIn(size)
      BY <1>2, <1>7, IterateFacts
    <2>2. /\ engine' \in Engine(size) /\ engine'.size = size /\ Alike(engine, engine')
          /\ DistinctRows(engine') /\ engine'.late \in Nat
      BY <2>1, EngineParts DEF Culled, IInv, Honest
    <2>3. Typed'
      <3>1. engine'.sent = engine.sent /\ engine'.sent \in Nat /\ engine'.sent <= frame_num'
        BY <1>1, <1>3, <2>2, EngineParts DEF Alike
      <3>2. /\ local_framebuffer' \in Screens /\ host_framebuffer' \in Screens
            /\ host_framebuffer'.size = local_framebuffer'.size
        BY <1>1, <1>2, <1>5, <2>1
      <3>. QED
        BY <1>1, <1>3, <2>2, <3>1, <3>2 DEF IInv, Typed
    <2>4. Fitting'
      BY <1>5, <1>7, <2>1, <2>2 DEF Fitting, Alike
    <2>5. LookedAt'
      BY <1>1, <2>1 DEF LookedAt, Culled, Timely
    <2>6. Honest'
      <3>1. ASSUME NEW x \in Predictions(engine'), Tentative(x.cell, engine'.confirmed_epoch)
            PROVE  local_framebuffer'.cells[x.row][x.col] = host_framebuffer'.cells[x.row][x.col]
        BY <1>1, <1>2, <2>2, <3>1, ApplyTentative
      <3>2. \A x \in Predictions(engine') : HonestAt(x)'
        BY <3>1 DEF HonestAt, Tentative, Creditable
      <3>. QED
        BY <2>2, <3>2 DEF Honest
    <2>7. Secret'
      <3>1. CASE Overwriting(engine)
        <4>1. Epochs(engine, typing_echoes) /\ typing_echoes \in BOOLEAN
          BY <3>1 DEF IInv, Secret, Typed
        <4>2. Epochs(engine', typing_echoes)
          BY <1>1, <1>2, <2>1, <3>1, <4>1, EpochsCulled DEF Overwriting
        <4>3. \A x \in Predictions(engine') :
                 IsSilent(x.cell) => x.cell.epoch > engine'.confirmed_epoch
          BY <4>2 DEF Epochs
        <4>4. Silence(local_framebuffer')
          BY <1>1, <1>2, <2>2, <4>3, ApplySilence
        <4>. QED
          BY <1>1, <4>2, <4>4 DEF Secret
      <3>2. CASE ~Overwriting(engine)
        BY <1>7, <2>2, <3>2 DEF Secret, Overwriting, Alike
      <3>. QED
        BY <3>1, <3>2
    <2>8. JudgedAreGone'
      <3>1. \A i \in DOMAIN engine'.cursors : engine'.cursors[i].expiration > engine'.late
        BY <2>1 DEF Culled
      <3>2. ASSUME NEW i \in DOMAIN engine'.overlays,
                   NEW c \in DOMAIN engine'.overlays[i].cells,
                   engine'.overlays[i].cells[c].active
            PROVE  engine'.overlays[i].cells[c].expiration > engine'.late
        <4>. DEFINE x == [row |-> engine'.overlays[i].row, col |-> c,
                          cell |-> engine'.overlays[i].cells[c]]
        <4>1. x \in Predictions(engine') /\ x.cell = engine'.overlays[i].cells[c]
          BY <3>2, PredictionsIn
        <4>. HIDE DEF x
        <4>2. engine'.late < x.cell.expiration /\ x.cell.expiration \in Nat
          BY <2>1, <2>2, <4>1, PredictionParts DEF Culled
        <4>. QED
          BY <2>2, <4>1, <4>2
      <3>. QED
        BY <3>1, <3>2 DEF JudgedAreGone
    <2>. QED
      BY <1>4, <2>3, <2>4, <2>5, <2>6, <2>7, <2>8 DEF IInv
  <1>. QED
    BY <1>6, <1>7

-----------------------------------------------------------------------------
(* A key *)

\* The engine when it is told of the frame that was sent last.
Told == [engine EXCEPT !.sent = frame_num]

\* Being told of the last frame changes no prediction.
LEMMA ToldFacts ==
    ASSUME IInv, NEW p, p \in {engine, Told}
    PROVE  /\ p \in Engine(engine.size) /\ p.size = engine.size /\ p.sent <= frame_num
           /\ p.overlays = engine.overlays /\ Predictions(p) = Predictions(engine)
           /\ p.confirmed_epoch = engine.confirmed_epoch /\ p.preference = engine.preference
           /\ p.overwrite = engine.overwrite
           /\ Overwriting(p) => Epochs(p, typing_echoes)
           /\ Empty(engine) => Empty(p)
  <1>1. /\ engine \in Engine(engine.size) /\ frame_num \in Nat /\ engine.sent <= frame_num
        /\ engine.sent \in Nat
    BY EngineParts DEF IInv, Typed
  <1>2. CASE p = engine
    BY <1>1, <1>2 DEF IInv, Secret
  <1>3. CASE p = Told
    <2>1. /\ p \in Engine(engine.size) /\ p.size = engine.size /\ p.sent = frame_num
          /\ p.cursors = engine.cursors /\ p.overlays = engine.overlays
          /\ p.confirmed_epoch = engine.confirmed_epoch
          /\ p.prediction_epoch = engine.prediction_epoch
          /\ p.preference = engine.preference /\ p.overwrite = engine.overwrite
      BY <1>1, <1>3 DEF Told, Engine
    <2>2. Predictions(p) = Predictions(engine)
      BY <2>1, SamePredictions
    <2>3. ASSUME Overwriting(p)
          PROVE  Epochs(p, typing_echoes)
      <3>1. Epochs(engine, typing_echoes)
        BY <2>1, <2>3 DEF IInv, Secret, Overwriting
      <3>2. \A x \in Predictions(engine) : x.cell.expiration \in Nat
        BY <1>1, PredictionParts
      <3>3. \A x \in Predictions(engine) : x.cell.expiration <= p.sent + 1
        BY <1>1, <2>1, <3>1, <3>2 DEF Epochs
      <3>. QED
        BY <2>1, <2>2, <3>1, <3>3 DEF Epochs
    <2>. QED
      BY <1>1, <2>1, <2>2, <2>3 DEF Empty
  <1>. QED
    BY <1>2, <1>3

\* What a key leaves of the engine when nothing is predicted.
Idle(q, later) ==
    /\ Empty(q) /\ Predictions(q) = {} /\ q \in Engine(engine.size) /\ q.sent <= frame_num
    /\ q.confirmed_epoch = engine.confirmed_epoch /\ q.preference = engine.preference
    /\ q.overwrite = engine.overwrite
    /\ Overwriting(q) => Epochs(q, later)

\* After a resize or a paste nothing is predicted, and a new epoch may be of either kind.
LEMMA ResetIdle ==
    ASSUME IInv, NEW p, p \in {engine, Told}, NEW q, q = Reset(p), NEW later \in BOOLEAN
    PROVE  Idle(q, later)
  <1>1. /\ p \in Engine(engine.size) /\ p.sent <= frame_num
        /\ p.confirmed_epoch = engine.confirmed_epoch /\ p.preference = engine.preference
        /\ p.overwrite = engine.overwrite
        /\ Overwriting(p) => Epochs(p, typing_echoes)
    BY ToldFacts
  <1>2. /\ q \in Engine(engine.size) /\ Empty(q) /\ Predictions(q) = {} /\ Steady(p, q)
    BY <1>1, ResetFacts
  <1>3. typing_echoes \in BOOLEAN
    BY DEF IInv, Typed
  <1>4. Overwriting(q) => Epochs(q, later)
    <2>1. Overwriting(q) => Overwriting(p) /\ p.preference # "Experimental"
      BY <1>2 DEF Overwriting, Steady, Kept
    <2>. QED
      BY <1>1, <1>3, <2>1, EpochsReset
  <1>. QED
    BY <1>1, <1>2, <1>4 DEF Idle, Steady, Kept

\* A key empties the engine or is a cull by the user's screen and an edit.
LEMMA PredictedFacts ==
    ASSUME IInv, NEW key \in KeyIn, NEW q, q = Predicted(key), NEW later \in BOOLEAN,
           ~ChangesEcho(key) => later = typing_echoes,
           key.kind = "print" => (key.glyph \in Silent <=> ~typing_echoes)
    PROVE  \/ Idle(q, later)
           \/ \E size \in Sizes : \E culled :
                 /\ engine.preference # "Never" /\ local_framebuffer \in ScreenIn(size)
                 /\ Handles(size, Told, q, local_framebuffer, key, culled)
                 /\ Overwriting(q) => Epochs(q, later)
  <1>. DEFINE p == Told
  <1>1. /\ p \in {engine, Told} /\ engine \in {engine, Told}
    OBVIOUS
  <1>2. q = IF key.kind = "resize" THEN Reset(engine)
            ELSE IF key.kind = "paste" THEN Reset(p)
            ELSE NewUserByte(p, local_framebuffer, key)
    BY DEF Predicted, Told
  <1>. HIDE DEF p
  <1>3. CASE key.kind \in {"resize", "paste"}
    BY <1>1, <1>2, <1>3, ResetIdle DEF Idle
  <1>4. CASE key.kind \notin {"resize", "paste"} /\ engine.preference = "Never"
    <2>1. p.preference = "Never" /\ Empty(p)
      BY <1>1, <1>4, ToldFacts DEF IInv, Fitting
    <2>2. q = p
      BY <1>2, <1>4, <2>1 DEF NewUserByte
    <2>3. Predictions(p) = {}
      BY <2>1, NoOverlays DEF Empty
    <2>. QED
      BY <1>1, <1>4, <2>1, <2>2, <2>3, ToldFacts DEF Idle, Overwriting
  <1>5. CASE key.kind \notin {"resize", "paste"} /\ engine.preference # "Never"
    <2>1. /\ p \in Engine(engine.size) /\ p.size = engine.size /\ p.preference = engine.preference
          /\ Overwriting(p) => Epochs(p, typing_echoes)
      BY <1>1, ToldFacts
    <2>2. PICK size \in Sizes : local_framebuffer \in ScreenIn(size)
      BY DEF IInv, Typed, Screens
    <2>3. now \in Nat /\ q = NewUserByte(p, local_framebuffer, key) /\ p \in Engine(p.size)
      BY <1>2, <1>5, <2>1 DEF IInv, Typed
    <2>4. PICK culled : Handles(size, p, q, local_framebuffer, key, culled)
      BY <1>5, <2>1, <2>2, <2>3, NewUserByteFacts
    <2>. DEFINE glyphs == GlyphsOf(key)
    <2>5. /\ Culled(size, p, culled, local_framebuffer) /\ culled \in Engine(size)
          /\ Edited(size, culled, q, local_framebuffer, glyphs)
          /\ Alike(p, culled) /\ Steady(culled, q)
          /\ ChangesEcho(key) /\ p.preference # "Experimental" =>
                q.prediction_epoch > culled.prediction_epoch
      BY <2>4 DEF Handles, Culled, Edited
    <2>6. ASSUME Overwriting(q)
          PROVE  Epochs(q, later)
      <3>1. Overwriting(p) /\ culled.overwrite /\ p.preference # "Experimental" /\ p.overwrite
        BY <2>5, <2>6 DEF Overwriting, Alike, Steady, Kept
      <3>2. Silence(local_framebuffer)
        BY <1>1, <3>1, ToldFacts DEF IInv, Secret
      <3>3. typing_echoes \in BOOLEAN
        BY DEF IInv, Typed
      <3>4. Epochs(culled, typing_echoes)
        BY <2>1, <2>2, <2>3, <2>5, <3>1, <3>2, <3>3, EpochsCulled
      <3>5. /\ \A glyph \in glyphs : glyph \in Silent <=> ~typing_echoes
            /\ \/ later = typing_echoes
               \/ q.prediction_epoch > culled.prediction_epoch /\ glyphs = {}
        <4>1. ChangesEcho(key) => glyphs = {}
          BY DEF ChangesEcho, GlyphsOf
        <4>2. \A glyph \in glyphs : glyph \in Silent <=> ~typing_echoes
          BY DEF GlyphsOf
        <4>. QED
          BY <2>5, <3>1, <4>1, <4>2
      <3>. HIDE DEF glyphs
      <3>. QED
        BY <2>5, <3>1, <3>3, <3>4, <3>5, EpochsEdited
    <2>. QED
      BY <1>5, <2>2, <2>4, <2>6 DEF p
  <1>. QED
    BY <1>3, <1>4, <1>5

LEMMA TypeFacts ==
    ASSUME IInv, NEW key \in Key, engine' = Predicted(key), keys' = Append(keys, key),
           typing_echoes' = IF ChangesEcho(key) THEN key.echo ELSE typing_echoes
    PROVE  /\ key \in KeyIn /\ typing_echoes' \in BOOLEAN
           /\ ~ChangesEcho(key) => typing_echoes' = typing_echoes
           /\ key.kind \in {"print", "paste"} => (key.glyph \in Silent <=> ~typing_echoes)
           /\ \/ Idle(engine', typing_echoes')
              \/ \E size \in Sizes : \E culled :
                    /\ engine.preference # "Never" /\ local_framebuffer \in ScreenIn(size)
                    /\ Handles(size, Told, engine', local_framebuffer, key, culled)
                    /\ Overwriting(engine') => Epochs(engine', typing_echoes')
  <1>1. typing_echoes \in BOOLEAN /\ Echoed \cap Silent = {}
    BY PredictionAssumption DEF IInv, Typed
  <1>2. /\ key \in KeyIn
        /\ key.kind \in {"print", "paste"} => (key.glyph \in Silent <=> ~typing_echoes)
        /\ ChangesEcho(key) => key.echo \in BOOLEAN
    <2>1. CASE key \in [kind : {"print", "paste"}, glyph : IF typing_echoes THEN Echoed ELSE Silent]
      BY <1>1, <2>1 DEF KeyIn, ChangesEcho
    <2>2. CASE key \in [kind : {"return", "control"}, echo : BOOLEAN]
      BY <2>2 DEF KeyIn, ChangesEcho
    <2>3. CASE key \in [kind : {"resize"}, size : Sizes]
      BY <2>3 DEF KeyIn, ChangesEcho
    <2>4. CASE key \in [kind : {"backspace", "wide", "right", "left"}]
      BY <2>4 DEF KeyIn, ChangesEcho
    <2>. QED
      BY <2>1, <2>2, <2>3, <2>4 DEF Key
  <1>3. typing_echoes' \in BOOLEAN /\ (~ChangesEcho(key) => typing_echoes' = typing_echoes)
    BY <1>1, <1>2
  <1>. QED
    BY <1>2, <1>3, PredictedFacts

LEMMA TypeHost ==
    ASSUME IInv, NEW key \in KeyIn, keys' = Append(keys, key),
           UNCHANGED <<host_echoes, screen, latest, host_framebuffer>>,
           typing_echoes' = IF ChangesEcho(key) THEN key.echo ELSE typing_echoes,
           key.kind \in {"print", "paste"} => (key.glyph \in Silent <=> ~typing_echoes)
    PROVE  HostIsSilent'
  <1>1. PICK n \in Nat : n = Len(keys)
    BY DEF IInv, Typed
  <1>2. /\ keys \in Seq(KeyIn) /\ Len(keys') = n + 1 /\ keys'[n + 1] = key
        /\ DOMAIN keys = 1 .. n /\ DOMAIN keys' = 1 .. n + 1
        /\ \A i \in 1 .. n : keys'[i] = keys[i]
    BY <1>1 DEF IInv, Typed
  <1>3. /\ \A i \in 1 .. n + 1 : Quiet(i) => Quiet(i)'
        /\ Quiet(n + 1) /\ ~ChangesEcho(key) => Quiet(n + 2)'
        /\ ChangesEcho(key) /\ ~key.echo => Quiet(n + 2)'
    BY <1>1, <1>2, QuietAppend
  <1>4. ~typing_echoes => Quiet(n + 1)
    BY <1>1 DEF IInv, HostIsSilent
  <1>5. ASSUME NEW i \in DOMAIN keys', keys'[i].kind \in {"print", "paste"},
               keys'[i].glyph \in Silent
        PROVE  Quiet(i)'
    <2>1. CASE i \in 1 .. n
      <3>1. Quiet(i)
        BY <1>2, <1>5, <2>1 DEF IInv, HostIsSilent
      <3>. QED
        BY <1>3, <2>1, <3>1
    <2>2. CASE i = n + 1
      BY <1>2, <1>3, <1>4, <1>5, <2>2
    <2>. QED
      BY <1>2, <2>1, <2>2
  <1>6. ~typing_echoes' => Quiet(n + 2)'
    BY <1>3, <1>4
  <1>7. ~typing_echoes' => Quiet(Len(keys) + 1)'
    <2>1. Len(keys') + 1 = n + 2
      BY <1>2
    <2>. QED
      BY <1>6, <2>1 DEF Quiet
  <1>8. Silence(screen)' /\ Silence(latest.fb)' /\ Silence(host_framebuffer)'
    BY DEF IInv, HostIsSilent, Silence
  <1>. QED
    BY <1>5, <1>7, <1>8 DEF HostIsSilent

LEMMA IdleIInv ==
    ASSUME IInv, Idle(engine', typing_echoes'), UNCHANGED <<local_framebuffer, host_framebuffer>>
    PROVE  Fitting' /\ LookedAt' /\ Honest' /\ Secret' /\ engine' \in Engine(engine'.size)
  <1>1. engine \in Engine(engine.size) /\ engine'.size = engine.size
    BY EngineParts DEF Idle, IInv, Typed
  <1>2. Fitting'
    BY DEF Fitting, Idle, Empty
  <1>3. LookedAt'
    BY DEF LookedAt, Idle
  <1>4. Honest'
    BY DEF Honest, Idle, DistinctRows, Empty
  <1>5. Secret'
    BY DEF Secret, Idle, IInv, Silence
  <1>. QED
    BY <1>1, <1>2, <1>3, <1>4, <1>5 DEF Idle

\* A key that is predicted: what it adds is not on the screen yet, and of the present epoch.
LEMMA HandlesIInv ==
    ASSUME IInv, NEW key \in KeyIn, NEW size \in Sizes, NEW culled, engine.preference # "Never",
           local_framebuffer \in ScreenIn(size),
           Handles(size, Told, engine', local_framebuffer, key, culled),
           Overwriting(engine') => Epochs(engine', typing_echoes'),
           UNCHANGED <<local_framebuffer, host_framebuffer, now>>, phase' = "typed"
    PROVE  /\ Fitting' /\ LookedAt' /\ Honest' /\ Secret'
           /\ engine' \in Engine(engine'.size) /\ engine'.sent <= frame_num
  <1>. DEFINE p == Told
              q == engine'
              fb == local_framebuffer
  <1>1. /\ p.preference = engine.preference /\ p.overwrite = engine.overwrite
        /\ p.overlays = engine.overlays /\ Predictions(p) = Predictions(engine)
        /\ p.confirmed_epoch = engine.confirmed_epoch /\ p.sent <= frame_num
        /\ p \in Engine(engine.size)
    BY ToldFacts
  <1>2. /\ Culled(size, p, culled, fb) /\ Edited(size, culled, q, fb, GlyphsOf(key))
        /\ culled \in Engine(size) /\ Alike(p, culled)
        /\ Predictions(culled) \subseteq Predictions(p)
        /\ Steady(culled, q) /\ q \in Engine(size) /\ Credit(p, culled, fb)
    BY DEF Handles, Culled, Edited
  <1>3. /\ q.size = size /\ fb.size = size /\ q.preference # "Never" /\ q.sent <= frame_num
        /\ q.preference = engine.preference /\ q.overwrite = engine.overwrite
        /\ q.confirmed_epoch >= engine.confirmed_epoch
        /\ q.confirmed_epoch \in Nat /\ engine.confirmed_epoch \in Nat
        /\ q.glitch_trigger = culled.glitch_trigger /\ now \in Nat
    <2>1. engine \in Engine(engine.size) /\ now \in Nat
      BY DEF IInv, Typed
    <2>. QED
      BY <1>1, <1>2, <2>1, EngineParts, Sized DEF Alike, Steady, Kept, Credit
  <1>4. \A x \in Predictions(q) :
           x \in Predictions(culled) \/ New(culled, q, fb, GlyphsOf(key), x)
    BY <1>2 DEF Edited
  <1>5. Fitting'
    BY <1>3 DEF Fitting
  <1>6. LookedAt'
    <2>1. ASSUME NEW x \in Predictions(q)
          PROVE  Timely(q, now - 1, x)
      <3>1. x.cell.time \in Nat /\ GLITCH_THRESHOLD \in Nat /\ GLITCH_FLAG_THRESHOLD \in Nat
        BY <1>2, PredictionParts, Constants
      <3>2. CASE x \in Predictions(culled)
        <4>1. Timely(culled, now, x)
          BY <1>2, <3>2 DEF Culled
        <4>. QED
          BY <1>3, <3>1, <4>1 DEF Timely
      <3>3. CASE New(culled, q, fb, GlyphsOf(key), x)
        BY <1>3, <3>1, <3>3 DEF Timely, New
      <3>. QED
        BY <1>4, <3>2, <3>3
    <2>. QED
      BY <2>1 DEF LookedAt, Timely
  <1>7. Honest'
    <2>1. DistinctRows(q)
      <3>1. DistinctRows(p)
        BY <1>1 DEF IInv, Honest, DistinctRows
      <3>. QED
        BY <1>2, <3>1 DEF Culled, Edited
    <2>2. ASSUME NEW x \in Predictions(q)
          PROVE  HonestAt(x)'
      <3>1. CASE x \in Predictions(culled)
        <4>1. HonestAt(x)
          BY <1>1, <1>2, <3>1 DEF IInv, Honest
        <4>2. x.cell.epoch \in Nat
          BY <1>2, PredictionParts
        <4>3. Tentative(x.cell, q.confirmed_epoch) => Tentative(x.cell, engine.confirmed_epoch)
          BY <1>3, <4>2 DEF Tentative
        <4>. QED
          BY <4>1, <4>3 DEF HonestAt, Creditable, Tentative
      <3>2. CASE New(culled, q, fb, GlyphsOf(key), x)
        BY <3>2 DEF New, HonestAt, Creditable
      <3>. QED
        BY <1>4, <3>1, <3>2
    <2>. QED
      BY <2>1, <2>2 DEF Honest
  <1>8. Secret'
    <2>1. Silence(local_framebuffer)' <=> Silence(local_framebuffer)
      BY DEF Silence
    <2>. QED
      BY <1>3, <2>1 DEF IInv, Secret
  <1>. QED
    BY <1>2, <1>3, <1>5, <1>6, <1>7, <1>8

\* process_user_input
LEMMA TypeIInv ==
    ASSUME IInv, Type PROVE IInv'
  <1>1. PICK key \in Key :
           /\ engine' = Predicted(key) /\ keys' = Append(keys, key) /\ unsent' = unsent + 1
           /\ typing_echoes' = IF ChangesEcho(key) THEN key.echo ELSE typing_echoes
           /\ typed' = typed + 1
    BY DEF Type
  <1>2. /\ phase' = "typed"
        /\ UNCHANGED <<local_framebuffer, latest, now, frame_num, screen, host_echoes, echo_ack,
                       host_framebuffer>>
    BY DEF Type, server
  <1>3. /\ key \in KeyIn /\ typing_echoes' \in BOOLEAN
        /\ key.kind \in {"print", "paste"} => (key.glyph \in Silent <=> ~typing_echoes)
        /\ \/ Idle(engine', typing_echoes')
           \/ \E size \in Sizes : \E culled :
                 /\ engine.preference # "Never" /\ local_framebuffer \in ScreenIn(size)
                 /\ Handles(size, Told, engine', local_framebuffer, key, culled)
                 /\ Overwriting(engine') => Epochs(engine', typing_echoes')
    BY <1>1, TypeFacts
  <1>4. /\ Fitting' /\ LookedAt' /\ Honest' /\ Secret'
        /\ engine' \in Engine(engine'.size) /\ engine'.sent <= frame_num
    <2>1. CASE Idle(engine', typing_echoes')
      BY <1>2, <2>1, IdleIInv DEF Idle
    <2>2. ASSUME NEW size \in Sizes, NEW culled, engine.preference # "Never",
                 local_framebuffer \in ScreenIn(size),
                 Handles(size, Told, engine', local_framebuffer, key, culled),
                 Overwriting(engine') => Epochs(engine', typing_echoes')
          PROVE  /\ Fitting' /\ LookedAt' /\ Honest' /\ Secret'
                 /\ engine' \in Engine(engine'.size) /\ engine'.sent <= frame_num
      BY <1>2, <1>3, <2>2, HandlesIInv
    <2>. QED
      BY <1>3, <2>1, <2>2
  <1>5. HostIsSilent'
    BY <1>1, <1>2, <1>3, TypeHost
  <1>6. Typed'
    <2>1. keys' \in Seq(KeyIn) /\ unsent' \in Nat /\ typed' \in Nat
      BY <1>1, <1>3 DEF IInv, Typed
    <2>. QED
      BY <1>2, <1>3, <1>4, <2>1 DEF IInv, Typed
  <1>7. JudgedAreGone'
    BY <1>2 DEF JudgedAreGone
  <1>. QED
    BY <1>4, <1>5, <1>6, <1>7 DEF IInv

-----------------------------------------------------------------------------
(* The theorems *)

LEMMA NextIInv ==
    ASSUME IInv, [Next]_vars PROVE IInv'
  <1>1. CASE Wait
    BY <1>1, WaitIInv
  <1>2. CASE Hear
    BY <1>2, HearIInv
  <1>3. CASE Type
    BY <1>3, TypeIInv
  <1>4. CASE Iterate
    BY <1>4, IterateIInv
  <1>5. CASE Host
    BY <1>5, HostIInv
  <1>6. CASE EchoAck
    BY <1>6, EchoAckIInv
  <1>7. CASE UNCHANGED vars
    BY <1>7, StutterIInv
  <1>. QED
    BY <1>1, <1>2, <1>3, <1>4, <1>5, <1>6, <1>7 DEF Next

(***************************************************************************)
(* The inductive invariant holds of every behaviour of the main loop.      *)
(***************************************************************************)
THEOREM Invariance == Spec => []IInv
  <1>1. Init => IInv
    BY InitIInv
  <1>2. IInv /\ [Next]_vars => IInv'
    BY NextIInv
  <1>. QED
    BY <1>1, <1>2, PTL DEF Spec

(***************************************************************************)
(* What apply and new_user_byte assert, and how they index cells: every    *)
(* prediction lies within the screen the user sees.                        *)
(***************************************************************************)
THEOREM FitTheScreen == Spec => []PredictionsFit
  <1>1. IInv => PredictionsFit
    <2>. SUFFICES ASSUME IInv PROVE PredictionsFit
      OBVIOUS
    <2>1. CASE Empty(engine)
      BY <2>1 DEF Empty, PredictionsFit
    <2>2. CASE engine.size = local_framebuffer.size
      <3>1. PICK size \in Sizes : local_framebuffer \in ScreenIn(size)
        BY DEF IInv, Typed, Screens
      <3>2. /\ engine \in Engine(size) /\ Height(local_framebuffer) = size[1]
            /\ Width(local_framebuffer) = size[2]
        BY <2>2, <3>1, Sized DEF IInv, Typed
      <3>3. engine.cursors \in Seq(CursorMove(size)) /\ engine.overlays \in Seq(OverlayRow(size))
        BY <3>2, EngineParts
      <3>4. \A i \in DOMAIN engine.cursors : engine.cursors[i] \in CursorMove(size)
        BY <3>3
      <3>5. \A i \in DOMAIN engine.overlays : engine.overlays[i] \in OverlayRow(size)
        BY <3>3
      <3>. QED
        BY <3>2, <3>4, <3>5 DEF PredictionsFit, OnScreen, CursorMove, OverlayRow
    <2>. QED
      BY <2>1, <2>2 DEF IInv, Fitting
  <1>. QED
    BY <1>1, Invariance, PTL

(***************************************************************************)
(* Once output_new_frame has drawn, cull has left nothing that the server's*)
(* echo ack lets be judged.                                                *)
(***************************************************************************)
THEOREM NothingToJudge == Spec => []JudgedAreGone
  <1>1. IInv => JudgedAreGone
    BY DEF IInv
  <1>. QED
    BY <1>1, Invariance, PTL

(***************************************************************************)
(* What is typed into a host that does not echo is never on the user's     *)
(* screen, of an engine that overwrites: typed in later epochs than what is*)
(* judged before it, its predictions stay tentative.                       *)
(***************************************************************************)
THEOREM SilenceKept == Spec => []SilenceIsKept
  <1>1. IInv => SilenceIsKept
    <2>. SUFFICES ASSUME IInv, engine.overwrite /\ engine.preference # "Experimental",
                         NEW row \in Rows(Height(local_framebuffer))
                  PROVE  Range(local_framebuffer.cells[row]) \cap Silent = {}
      BY DEF SilenceIsKept
    <2>1. PICK size \in Sizes : local_framebuffer \in ScreenIn(size)
      BY DEF IInv, Typed, Screens
    <2>2. row \in DOMAIN local_framebuffer.cells
      BY <2>1, Sized
    <2>3. \A col \in DOMAIN local_framebuffer.cells[row] :
             local_framebuffer.cells[row][col] \notin Silent
      BY <2>2 DEF IInv, Secret, Silence
    <2>. QED
      BY <2>3 DEF Range
  <1>. QED
    BY <1>1, Invariance, PTL

(***************************************************************************)
(* Predictions pending for long are shown, for very long underlined: the   *)
(* glitch trigger is raised in time by cull and never worn off too soon.   *)
(***************************************************************************)
THEOREM LateShown == Spec => []LatePredictionsShow
  <1>1. IInv => LatePredictionsShow
    <2>. SUFFICES ASSUME IInv, engine.preference # "Never" PROVE LatePredictionsShow
      BY DEF LatePredictionsShow
    <2>1. /\ engine \in Engine(engine.size) /\ now \in Nat /\ engine.glitch_trigger \in Nat
          /\ GLITCH_THRESHOLD \in Nat /\ GLITCH_FLAG_THRESHOLD \in Nat
          /\ GLITCH_REPAIR_COUNT \in Nat
      BY EngineParts, Constants DEF IInv, Typed
    <2>2. CASE Underlined(engine)
      BY <2>2 DEF Underlined, LatePredictionsShow
    <2>3. CASE \A x \in Predictions(engine) :
                  Timely(engine, IF phase = "select" THEN now ELSE now - 1, x)
      <3>1. ASSUME NEW age \in Nat, PendingSince(age)
            PROVE  \E x \in Predictions(engine) : now - x.cell.time > age
        <4>0. PICK i \in DOMAIN engine.overlays : \E c \in DOMAIN engine.overlays[i].cells :
                 engine.overlays[i].cells[c].active /\ now - engine.overlays[i].cells[c].time > age
          BY <3>1 DEF PendingSince
        <4>1. PICK c \in DOMAIN engine.overlays[i].cells :
                 engine.overlays[i].cells[c].active /\ now - engine.overlays[i].cells[c].time > age
          BY <4>0
        <4>. DEFINE x == [row |-> engine.overlays[i].row, col |-> c,
                          cell |-> engine.overlays[i].cells[c]]
        <4>2. x \in Predictions(engine) /\ x.cell = engine.overlays[i].cells[c]
          BY <4>1, PredictionsIn
        <4>. HIDE DEF x
        <4>. QED
          BY <4>1, <4>2
      <3>2. ASSUME NEW x \in Predictions(engine), NEW age \in Nat, now - x.cell.time > age
            PROVE  \/ phase = "select" /\ now - x.cell.time >= age
                   \/ phase # "select" /\ (now - 1) - x.cell.time >= age
        <4>1. x.cell.time \in Nat
          BY <2>1, PredictionParts
        <4>. QED
          BY <2>1, <3>2, <4>1
      <3>3. PendingSince(GLITCH_THRESHOLD) => engine.glitch_trigger > 0
        BY <2>1, <2>3, <3>1, <3>2 DEF Timely
      <3>4. PendingSince(GLITCH_FLAG_THRESHOLD) => engine.glitch_trigger > GLITCH_REPAIR_COUNT
        BY <2>1, <2>3, <3>1, <3>2 DEF Timely
      <3>. QED
        BY <3>3, <3>4 DEF LatePredictionsShow
    <2>. QED
      BY <2>2, <2>3 DEF IInv, LookedAt
  <1>. QED
    BY <1>1, Invariance, PTL

\* What a step that confirms an epoch confirms it by.
Confirmed ==
    engine'.confirmed_epoch > engine.confirmed_epoch =>
        \E x \in Predictions(engine) :
            /\ x.cell.active /\ x.cell.epoch = engine'.confirmed_epoch
            /\ host_framebuffer'.cells[x.row][x.col] = x.cell.replacement
            /\ x.cell.replacement # Blank

LEMMA TypeConfirms ==
    ASSUME IInv, Type PROVE Confirmed
  <1>1. PICK key \in Key :
           /\ engine' = Predicted(key) /\ keys' = Append(keys, key)
           /\ typing_echoes' = IF ChangesEcho(key) THEN key.echo ELSE typing_echoes
    BY DEF Type
  <1>2. host_framebuffer' = host_framebuffer
    BY DEF Type
  <1>3. \/ Idle(engine', typing_echoes')
        \/ \E size \in Sizes : \E culled :
              /\ engine.preference # "Never" /\ local_framebuffer \in ScreenIn(size)
              /\ Handles(size, Told, engine', local_framebuffer, key, culled)
              /\ Overwriting(engine') => Epochs(engine', typing_echoes')
    BY <1>1, TypeFacts
  <1>4. engine \in Engine(engine.size) /\ engine.confirmed_epoch \in Nat
    BY EngineParts DEF IInv, Typed
  <1>5. CASE Idle(engine', typing_echoes')
    BY <1>4, <1>5 DEF Idle, Confirmed
  <1>6. ASSUME NEW size \in Sizes, NEW culled,
               Handles(size, Told, engine', local_framebuffer, key, culled),
               engine'.confirmed_epoch > engine.confirmed_epoch
        PROVE  Confirmed
    <2>1. /\ Predictions(Told) = Predictions(engine)
          /\ Told.confirmed_epoch = engine.confirmed_epoch
      BY ToldFacts
    <2>2. /\ Credit(Told, culled, local_framebuffer)
          /\ engine'.confirmed_epoch = culled.confirmed_epoch
      BY <1>6 DEF Handles, Culled, Edited, Steady
    <2>3. PICK x \in Predictions(engine) :
             /\ Creditable(x.cell) /\ x.cell.epoch = engine'.confirmed_epoch
             /\ local_framebuffer.cells[x.row][x.col] = x.cell.replacement
      BY <1>4, <1>6, <2>1, <2>2 DEF Credit
    <2>4. Tentative(x.cell, engine.confirmed_epoch)
      BY <1>6, <2>3 DEF Tentative
    <2>5. host_framebuffer.cells[x.row][x.col] = x.cell.replacement
      BY <2>3, <2>4 DEF IInv, Honest, HonestAt
    <2>6. x.cell.active
      BY <1>4, PredictionParts
    <2>. QED
      BY <1>2, <2>3, <2>5, <2>6 DEF Confirmed, Creditable
  <1>. QED
    BY <1>3, <1>5, <1>6 DEF Confirmed

LEMMA IterateConfirms ==
    ASSUME IInv, Iterate PROVE Confirmed
  <1>1. /\ latest.fb \in Screens /\ host_framebuffer' = latest.fb
        /\ engine \in Engine(engine.size)
        /\ engine.preference = "Never" => engine' = engine
        /\ engine.preference # "Never" =>
              \A size \in Sizes : latest.fb \in ScreenIn(size) =>
                  Culled(size, engine, engine', latest.fb)
    BY IterateFacts
  <1>2. PICK size \in Sizes : latest.fb \in ScreenIn(size)
    BY <1>1 DEF Screens
  <1>3. engine.confirmed_epoch \in Nat
    BY <1>1, EngineParts
  <1>4. CASE engine' = engine
    BY <1>3, <1>4 DEF Confirmed
  <1>5. CASE Culled(size, engine, engine', latest.fb)
    <2>1. Credit(engine, engine', latest.fb)
      BY <1>5 DEF Culled
    <2>2. \A x \in Predictions(engine) : x.cell.active
      BY <1>1, PredictionParts
    <2>. QED
      BY <1>1, <1>3, <2>1, <2>2 DEF Credit, Confirmed, Creditable
  <1>. QED
    BY <1>1, <1>2, <1>4, <1>5

(***************************************************************************)
(* An epoch is confirmed by a cell of the host's own screen: what cull     *)
(* finds on the screen the user sees, no other prediction has put there.   *)
(***************************************************************************)
THEOREM CreditEarned == Spec => CreditIsTheHosts
  <1>1. IInv /\ [Next]_vars =>
           [engine'.confirmed_epoch > engine.confirmed_epoch =>
              \E i \in DOMAIN engine.overlays : \E c \in DOMAIN engine.overlays[i].cells :
                 LET cell == engine.overlays[i].cells[c] IN
                 /\ cell.active /\ cell.epoch = engine'.confirmed_epoch
                 /\ host_framebuffer'.cells[engine.overlays[i].row][c] = cell.replacement
                 /\ cell.replacement # Blank]_vars
    <2>. SUFFICES ASSUME IInv, Next, engine'.confirmed_epoch > engine.confirmed_epoch
                  PROVE  \E i \in DOMAIN engine.overlays :
                            \E c \in DOMAIN engine.overlays[i].cells :
                               LET cell == engine.overlays[i].cells[c] IN
                               /\ cell.active /\ cell.epoch = engine'.confirmed_epoch
                               /\ host_framebuffer'.cells[engine.overlays[i].row][c] =
                                     cell.replacement
                               /\ cell.replacement # Blank
      OBVIOUS
    <2>1. engine \in Engine(engine.size) /\ engine.confirmed_epoch \in Nat
      BY EngineParts DEF IInv, Typed
    <2>4. Confirmed
      <3>1. CASE Type
        BY <3>1, TypeConfirms
      <3>2. CASE Iterate
        BY <3>2, IterateConfirms
      <3>3. CASE Hear
        BY <2>1, <3>3 DEF Hear, Hinted, Engine, Confirmed
      <3>4. CASE Wait \/ Host \/ EchoAck
        BY <2>1, <3>4 DEF Wait, Host, EchoAck, Confirmed
      <3>. QED
        BY <3>1, <3>2, <3>3, <3>4 DEF Next
    <2>5. PICK x \in Predictions(engine) :
             /\ x.cell.active /\ x.cell.epoch = engine'.confirmed_epoch
             /\ host_framebuffer'.cells[x.row][x.col] = x.cell.replacement
             /\ x.cell.replacement # Blank
      BY <2>4 DEF Confirmed
    <2>6. PICK i \in DOMAIN engine.overlays : \E c \in DOMAIN engine.overlays[i].cells :
             x = [row |-> engine.overlays[i].row, col |-> c,
                  cell |-> engine.overlays[i].cells[c]]
      BY <2>5, PredictionsIn
    <2>7. PICK c \in DOMAIN engine.overlays[i].cells :
             x = [row |-> engine.overlays[i].row, col |-> c,
                  cell |-> engine.overlays[i].cells[c]]
      BY <2>6
    <2>. QED
      BY <2>5, <2>7
  <1>. QED
    BY <1>1, Invariance, PTL DEF Spec, CreditIsTheHosts
=============================================================================
