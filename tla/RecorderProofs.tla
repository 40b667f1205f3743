--------------------------- MODULE RecorderProofs ---------------------------
(***************************************************************************)
(* Proofs about the command recorder.  A chunk is fed cell by cell, which  *)
(* is a fold: what holds of every cell holds of a chunk of any length by   *)
(* an induction over the chunk, with a set in the place of the predicate.  *)
(***************************************************************************)
EXTENDS Recorder, FoldProofs, FiniteSetTheorems, SequenceTheorems, TLAPS

-----------------------------------------------------------------------------
(* Types.                                                                  *)

Bytes == (Keys \ {"up"}) \cup {"esc", "[", "A"}
Outputs == Cells \cup {"lf", "cr", "bs", "el"}

(* A recorder whose column has not left its line.                          *)
Recorders ==
    {r \in [typed : Seq(Text), pending : Seq(Text) \cup {NothingPending},
            unreliable : BOOLEAN, escaping : BOOLEAN, escape : Seq(Bytes),
            line : Seq(Cells), col : Nat] : r.col <= Len(r.line)}

Commands == {c \in Seq(Cells) : Len(c) \in 1..MaxCommandLen}

Shells ==
    [mode : {"prompt", "secret", "running"}, buffer : Seq(Text),
     prompt : {"prompt", "other prompt"}, parsed : BOOLEAN, recalled : BOOLEAN,
     last : Seq(Text)]

RelayType ==
    /\ rec \in Recorders
    /\ emitting \in Seq(Commands) /\ recorded \in Seq(Commands)
    /\ ended \in BOOLEAN

RemoteType ==
    /\ keys \in Seq(Keys) /\ screen \in Seq(Outputs)
    /\ shell \in Shells
    /\ submitted \in Seq(Commands)

HistoryType == pressed \in Nat /\ entered \in Nat /\ doubt \subseteq Doubts

TypeInv == RelayType /\ RemoteType /\ HistoryType

-----------------------------------------------------------------------------
(* Lines.                                                                  *)

LEMMA MaxOfSome ==
    ASSUME NEW n \in Nat, NEW S, S \subseteq 0..n, S # {}
    PROVE  Max(S) \in S /\ \A x \in S : x <= Max(S)
<1> DEFINE T == {n - x : x \in S}
<1>1. T \subseteq Nat /\ T # {}
  <2>1. \A x \in S : n - x \in Nat
    OBVIOUS
  <2>2. PICK x \in S : TRUE
    OBVIOUS
  <2>3. n - x \in T
    BY <2>2
  <2> QED
    BY <2>1, <2>3
<1>2. PICK t \in T : \A m \in T : t <= m
  BY <1>1, LeastElement
<1>3. PICK x \in S : t = n - x
  BY <1>2
<1>4. \A y \in S : x >= y
  <2> SUFFICES ASSUME NEW y \in S PROVE x >= y
    OBVIOUS
  <2>1. n - y \in T
    OBVIOUS
  <2>2. n - x <= n - y
    BY <1>2, <1>3, <2>1
  <2> QED
    BY <2>2
<1>5. \A y \in S : Max(S) >= y
  BY <1>4 DEF Max
<1>6. Max(S) \in S
  BY <1>4 DEF Max
<1> QED
  BY <1>5, <1>6

LEMMA MinOfSome ==
    ASSUME NEW S, S \subseteq Nat, S # {}
    PROVE  Min(S) \in S /\ \A x \in S : Min(S) <= x
<1>1. \E n \in S : \A m \in S : n =< m
  BY LeastElement
<1> QED
  BY <1>1 DEF Min

LEMMA PartTyped ==
    ASSUME NEW S, NEW s \in Seq(S), NEW m \in Nat \ {0}, NEW n \in 0..Len(s)
    PROVE  SubSeq(s, m, n) \in Seq(S) /\ Len(SubSeq(s, m, n)) <= Len(s)
<1>1. \A i \in m .. n : s[i] \in S
  OBVIOUS
<1> QED
  BY <1>1, SubSeqProperties

LEMMA StripTyped ==
    ASSUME NEW S, NEW s \in Seq(S)
    PROVE  Strip(s) \in Seq(S)
<1> DEFINE ink == {i \in DOMAIN s : s[i] # Space}
<1>1. CASE ink = {}
  BY <1>1 DEF Strip
<1>2. CASE ink # {}
  <2>1. ink \subseteq 1..Len(s) /\ Len(s) \in Nat
    OBVIOUS
  <2>2. Min(ink) \in 1..Len(s)
    BY <2>1, <1>2, MinOfSome
  <2>3. Max(ink) \in 1..Len(s)
    <3>1. ink \subseteq 0..Len(s)
      BY <2>1
    <3>2. Max(ink) \in ink
      BY <2>1, <3>1, <1>2, MaxOfSome
    <3> QED
      BY <2>1, <3>2
  <2> HIDE DEF ink
  <2>4. SubSeq(s, Min(ink), Max(ink)) \in Seq(S)
    <3>1. Min(ink) \in Nat \ {0} /\ Max(ink) \in 0..Len(s)
      BY <2>1, <2>2, <2>3
    <3> QED
      BY <3>1, PartTyped
  <2> USE DEF ink
  <2> QED
    BY <2>4, <1>2 DEF Strip
<1> QED
  BY <1>1, <1>2

LEMMA DeleteWordTyped ==
    ASSUME NEW S, NEW s \in Seq(S)
    PROVE  DeleteWord(s) \in Seq(S)
<1> DEFINE ink == {i \in DOMAIN s : s[i] # Space}
           word == IF ink = {} THEN 0 ELSE Max(ink)
           spaces == {i \in 1..word : s[i] = Space}
           end == IF spaces = {} THEN 0 ELSE Max(spaces)
<1>1. ink \subseteq 0..Len(s) /\ Len(s) \in Nat
  OBVIOUS
<1>2. word \in 0..Len(s)
  <2> HIDE DEF ink
  <2>1. ink # {} => Max(ink) \in ink
    BY <1>1, MaxOfSome
  <2>2. ink # {} => Max(ink) \in 0..Len(s)
    BY <2>1, <1>1
  <2>3. 0 \in 0..Len(s)
    BY <1>1
  <2> QED
    BY <2>2, <2>3, Zenon
<1> HIDE DEF word
<1>3. spaces \subseteq 0..Len(s)
  BY <1>1, <1>2
<1>4. end \in 0..Len(s)
  <2> HIDE DEF spaces
  <2>1. spaces # {} => Max(spaces) \in spaces
    BY <1>1, <1>3, MaxOfSome
  <2>2. spaces # {} => Max(spaces) \in 0..Len(s)
    BY <2>1, <1>3
  <2>3. 0 \in 0..Len(s)
    BY <1>1
  <2> QED
    BY <2>2, <2>3, Zenon
<1>5. DeleteWord(s) = SubSeq(s, 1, end)
  BY DEF DeleteWord, word
<1> HIDE DEF end
<1> QED
  BY <1>4, <1>5, PartTyped

LEMMA WithoutLastTyped ==
    ASSUME NEW S, NEW s \in Seq(S)
    PROVE  WithoutLast(s) \in Seq(S)
<1>1. CASE s = <<>>
  BY <1>1, SubSeqEmpty DEF WithoutLast
<1>2. CASE s # <<>>
  <2>1. Len(s) - 1 \in 0..Len(s)
    BY <1>2, EmptySeq
  <2> QED
    BY <2>1, PartTyped DEF WithoutLast
<1> QED
  BY <1>1, <1>2

-----------------------------------------------------------------------------
(* Folds over keystrokes and over cells.                                   *)

LEMMA UptoNext ==
    ASSUME NEW k \in Nat
    PROVE  /\ 1..(k + 1) # {} /\ Max(1..(k + 1)) = k + 1
           /\ (1..(k + 1)) \ {k + 1} = 1..k
<1>1. \A y \in 1..(k + 1) : k + 1 >= y
  OBVIOUS
<1>2. Max(1..(k + 1)) \in 1..(k + 1) /\ \A y \in 1..(k + 1) : Max(1..(k + 1)) >= y
  BY <1>1 DEF Max
<1> QED
  BY <1>2

LEMMA FedBytes ==
    ASSUME NEW B, NEW bytes \in Seq(B), NEW Typ, NEW r \in Typ,
           \A b \in B : \A t \in Typ : FeedByte(t, b) \in Typ
    PROVE  FeedInput(r, bytes) \in Typ
<1> DEFINE S == DOMAIN bytes
           step == [p \in B \X Typ |-> FeedByte(p[2], p[1])]
           stepAt == [p \in S \X Typ |-> step[<<bytes[p[1]], p[2]>>]]
           pick == [T \in SUBSET S |-> Max(T)]
           Solves(f) == f = [T \in SUBSET S |->
              IF T = {} THEN r ELSE FeedByte(f[T \ {Max(T)}], bytes[Max(T)])]
           solution == CHOOSE f : Solves(f)
<1>1. IsFiniteSet(S)
  BY FS_Interval
<1>2. \A T \in SUBSET S : T # {} => Max(T) \in T
  <2>1. S \subseteq 0..Len(bytes) /\ Len(bytes) \in Nat
    OBVIOUS
  <2> QED
    BY <2>1, MaxOfSome
<1>3. step \in [B \X Typ -> Typ]
  OBVIOUS
<1> HIDE DEF S
<1>4. stepAt \in [S \X Typ -> Typ]
  BY <1>3 DEF S
<1>5. PICK iter \in [SUBSET S -> Typ] : FoldEquation(iter, S, r, stepAt, pick)
  <2> HIDE DEF stepAt
  <2> QED
    BY <1>1, <1>2, <1>4, FoldExists
<1>6. \A T \in SUBSET S :
         iter[T] = IF T = {} THEN r ELSE FeedByte(iter[T \ {Max(T)}], bytes[Max(T)])
  <2> SUFFICES ASSUME NEW T \in SUBSET S
               PROVE  iter[T] = IF T = {} THEN r
                                ELSE FeedByte(iter[T \ {Max(T)}], bytes[Max(T)])
    OBVIOUS
  <2>1. iter[T] = IF T = {} THEN r ELSE stepAt[<<pick[T], iter[T \ {pick[T]}]>>]
    BY <1>5 DEF FoldEquation
  <2>2. T # {} => /\ pick[T] = Max(T) /\ Max(T) \in S
                  /\ iter[T \ {Max(T)}] \in Typ /\ bytes[Max(T)] \in B
    BY <1>2 DEF S
  <2> QED
    BY <2>1, <2>2
<1>7. Solves(iter)
  <2>1. iter = [T \in SUBSET S |-> iter[T]]
    BY <1>5
  <2> QED
    BY <2>1, <1>6, Zenon
<1>8. FeedInput(r, bytes) = solution[DOMAIN bytes]
  BY DEF FeedInput, FoldLeft, MapThenFoldSet, S
<1> HIDE DEF Solves
<1>9. Solves(solution)
  BY <1>7, Zenon
<1>10. solution[DOMAIN bytes] \in Typ
  <2> HIDE DEF solution
  <2> DEFINE Good == {k \in Nat : k <= Len(bytes) => solution[1..k] \in Typ}
  <2>1. \A T \in SUBSET S :
         solution[T] = IF T = {} THEN r ELSE FeedByte(solution[T \ {Max(T)}], bytes[Max(T)])
    BY <1>9 DEF Solves
  <2>2. 0 \in Good
    <3>1. 1..0 = {} /\ {} \in SUBSET S
      OBVIOUS
    <3> QED
      BY <3>1, <2>1
  <2>3. \A k \in Nat : k \in Good => k + 1 \in Good
    <3> SUFFICES ASSUME NEW k \in Nat, k \in Good, k + 1 <= Len(bytes)
                 PROVE  solution[1..(k + 1)] \in Typ
      OBVIOUS
    <3>1. 1..(k + 1) \in SUBSET S /\ bytes[k + 1] \in B /\ solution[1..k] \in Typ
      BY DEF S
    <3>2. solution[1..(k + 1)] = FeedByte(solution[1..k], bytes[k + 1])
      BY <3>1, <2>1, UptoNext
    <3> QED
      BY <3>1, <3>2
  <2> HIDE DEF Good
  <2>4. Nat \subseteq Good
    BY <2>2, <2>3, NumbersInduction
  <2> QED
    BY <2>4 DEF Good
<1> QED
  BY <1>8, <1>10

LEMMA FedCells ==
    ASSUME NEW B, NEW chunk \in Seq(B), NEW r, NEW Typ, [rec |-> r, commands |-> <<>>] \in Typ,
           \A b \in B : \A t \in Typ : FeedCell(t, b) \in Typ
    PROVE  FeedOutput(r, chunk) \in Typ
<1> DEFINE base == [rec |-> r, commands |-> <<>>]
           S == DOMAIN chunk
           step == [p \in B \X Typ |-> FeedCell(p[2], p[1])]
           stepAt == [p \in S \X Typ |-> step[<<chunk[p[1]], p[2]>>]]
           pick == [T \in SUBSET S |-> Max(T)]
           Solves(f) == f = [T \in SUBSET S |->
              IF T = {} THEN base ELSE FeedCell(f[T \ {Max(T)}], chunk[Max(T)])]
           solution == CHOOSE f : Solves(f)
<1>1. IsFiniteSet(S)
  BY FS_Interval
<1>2. \A T \in SUBSET S : T # {} => Max(T) \in T
  <2>1. S \subseteq 0..Len(chunk) /\ Len(chunk) \in Nat
    OBVIOUS
  <2> QED
    BY <2>1, MaxOfSome
<1>3. step \in [B \X Typ -> Typ]
  OBVIOUS
<1> HIDE DEF S
<1>4. stepAt \in [S \X Typ -> Typ]
  BY <1>3 DEF S
<1>5. PICK iter \in [SUBSET S -> Typ] : FoldEquation(iter, S, base, stepAt, pick)
  <2> HIDE DEF stepAt
  <2> QED
    BY <1>1, <1>2, <1>4, FoldExists
<1>6. \A T \in SUBSET S :
         iter[T] = IF T = {} THEN base ELSE FeedCell(iter[T \ {Max(T)}], chunk[Max(T)])
  <2> SUFFICES ASSUME NEW T \in SUBSET S
               PROVE  iter[T] = IF T = {} THEN base
                                ELSE FeedCell(iter[T \ {Max(T)}], chunk[Max(T)])
    OBVIOUS
  <2>1. iter[T] = IF T = {} THEN base ELSE stepAt[<<pick[T], iter[T \ {pick[T]}]>>]
    BY <1>5 DEF FoldEquation
  <2>2. T # {} => /\ pick[T] = Max(T) /\ Max(T) \in S
                  /\ iter[T \ {Max(T)}] \in Typ /\ chunk[Max(T)] \in B
    BY <1>2 DEF S
  <2> QED
    BY <2>1, <2>2
<1>7. Solves(iter)
  <2>1. iter = [T \in SUBSET S |-> iter[T]]
    BY <1>5
  <2> QED
    BY <2>1, <1>6, Zenon
<1>8. FeedOutput(r, chunk) = solution[DOMAIN chunk]
  BY DEF FeedOutput, FoldLeft, MapThenFoldSet, S
<1> HIDE DEF Solves
<1>9. Solves(solution)
  BY <1>7, Zenon
<1>10. solution[DOMAIN chunk] \in Typ
  <2> HIDE DEF solution
  <2> DEFINE Good == {k \in Nat : k <= Len(chunk) => solution[1..k] \in Typ}
  <2>1. \A T \in SUBSET S :
         solution[T] = IF T = {} THEN base ELSE FeedCell(solution[T \ {Max(T)}], chunk[Max(T)])
    BY <1>9 DEF Solves
  <2>2. 0 \in Good
    <3>1. 1..0 = {} /\ {} \in SUBSET S
      OBVIOUS
    <3> QED
      BY <3>1, <2>1
  <2>3. \A k \in Nat : k \in Good => k + 1 \in Good
    <3> SUFFICES ASSUME NEW k \in Nat, k \in Good, k + 1 <= Len(chunk)
                 PROVE  solution[1..(k + 1)] \in Typ
      OBVIOUS
    <3>1. 1..(k + 1) \in SUBSET S /\ chunk[k + 1] \in B /\ solution[1..k] \in Typ
      BY DEF S
    <3>2. solution[1..(k + 1)] = FeedCell(solution[1..k], chunk[k + 1])
      BY <3>1, <2>1, UptoNext
    <3> QED
      BY <3>1, <3>2
  <2> HIDE DEF Good
  <2>4. Nat \subseteq Good
    BY <2>2, <2>3, NumbersInduction
  <2> QED
    BY <2>4 DEF Good
<1> QED
  BY <1>8, <1>10

-----------------------------------------------------------------------------
(* The functions of the recorder keep it well typed.                       *)

LEMMA ReportedTyped ==
    ASSUME NEW c \in Seq(Cells)
    PROVE  Reported(c) \in Seq(Commands) /\ Len(Reported(c)) <= 1
<1>1. CASE c = <<>> \/ Len(c) > MaxCommandLen
  BY <1>1 DEF Reported
<1>2. CASE ~(c = <<>> \/ Len(c) > MaxCommandLen)
  <2>1. Len(c) \in 1..MaxCommandLen
    BY <1>2, EmptySeq, RecorderAssumption
  <2>2. c \in Commands
    BY <2>1 DEF Commands
  <2>3. Reported(c) = <<c>>
    BY <1>2 DEF Reported
  <2> QED
    BY <2>2, <2>3
<1> QED
  BY <1>1, <1>2

LEMMA TextIsCells ==
    ASSUME NEW s \in Seq(Text)
    PROVE  s \in Seq(Cells)
BY SeqMonotonic DEF Cells

LEMMA PendingIsText ==
    ASSUME NEW r \in Recorders, r.pending # NothingPending
    PROVE  r.pending \in Seq(Text)
BY DEF Recorders

(* A key changes what is typed and what is pending, not the line.          *)
LEMMA FeedByteTyped ==
    ASSUME NEW r \in Recorders, NEW b \in Bytes
    PROVE  FeedByte(r, b) \in Recorders
<1> DEFINE t == FeedByte(r, b)
<1>0. /\ r.typed \in Seq(Text) /\ r.pending \in Seq(Text) \cup {NothingPending}
      /\ r.unreliable \in BOOLEAN /\ r.escaping \in BOOLEAN /\ r.escape \in Seq(Bytes)
      /\ r.line \in Seq(Cells) /\ r.col \in Nat /\ r.col <= Len(r.line)
      /\ r = [typed |-> r.typed, pending |-> r.pending, unreliable |-> r.unreliable,
              escaping |-> r.escaping, escape |-> r.escape, line |-> r.line, col |-> r.col]
  BY DEF Recorders
<1>1. /\ Strip(r.typed) \in Seq(Text) /\ DeleteWord(r.typed) \in Seq(Text)
      /\ WithoutLast(r.typed) \in Seq(Text)
  BY <1>0, StripTyped, DeleteWordTyped, WithoutLastTyped
<1>2. Append(r.escape, b) \in Seq(Bytes) /\ <<>> \in Seq(Bytes) /\ <<>> \in Seq(Text)
  BY <1>0
<1>3. /\ \A x \in Seq(Text) : /\ [r EXCEPT !.typed = x] \in Recorders
                             /\ [r EXCEPT !.pending = x, !.typed = <<>>] \in Recorders
      /\ \A x \in Seq(Bytes) : \A e \in BOOLEAN, u \in BOOLEAN :
            [r EXCEPT !.unreliable = u, !.escaping = e, !.escape = x] \in Recorders
      /\ [r EXCEPT !.typed = <<>>, !.pending = NothingPending] \in Recorders
      /\ [r EXCEPT !.unreliable = TRUE] \in Recorders
  BY <1>0, <1>2 DEF Recorders
<1> USE DEF Text, Letter, Space, Completion
<1>4. CASE r.escaping /\ b \in Text \ {Space}
  <2> DEFINE x == Append(r.escape, b)
             u == r.unreliable \/ (Head(x) = "[" /\ Last(x) \in {"A", "B"})
  <2>1. u \in BOOLEAN
    OBVIOUS
  <2>2. FeedByte(r, b) = [r EXCEPT !.unreliable = u, !.escaping = FALSE, !.escape = <<>>]
    BY <1>0, <1>4 DEF FeedByte, EndEscape
  <2> HIDE DEF u
  <2> QED
    BY <1>2, <1>3, <2>1, <2>2
<1>5. CASE r.escaping /\ b \notin Text \ {Space}
  <2>1. FeedByte(r, b) = [r EXCEPT !.escape = Append(r.escape, b)]
    BY <1>0, <1>5 DEF FeedByte
  <2> QED
    BY <1>0, <1>2, <2>1 DEF Recorders
<1>6. CASE ~r.escaping /\ b = "esc"
  <2>1. FeedByte(r, b) = [r EXCEPT !.escaping = TRUE, !.escape = <<>>]
    BY <1>6 DEF FeedByte
  <2> QED
    BY <1>0, <1>2, <2>1 DEF Recorders
<1>7. CASE ~r.escaping /\ b = "enter"
  <2>1. FeedByte(r, b) = [r EXCEPT !.pending = Strip(r.typed), !.typed = <<>>]
    BY <1>7 DEF FeedByte, Submit
  <2> QED
    BY <1>1, <1>3, <2>1
<1>8. CASE ~r.escaping /\ b = "erase"
  <2>1. FeedByte(r, b) = [r EXCEPT !.typed = WithoutLast(r.typed)]
    BY <1>0, <1>8 DEF FeedByte
  <2> QED
    BY <1>1, <1>3, <2>1
<1>9. CASE ~r.escaping /\ b = "intr"
  <2>1. FeedByte(r, b) = [r EXCEPT !.typed = <<>>, !.pending = NothingPending]
    BY <1>9 DEF FeedByte
  <2> QED
    BY <1>3, <2>1
<1>10. CASE ~r.escaping /\ b = "line"
  <2>1. FeedByte(r, b) = [r EXCEPT !.typed = <<>>]
    BY <1>10 DEF FeedByte
  <2> QED
    BY <1>2, <1>3, <2>1
<1>11. CASE ~r.escaping /\ b = "word"
  <2>1. FeedByte(r, b) = [r EXCEPT !.typed = DeleteWord(r.typed)]
    BY <1>0, <1>11 DEF FeedByte
  <2> QED
    BY <1>1, <1>3, <2>1
<1>12. CASE ~r.escaping /\ b = "tab"
  <2>1. FeedByte(r, b) = [r EXCEPT !.unreliable = TRUE]
    BY <1>12 DEF FeedByte
  <2> QED
    BY <1>3, <2>1
<1>13. CASE ~r.escaping /\ b \in Text
  <2>1. Append(r.typed, b) \in Seq(Text)
    <3> HIDE DEF Text
    <3> QED
      BY <1>0, <1>13, AppendProperties
  <2>2. FeedByte(r, b) = [r EXCEPT !.typed = Append(r.typed, b)]
    BY <1>0, <1>13 DEF FeedByte
  <2> QED
    BY <1>3, <2>1, <2>2
<1>14. b \in {"esc", "enter", "erase", "intr", "line", "word", "tab"} \cup Text
  BY DEF Bytes, Keys, Editing
<1>15. r.escaping \/ ~r.escaping
  OBVIOUS
<1> QED
  BY <1>4, <1>5, <1>6, <1>7, <1>8, <1>9, <1>10, <1>11, <1>12, <1>13, <1>14, <1>15

LEMMA CommandOfTyped ==
    ASSUME NEW r \in Recorders
    PROVE  /\ CommandOf(r) \in Seq(Commands) /\ Len(CommandOf(r)) <= 1
           /\ r.pending = NothingPending => CommandOf(r) = <<>>
<1> DEFINE parsed == r.line # <<>> /\ r.line[1] = "prompt"
           echoed == IF parsed THEN Strip(Tail(r.line)) ELSE <<>>
<1>0. r.line \in Seq(Cells)
  BY DEF Recorders
<1>1. echoed \in Seq(Cells)
  <2>1. r.line # <<>> => Tail(r.line) \in Seq(Cells)
    BY <1>0
  <2>2. r.line # <<>> => Strip(Tail(r.line)) \in Seq(Cells)
    BY <2>1, StripTyped
  <2>3. <<>> \in Seq(Cells)
    OBVIOUS
  <2> QED
    BY <2>2, <2>3, Zenon
<1>2. CommandOf(r) = CASE r.pending = NothingPending -> <<>>
         [] r.pending # NothingPending /\ echoed # <<>> -> Reported(echoed)
         [] r.pending # NothingPending /\ echoed = <<>> -> Reported(r.pending)
  BY DEF CommandOf
<1> HIDE DEF echoed
<1>3. CASE r.pending = NothingPending
  BY <1>2, <1>3
<1>4. CASE r.pending # NothingPending /\ echoed # <<>>
  BY <1>1, <1>2, <1>4, ReportedTyped
<1>5. CASE r.pending # NothingPending /\ echoed = <<>>
  <2>1. r.pending \in Seq(Cells)
    BY <1>5, PendingIsText, TextIsCells
  <2> QED
    BY <1>2, <1>5, <2>1, ReportedTyped
<1> QED
  BY <1>3, <1>4, <1>5

(* What the output does to a recorder: the line and its column, or, with a  *)
(* line feed, both and what was pending.                                   *)
LEMMA LineMoves ==
    ASSUME NEW r \in Recorders
    PROVE  /\ \A l \in Seq(Cells) : \A n \in Nat : n <= Len(l) =>
                [r EXCEPT !.line = l, !.col = n] \in Recorders
           /\ \A n \in Nat : n <= Len(r.line) => [r EXCEPT !.col = n] \in Recorders
           /\ \A u \in BOOLEAN :
                [r EXCEPT !.line = <<>>, !.col = 0, !.pending = NothingPending,
                          !.unreliable = u] \in Recorders
           /\ NextLine(r) \in Recorders /\ NextLine(r).pending = NothingPending
           /\ Return(r) \in Recorders /\ Return(r).pending = r.pending
<1>1. \A l \in Seq(Cells) : \A n \in Nat : n <= Len(l) =>
         [r EXCEPT !.line = l, !.col = n] \in Recorders
  BY DEF Recorders
<1>2. \A n \in Nat : n <= Len(r.line) => [r EXCEPT !.col = n] \in Recorders
  BY DEF Recorders
<1>3. <<>> \in Seq(Cells) /\ Len(<<>>) = 0
  OBVIOUS
<1>4. \A u \in BOOLEAN :
         [r EXCEPT !.line = <<>>, !.col = 0, !.pending = NothingPending,
                   !.unreliable = u] \in Recorders
  <2> SUFFICES ASSUME NEW u \in BOOLEAN
               PROVE  [r EXCEPT !.line = <<>>, !.col = 0, !.pending = NothingPending,
                                !.unreliable = u] \in Recorders
    OBVIOUS
  <2> DEFINE x == [r EXCEPT !.line = <<>>, !.col = 0]
  <2>1. x \in Recorders
    <3>1. 0 \in Nat /\ 0 <= Len(<<>>)
      BY <1>3
    <3> QED
      BY <1>1, <1>3, <3>1, Zenon
  <2>2. [r EXCEPT !.line = <<>>, !.col = 0, !.pending = NothingPending, !.unreliable = u]
          = [x EXCEPT !.pending = NothingPending, !.unreliable = u]
    BY DEF Recorders
  <2> HIDE DEF x
  <2>3. [x EXCEPT !.pending = NothingPending, !.unreliable = u] \in Recorders
    BY <2>1 DEF Recorders
  <2> QED
    BY <2>2, <2>3
<1>5. NextLine(r) \in Recorders /\ NextLine(r).pending = NothingPending
  <2> DEFINE u == IF r.pending = NothingPending THEN r.unreliable ELSE FALSE
  <2>1. u \in BOOLEAN
    BY DEF Recorders
  <2>2. NextLine(r) = [r EXCEPT !.line = <<>>, !.col = 0, !.pending = NothingPending,
                                !.unreliable = u]
    BY DEF NextLine
  <2> HIDE DEF u
  <2>3. [r EXCEPT !.line = <<>>, !.col = 0, !.pending = NothingPending,
                  !.unreliable = u].pending = NothingPending
    BY DEF Recorders
  <2> QED
    BY <1>4, <2>1, <2>2, <2>3
<1>6. Return(r) \in Recorders /\ Return(r).pending = r.pending
  <2>1. r.col \in Nat /\ Len(r.line) \in Nat
    BY DEF Recorders
  <2>2. [r EXCEPT !.col = 0] \in Recorders
    <3>1. 0 \in Nat /\ 0 <= Len(r.line)
      BY <2>1
    <3> QED
      BY <1>2, <3>1, Zenon
  <2>3. [r EXCEPT !.col = 0].pending = r.pending
    BY DEF Recorders
  <2> QED
    BY <2>2, <2>3 DEF Return
<1> QED
  BY <1>1, <1>2, <1>4, <1>5, <1>6

(* A cell may resolve what is pending, once, and never makes it pending.   *)
Fed(r) ==
    {f \in [rec : Recorders, commands : Seq(Commands)] :
        Len(f.commands) + (IF f.rec.pending = NothingPending THEN 0 ELSE 1)
            <= (IF r.pending = NothingPending THEN 0 ELSE 1)}

LEMMA FeedCellTyped ==
    ASSUME NEW r \in Recorders, NEW f \in Fed(r), NEW cell \in Outputs
    PROVE  FeedCell(f, cell) \in Fed(r)
<1> DEFINE s == f.rec
<1>0. /\ f = [rec |-> s, commands |-> f.commands]
      /\ s \in Recorders /\ f.commands \in Seq(Commands)
      /\ Len(f.commands) + (IF s.pending = NothingPending THEN 0 ELSE 1)
            <= (IF r.pending = NothingPending THEN 0 ELSE 1)
  BY DEF Fed
<1>1. /\ s.typed \in Seq(Text) /\ s.pending \in Seq(Text) \cup {NothingPending}
      /\ s.unreliable \in BOOLEAN /\ s.escaping \in BOOLEAN /\ s.escape \in Seq(Bytes)
      /\ s.line \in Seq(Cells) /\ s.col \in Nat /\ s.col <= Len(s.line)
      /\ s = [typed |-> s.typed, pending |-> s.pending, unreliable |-> s.unreliable,
              escaping |-> s.escaping, escape |-> s.escape, line |-> s.line, col |-> s.col]
  BY <1>0 DEF Recorders
<1>2. \A x \in Recorders : x.pending = s.pending => [f EXCEPT !.rec = x] \in Fed(r)
  BY <1>0 DEF Fed
<1> HIDE DEF s
<1>3. CASE cell = "lf"
  <2>1. NextLine(s) \in Recorders /\ NextLine(s).pending = NothingPending
    BY <1>0, LineMoves DEF NextLine
  <2>2. /\ CommandOf(s) \in Seq(Commands) /\ Len(CommandOf(s)) <= 1
        /\ s.pending = NothingPending => CommandOf(s) = <<>>
    BY <1>0, CommandOfTyped
  <2> DEFINE all == f.commands \o CommandOf(s)
  <2>3. all \in Seq(Commands) /\ Len(all) = Len(f.commands) + Len(CommandOf(s))
    BY <1>0, <2>2, ConcatProperties
  <2>4. Len(CommandOf(s)) <= (IF s.pending = NothingPending THEN 0 ELSE 1)
    BY <2>2
  <2>5. Len(all) <= (IF r.pending = NothingPending THEN 0 ELSE 1)
    BY <1>0, <2>2, <2>3, <2>4
  <2>6. FeedCell(f, cell) = [rec |-> NextLine(s), commands |-> all]
    BY <1>3 DEF FeedCell, s, Cells, Text, Letter, Space, Completion
  <2> HIDE DEF all
  <2> QED
    BY <2>1, <2>3, <2>5, <2>6 DEF Fed
<1>4. CASE cell = "cr"
  <2>1. Return(s) \in Recorders /\ Return(s).pending = s.pending
    BY <1>0, <1>1, LineMoves DEF Return
  <2>2. FeedCell(f, cell) = [f EXCEPT !.rec = Return(s)]
    BY <1>4 DEF FeedCell, s, Cells, Text, Letter, Space, Completion
  <2> QED
    BY <1>2, <2>1, <2>2
<1>5. CASE cell = "bs"
  <2> DEFINE back == Max({0, s.col - 1})
  <2>1. {0, s.col - 1} # {} /\ \E x \in {0, s.col - 1} : \A y \in {0, s.col - 1} : x >= y
    BY <1>1
  <2>2. back \in {0, s.col - 1} /\ \A y \in {0, s.col - 1} : back >= y
    BY <2>1 DEF Max
  <2>3. back \in Nat /\ back <= Len(s.line)
    BY <1>1, <2>2
  <2>4. Backspace(s) = [s EXCEPT !.col = back]
    BY DEF Backspace
  <2> HIDE DEF back
  <2>5. Backspace(s) \in Recorders /\ Backspace(s).pending = s.pending
    BY <1>0, <1>1, <2>3, <2>4, LineMoves
  <2>6. FeedCell(f, cell) = [f EXCEPT !.rec = Backspace(s)]
    BY <1>5 DEF FeedCell, s, Cells, Text, Letter, Space, Completion
  <2> QED
    BY <1>2, <2>5, <2>6
<1>6. CASE cell = "el"
  BY <1>0, <1>6 DEF FeedCell, Cells, Text, Letter, Space, Completion
<1>7. CASE cell \in Cells
  <2> DEFINE line == IF s.col < Len(s.line) THEN [s.line EXCEPT ![s.col + 1] = cell]
                     ELSE Append(s.line, cell)
  <2>1. line \in Seq(Cells) /\ s.col + 1 <= Len(line)
    <3>1. CASE s.col < Len(s.line)
      <4>1. s.col + 1 \in 1..Len(s.line)
        BY <1>1, <3>1
      <4> QED
        BY <1>1, <1>7, <3>1, <4>1, ExceptSeq
    <3>2. CASE ~(s.col < Len(s.line))
      BY <1>1, <1>7, <3>2, AppendProperties
    <3> QED
      BY <3>1, <3>2
  <2>2. Write(s, cell) = [s EXCEPT !.line = line, !.col = s.col + 1]
    BY <1>1 DEF Write
  <2> HIDE DEF line
  <2>3. Write(s, cell) \in Recorders /\ Write(s, cell).pending = s.pending
    <3>1. \A l \in Seq(Cells) : \A n \in Nat : n <= Len(l) =>
             [s EXCEPT !.line = l, !.col = n] \in Recorders
      BY <1>0, LineMoves
    <3>2. [s EXCEPT !.line = line, !.col = s.col + 1] \in Recorders
      <4>1. s.col + 1 \in Nat
        BY <1>1
      <4> QED
        BY <2>1, <3>1, <4>1, Zenon
    <3>3. [s EXCEPT !.line = line, !.col = s.col + 1].pending = s.pending
      BY <1>1
    <3> QED
      BY <2>2, <3>2, <3>3
  <2>4. cell \notin {"lf", "cr", "bs", "el"}
    BY <1>7 DEF Cells, Text, Letter, Space, Completion
  <2>5. FeedCell(f, cell) = [f EXCEPT !.rec = Write(s, cell)]
    BY <1>7, <2>4 DEF FeedCell, s, Cells, Text, Letter, Space, Completion
  <2> QED
    BY <1>2, <2>3, <2>5
<1> QED
  BY <1>3, <1>4, <1>5, <1>6, <1>7 DEF Outputs

(* No key but Enter makes a command pending.                               *)
LEMMA FeedByteQuiet ==
    ASSUME NEW r \in Recorders, NEW b \in Bytes, b # "enter"
    PROVE  FeedByte(r, b).pending \in {r.pending, NothingPending}
<1>0. r.escaping \in BOOLEAN
  BY DEF Recorders
<1>1. DOMAIN r = {"typed", "pending", "unreliable", "escaping", "escape", "line", "col"}
  BY DEF Recorders
<1> USE DEF Text, Letter, Space, Completion
<1>2. CASE r.escaping /\ b \in Text \ {Space}
  BY <1>0, <1>1, <1>2 DEF FeedByte, EndEscape
<1>3. CASE r.escaping /\ b \notin Text \ {Space}
  BY <1>0, <1>1, <1>3 DEF FeedByte
<1>4. CASE ~r.escaping /\ b \in {"esc", "erase", "line", "word", "tab"}
  <2>1. CASE b = "esc"
    BY <1>1, <1>4, <2>1 DEF FeedByte
  <2>2. CASE b = "erase"
    BY <1>1, <1>4, <2>2 DEF FeedByte
  <2>3. CASE b = "line"
    BY <1>1, <1>4, <2>3 DEF FeedByte
  <2>4. CASE b = "word"
    BY <1>1, <1>4, <2>4 DEF FeedByte
  <2>5. CASE b = "tab"
    BY <1>1, <1>4, <2>5 DEF FeedByte
  <2> QED
    BY <1>4, <2>1, <2>2, <2>3, <2>4, <2>5
<1>5. CASE ~r.escaping /\ b = "intr"
  BY <1>1, <1>5 DEF FeedByte
<1>6. CASE ~r.escaping /\ b \in Text
  BY <1>1, <1>6 DEF FeedByte
<1>7. b \in {"esc", "erase", "intr", "line", "word", "tab"} \cup Text
  BY DEF Bytes, Keys, Editing
<1> QED
  BY <1>0, <1>2, <1>3, <1>4, <1>5, <1>6, <1>7

(* What a key press does to the recorder.                                  *)
LEMMA FeedInputTyped ==
    ASSUME NEW r \in Recorders, NEW key \in Keys
    PROVE  /\ FeedInput(r, BytesOf(key)) \in Recorders
           /\ key # "enter" =>
                FeedInput(r, BytesOf(key)).pending \in {r.pending, NothingPending}
<1>1. BytesOf(key) \in Seq(Bytes) /\ (key # "enter" => BytesOf(key) \in Seq(Bytes \ {"enter"}))
  <2>1. CASE key = "up"
    BY <2>1 DEF BytesOf, Bytes
  <2>2. CASE key # "up"
    BY <2>2 DEF BytesOf, Bytes
  <2> QED
    BY <2>1, <2>2
<1>2. FeedInput(r, BytesOf(key)) \in Recorders
  <2>1. \A b \in Bytes : \A t \in Recorders : FeedByte(t, b) \in Recorders
    BY FeedByteTyped
  <2> QED
    BY <1>1, <2>1, FedBytes
<1>3. ASSUME key # "enter"
      PROVE  FeedInput(r, BytesOf(key)).pending \in {r.pending, NothingPending}
  <2> DEFINE Typ == {t \in Recorders : t.pending \in {r.pending, NothingPending}}
  <2>1. \A b \in Bytes \ {"enter"} : \A t \in Typ : FeedByte(t, b) \in Typ
    BY FeedByteTyped, FeedByteQuiet
  <2>2. r \in Typ
    OBVIOUS
  <2>3. BytesOf(key) \in Seq(Bytes \ {"enter"})
    BY <1>1, <1>3
  <2> HIDE DEF Typ
  <2>4. FeedInput(r, BytesOf(key)) \in Typ
    BY <2>1, <2>2, <2>3, FedBytes
  <2> QED
    BY <2>4 DEF Typ
<1> QED
  BY <1>2, <1>3

(* What a chunk of output does: at most one command, the pending one.      *)
LEMMA FeedOutputTyped ==
    ASSUME NEW r \in Recorders, NEW chunk \in Seq(Outputs)
    PROVE  FeedOutput(r, chunk) \in Fed(r)
<1>1. [rec |-> r, commands |-> <<>>] \in Fed(r)
  BY EmptySeq DEF Fed
<1>2. \A c \in Outputs : \A f \in Fed(r) : FeedCell(f, c) \in Fed(r)
  BY FeedCellTyped
<1> QED
  BY <1>1, <1>2, FedCells

-----------------------------------------------------------------------------
(* The shell's side.                                                       *)

LEMMA ReplicateTyped ==
    ASSUME NEW n \in Nat, NEW cell \in Outputs
    PROVE  Replicate(n, cell) \in Seq(Outputs)
BY DEF Replicate

LEMMA TextIsOutput ==
    ASSUME NEW s \in Seq(Text)
    PROVE  s \in Seq(Outputs)
BY SeqMonotonic DEF Outputs, Cells

LEMMA RedrawTyped ==
    ASSUME NEW old \in Seq(Text), NEW new \in Seq(Text), NEW clearing
    PROVE  Redraw(old, new, clearing) \in Seq(Outputs)
<1> DEFINE least == Min({Len(old), Len(new)})
           same == {n \in 0..least : SubSeq(old, 1, n) = SubSeq(new, 1, n)}
           kept == Max(same)
           over == Len(old) - Len(new)
<1>0. Len(old) \in Nat /\ Len(new) \in Nat
  OBVIOUS
<1>1. least \in Nat /\ least <= Len(old) /\ least <= Len(new)
  <2>1. {Len(old), Len(new)} \subseteq Nat /\ {Len(old), Len(new)} # {}
    BY <1>0
  <2>2. \A x \in {Len(old), Len(new)} : least <= x
    BY <2>1, MinOfSome
  <2>3. least \in {Len(old), Len(new)}
    BY <2>1, MinOfSome
  <2> QED
    BY <1>0, <2>2, <2>3
<1> HIDE DEF least
<1>2. same \subseteq 0..least /\ same # {}
  <2>1. SubSeq(old, 1, 0) = <<>> /\ SubSeq(new, 1, 0) = <<>>
    BY SubSeqEmpty
  <2>2. 0 \in same
    BY <1>1, <2>1
  <2> QED
    BY <2>2
<1>3. kept \in same
  <2> HIDE DEF same
  <2> QED
    BY <1>1, <1>2, MaxOfSome
<1>4. kept \in 0..Len(old) /\ kept \in 0..Len(new)
  <2>1. kept \in 0..least
    BY <1>3
  <2> HIDE DEF kept
  <2> QED
    BY <1>0, <1>1, <2>1
<1> HIDE DEF kept, same
<1>5. Replicate(Len(old) - kept, "bs") \in Seq(Outputs)
  <2>1. Len(old) - kept \in Nat /\ "bs" \in Outputs
    BY <1>0, <1>4 DEF Outputs
  <2> QED
    BY <2>1, ReplicateTyped
<1>6. SubSeq(new, kept + 1, Len(new)) \in Seq(Outputs)
  <2>1. kept + 1 \in Nat \ {0} /\ Len(new) \in 0..Len(new)
    BY <1>0, <1>4
  <2>2. SubSeq(new, kept + 1, Len(new)) \in Seq(Text)
    BY <2>1, PartTyped
  <2> QED
    BY <2>2, TextIsOutput
<1> DEFINE end == IF over <= 0 THEN <<>>
           ELSE IF clearing = "blanks" THEN Replicate(over, Space) \o Replicate(over, "bs")
           ELSE <<"el">>
<1>7. end \in Seq(Outputs)
  <2>1. over \in Int
    BY <1>0
  <2> HIDE DEF over
  <2>2. Space \in Outputs /\ "bs" \in Outputs /\ "el" \in Outputs
    BY DEF Outputs, Cells, Text
  <2>3. ~(over <= 0) => over \in Nat
    BY <2>1
  <2>4. ~(over <= 0) => Replicate(over, Space) \o Replicate(over, "bs") \in Seq(Outputs)
    <3>1. ~(over <= 0) => /\ Replicate(over, Space) \in Seq(Outputs)
                          /\ Replicate(over, "bs") \in Seq(Outputs)
      BY <2>2, <2>3, ReplicateTyped
    <3> QED
      BY <3>1, ConcatProperties
  <2>5. <<>> \in Seq(Outputs) /\ <<"el">> \in Seq(Outputs)
    BY <2>2
  <2> QED
    BY <2>4, <2>5, Zenon
<1>8. Redraw(old, new, clearing) =
        Replicate(Len(old) - kept, "bs") \o SubSeq(new, kept + 1, Len(new)) \o end
  BY DEF Redraw, kept, same, least
<1> HIDE DEF end
<1>9. Replicate(Len(old) - kept, "bs") \o SubSeq(new, kept + 1, Len(new)) \in Seq(Outputs)
  BY <1>5, <1>6, ConcatProperties
<1> QED
  BY <1>7, <1>8, <1>9, ConcatProperties

LEMMA EditedTyped ==
    ASSUME NEW s \in Shells, NEW key \in Editing
    PROVE  Edited(key, s) \in Seq(Text)
<1>0. /\ s.buffer \in Seq(Text) /\ s.last \in Seq(Text)
  BY DEF Shells
<1>1. /\ Append(s.buffer, Letter) \in Seq(Text) /\ Append(s.buffer, Space) \in Seq(Text)
      /\ Append(s.buffer, Completion) \in Seq(Text)
  <2>1. {Letter, Space, Completion} \subseteq Text
    BY DEF Text
  <2> QED
    BY <1>0, <2>1, AppendProperties
<1>2. WithoutLast(s.buffer) \in Seq(Text) /\ DeleteWord(s.buffer) \in Seq(Text)
  BY <1>0, WithoutLastTyped, DeleteWordTyped
<1> USE DEF Letter, Space
<1>3. CASE key \in {Letter, Space}
  BY <1>1, <1>3 DEF Edited
<1>4. CASE key = "erase"
  BY <1>2, <1>4 DEF Edited
<1>5. CASE key = "word"
  BY <1>2, <1>5 DEF Edited
<1>6. CASE key = "line"
  BY <1>6 DEF Edited
<1>7. CASE key = "tab"
  BY <1>0, <1>1, <1>7 DEF Edited
<1>8. CASE key = "up"
  BY <1>0, <1>8 DEF Edited
<1> QED
  BY <1>3, <1>4, <1>5, <1>6, <1>7, <1>8 DEF Editing

-----------------------------------------------------------------------------
(* The invariant, action by action.                                        *)

Waiting(r) == IF r.pending = NothingPending THEN 0 ELSE 1

EnterInv == Len(recorded) + Len(emitting) + Waiting(rec) <= entered

RecorderInv == TypeInv /\ EnterInv

LEMMA PressKeeps ==
    ASSUME RecorderInv, NEW key \in Keys, Press(key)
    PROVE  RecorderInv'
<1> USE DEF RecorderInv, TypeInv
<1>1. RelayType'
  BY FeedInputTyped DEF RelayType, Press
<1>2. RemoteType'
  BY AppendProperties DEF RemoteType, Press, remote
<1>3. HistoryType'
  BY DEF HistoryType, Press, Doubts
<1>4. EnterInv'
  <2>0. /\ Len(recorded) \in Nat /\ Len(emitting) \in Nat /\ entered \in Nat
        /\ recorded' = recorded /\ emitting' = emitting
    BY DEF RelayType, HistoryType, Press
  <2>1. CASE key = "enter"
    BY <2>0, <2>1 DEF EnterInv, Press, Waiting
  <2>2. CASE key # "enter"
    <3>1. rec'.pending \in {rec.pending, NothingPending}
      BY <2>2, FeedInputTyped DEF RelayType, Press
    <3>2. entered' = entered
      BY <2>0, <2>2 DEF Press
    <3> QED
      BY <2>0, <3>1, <3>2 DEF EnterInv, Waiting
  <2> QED
    BY <2>1, <2>2
<1> QED
  BY <1>1, <1>2, <1>3, <1>4

(* Whatever a read feeds the recorder and leaves behind.                   *)
LEMMA RecordKeeps ==
    ASSUME RecorderInv, NEW chunk \in Seq(Outputs), NEW rest \in Seq(Outputs),
           Record(chunk, rest), doubt' \subseteq Doubts
    PROVE  RecorderInv'
<1> USE DEF RecorderInv, TypeInv
<1>0. rec \in Recorders
  BY DEF RelayType
<1>2. PICK fed : /\ fed = FeedOutput(rec, chunk)
                 /\ rec' = fed.rec /\ emitting' = fed.commands
  BY DEF Record
<1>3. fed \in Fed(rec)
  BY <1>0, <1>2, FeedOutputTyped
<1>4. fed.rec \in Recorders /\ fed.commands \in Seq(Commands)
      /\ Len(fed.commands) + Waiting(fed.rec) <= Waiting(rec)
  BY <1>3 DEF Fed, Waiting
<1>5. recorded' = recorded /\ entered' = entered /\ emitting = <<>>
  BY DEF Record
<1>6. RelayType'
  BY <1>2, <1>4 DEF RelayType, Record
<1>7. RemoteType'
  BY DEF RemoteType, Record
<1>8. HistoryType'
  BY DEF HistoryType, Record
<1>9. EnterInv'
  <2>1. Len(recorded) \in Nat /\ Len(emitting) = 0 /\ Len(fed.commands) \in Nat
    BY <1>4, <1>5 DEF RelayType
  <2>2. Waiting(rec) \in Nat /\ Waiting(fed.rec) \in Nat /\ entered \in Nat
    BY DEF Waiting, HistoryType
  <2>3. Waiting(rec)' = Waiting(fed.rec)
    BY <1>2 DEF Waiting
  <2>4. Len(recorded) + Len(emitting) + Waiting(rec) <= entered
    BY DEF EnterInv
  <2>5. Len(recorded) + Len(fed.commands) + Waiting(fed.rec) <= entered
    BY <1>4, <2>1, <2>2, <2>4
  <2> QED
    BY <1>2, <1>5, <2>3, <2>5 DEF EnterInv
<1> QED
  BY <1>6, <1>7, <1>8, <1>9

LEMMA ReadOutputKeeps ==
    ASSUME RecorderInv, NEW n \in ChunkEnds, ReadOutput(n)
    PROVE  RecorderInv'
<1>1. screen \in Seq(Outputs) /\ n \in 1..Len(screen) /\ doubt \subseteq Doubts
  BY DEF RecorderInv, TypeInv, RemoteType, HistoryType, ChunkEnds
<1>2. SubSeq(screen, 1, n) \in Seq(Outputs) /\ SubSeq(screen, n + 1, Len(screen)) \in Seq(Outputs)
  <2>1. n \in 0..Len(screen) /\ 1 \in Nat \ {0} /\ n + 1 \in Nat \ {0} /\ Len(screen) \in 0..Len(screen)
    BY <1>1
  <2> QED
    BY <1>1, <2>1, PartTyped
<1> QED
  BY <1>1, <1>2, RecordKeeps DEF ReadOutput

LEMMA OneOrTwo ==
    ASSUME NEW S, NEW x \in S, NEW y \in S
    PROVE  <<x>> \in Seq(S) /\ <<x, y>> \in Seq(S)
OBVIOUS

(* The halves of a cell that is cut are output.                            *)
LEMMA HalvesTyped ==
    ASSUME NEW cell, NEW half \in Halves(cell)
    PROVE  half.head \in Seq(Outputs) /\ half.tail \in Seq(Outputs)
<1>1. "leak" \in Outputs /\ "prompt" \in Outputs /\ "other prompt" \in Outputs
  BY DEF Outputs, Cells
<1>2. <<>> \in Seq(Outputs) /\ <<"leak">> \in Seq(Outputs)
  <2>1. PICK leak : leak = "leak"
    OBVIOUS
  <2>2. leak \in Outputs
    BY <1>1, <2>1
  <2>3. <<leak>> \in Seq(Outputs)
    BY <2>2, OneOrTwo
  <2> QED
    BY <2>1, <2>3
<1>3. CASE cell \in {"prompt", "other prompt"}
  <2>1. cell \in Outputs
    BY <1>1, <1>3
  <2>2. <<cell>> \in Seq(Outputs) /\ <<"leak", cell>> \in Seq(Outputs)
    BY <1>1, <2>1, OneOrTwo
  <2>3. \/ half = [head |-> <<>>, tail |-> <<"leak", cell>>]
        \/ half = [head |-> <<cell>>, tail |-> <<"leak">>]
    BY <1>3 DEF Halves
  <2>4. PICK none, one, both, leak :
            none = <<>> /\ one = <<cell>> /\ both = <<"leak", cell>> /\ leak = <<"leak">>
    OBVIOUS
  <2>5. none \in Seq(Outputs) /\ one \in Seq(Outputs) /\ both \in Seq(Outputs) /\ leak \in Seq(Outputs)
    BY <1>2, <2>2, <2>4
  <2>6. half = [head |-> none, tail |-> both] \/ half = [head |-> one, tail |-> leak]
    BY <2>3, <2>4
  <2> QED
    BY <2>5, <2>6
<1>4. CASE cell = "el"
  <2>1. half = [head |-> <<>>, tail |-> <<"leak">>]
    BY <1>4 DEF Halves
  <2> QED
    BY <1>2, <2>1
<1>5. cell \in {"prompt", "other prompt"} \/ cell = "el"
  BY Zenon DEF Halves
<1> QED
  BY <1>3, <1>4, <1>5

LEMMA ReadTornKeeps ==
    ASSUME RecorderInv, NEW n \in DOMAIN screen, ReadTorn(n)
    PROVE  RecorderInv'
<1>1. screen \in Seq(Outputs) /\ doubt \subseteq Doubts
  BY DEF RecorderInv, TypeInv, RemoteType, HistoryType
<1>2. n \in 1..Len(screen)
  BY <1>1
<1>3. PICK half \in Halves(screen[n]) :
         /\ Record(SubSeq(screen, 1, n - 1) \o half.head,
                   half.tail \o SubSeq(screen, n + 1, Len(screen)))
         /\ doubt' = doubt \cup {"torn"}
  BY DEF ReadTorn
<1>4. half.head \in Seq(Outputs) /\ half.tail \in Seq(Outputs)
  BY HalvesTyped
<1>5. SubSeq(screen, 1, n - 1) \in Seq(Outputs) /\ SubSeq(screen, n + 1, Len(screen)) \in Seq(Outputs)
  <2>1. n - 1 \in 0..Len(screen) /\ 1 \in Nat \ {0} /\ n + 1 \in Nat \ {0} /\ Len(screen) \in 0..Len(screen)
    BY <1>1, <1>2
  <2> QED
    BY <1>1, <2>1, PartTyped
<1>6. PICK chunk, rest : /\ chunk = SubSeq(screen, 1, n - 1) \o half.head
                         /\ rest = half.tail \o SubSeq(screen, n + 1, Len(screen))
  OBVIOUS
<1>7. chunk \in Seq(Outputs) /\ rest \in Seq(Outputs)
  BY <1>4, <1>5, <1>6, ConcatProperties
<1>8. doubt' \subseteq Doubts
  BY <1>1, <1>3 DEF Doubts
<1>9. Record(chunk, rest)
  BY <1>3, <1>6
<1> QED
  BY <1>7, <1>8, <1>9, RecordKeeps

LEMMA EmitCommandKeeps ==
    ASSUME RecorderInv, EmitCommand
    PROVE  RecorderInv'
<1> USE DEF RecorderInv, TypeInv
<1>0. emitting \in Seq(Commands) /\ emitting # <<>> /\ recorded \in Seq(Commands)
  BY DEF RelayType, EmitCommand
<1>1. /\ Head(emitting) \in Commands /\ Tail(emitting) \in Seq(Commands)
      /\ Len(Tail(emitting)) = Len(emitting) - 1
  BY <1>0, HeadTailProperties
<1>2. /\ recorded' \in Seq(Commands) /\ Len(recorded') = Len(recorded) + 1
      /\ emitting' = Tail(emitting)
  BY <1>0, <1>1, AppendProperties DEF EmitCommand
<1>3. RelayType'
  BY <1>1, <1>2 DEF RelayType, EmitCommand
<1>4. RemoteType'
  BY DEF RemoteType, EmitCommand, remote
<1>5. HistoryType'
  BY DEF HistoryType, EmitCommand
<1>6. EnterInv'
  <2>1. Len(recorded) \in Nat /\ Len(emitting) \in Nat /\ entered \in Nat
    BY <1>0 DEF HistoryType
  <2>2. rec' = rec /\ entered' = entered
    BY DEF EmitCommand
  <2>3. Waiting(rec) \in Nat
    BY DEF Waiting
  <2>4. Waiting(rec)' = Waiting(rec)
    BY <2>2 DEF Waiting
  <2> QED
    BY <1>1, <1>2, <2>1, <2>2, <2>3, <2>4 DEF EnterInv
<1> QED
  BY <1>3, <1>4, <1>5, <1>6

LEMMA TeardownKeeps ==
    ASSUME RecorderInv, Teardown, doubt' \subseteq Doubts
    PROVE  RecorderInv'
<1> USE DEF RecorderInv, TypeInv
<1>0. recorded \in Seq(Commands) /\ emitting \in Seq(Commands) /\ rec \in Recorders
  BY DEF RelayType
<1>1. Flushed(rec) \in Seq(Commands) /\ Len(Flushed(rec)) <= Waiting(rec)
  <2>1. CASE rec.pending = NothingPending
    BY <2>1 DEF Flushed, Waiting
  <2>2. CASE rec.pending # NothingPending
    <3>1. rec.pending \in Seq(Cells)
      BY <1>0, <2>2, PendingIsText, TextIsCells
    <3> QED
      BY <2>2, <3>1, ReportedTyped DEF Flushed, Waiting
  <2> QED
    BY <2>1, <2>2
<1>2. /\ recorded' \in Seq(Commands) /\ Len(recorded') = Len(recorded) + Len(Flushed(rec))
  BY <1>0, <1>1, ConcatProperties DEF Teardown
<1>3. rec' \in Recorders /\ rec'.pending = NothingPending
  BY <1>0 DEF Recorders, Teardown
<1>4. RelayType'
  BY <1>2, <1>3 DEF RelayType, Teardown
<1>5. RemoteType'
  BY DEF RemoteType, Teardown, remote
<1>6. HistoryType'
  BY DEF HistoryType, Teardown
<1>7. EnterInv'
  <2>1. Len(recorded) \in Nat /\ Len(emitting) \in Nat /\ Len(Flushed(rec)) \in Nat
    BY <1>0, <1>1
  <2>2. Waiting(rec) \in Nat /\ Waiting(rec)' = 0 /\ Len(emitting') = 0
    BY <1>3 DEF Waiting, Teardown
  <2>3. entered' = entered /\ entered \in Nat
    BY DEF Teardown, HistoryType
  <2> QED
    BY <1>1, <1>2, <2>1, <2>2, <2>3 DEF EnterInv
<1> QED
  BY <1>4, <1>5, <1>6, <1>7

LEMMA ShellKeeps ==
    ASSUME RecorderInv, relay' = relay, entered' = entered, pressed' = pressed,
           doubt' \subseteq Doubts, RemoteType'
    PROVE  RecorderInv'
<1>1. RelayType'
  BY DEF RecorderInv, TypeInv, RelayType, relay
<1>2. HistoryType'
  BY DEF RecorderInv, TypeInv, HistoryType
<1>3. EnterInv'
  BY DEF RecorderInv, EnterInv, Waiting, relay
<1> QED
  BY <1>1, <1>2, <1>3 DEF RecorderInv, TypeInv

LEMMA ShellEditsKeeps ==
    ASSUME RecorderInv, ShellEdits
    PROVE  RecorderInv'
<1>0. /\ keys \in Seq(Keys) /\ keys # <<>> /\ screen \in Seq(Outputs) /\ shell \in Shells
      /\ submitted \in Seq(Commands) /\ Head(keys) \in Editing /\ doubt \subseteq Doubts
  BY DEF RecorderInv, TypeInv, RemoteType, HistoryType, ShellEdits
<1>1. PICK clearing \in {"blanks", "sequence"} :
        /\ shell' = [shell EXCEPT !.buffer = Edited(Head(keys), shell),
                                  !.recalled = @ \/ Head(keys) = "up"]
        /\ screen' = IF shell.mode = "secret" THEN screen
             ELSE screen \o Redraw(shell.buffer, Edited(Head(keys), shell), clearing)
  BY DEF ShellEdits
<1> DEFINE line == Edited(Head(keys), shell)
<1>2. line \in Seq(Text) /\ shell.buffer \in Seq(Text)
  BY <1>0, EditedTyped DEF Shells
<1> HIDE DEF line
<1>3. shell' \in Shells
  <2> DEFINE u == shell.recalled \/ Head(keys) = "up"
  <2>1. u \in BOOLEAN
    OBVIOUS
  <2>2. shell' = [shell EXCEPT !.buffer = line, !.recalled = u]
    BY <1>0, <1>1 DEF line, Shells
  <2> HIDE DEF u
  <2> QED
    BY <1>0, <1>2, <2>1, <2>2 DEF Shells
<1>4. screen' \in Seq(Outputs)
  <2>1. Redraw(shell.buffer, line, clearing) \in Seq(Outputs)
    BY <1>2, RedrawTyped
  <2>2. screen \o Redraw(shell.buffer, line, clearing) \in Seq(Outputs)
    BY <1>0, <2>1, ConcatProperties
  <2> QED
    BY <1>0, <1>1, <2>2 DEF line
<1>5. keys' \in Seq(Keys)
  BY <1>0, HeadTailProperties DEF ShellEdits
<1>6. doubt' \subseteq Doubts
  BY <1>0 DEF ShellEdits, Doubts
<1>7. /\ relay' = relay /\ entered' = entered /\ pressed' = pressed
      /\ submitted' = submitted
  BY DEF ShellEdits
<1>8. RemoteType'
  BY <1>0, <1>3, <1>4, <1>5, <1>7 DEF RemoteType
<1> QED
  BY <1>6, <1>7, <1>8, ShellKeeps

LEMMA ShellTakesLineKeeps ==
    ASSUME RecorderInv, ShellTakesLine
    PROVE  RecorderInv'
<1>0. /\ keys \in Seq(Keys) /\ keys # <<>> /\ screen \in Seq(Outputs) /\ shell \in Shells
      /\ submitted \in Seq(Commands) /\ doubt \subseteq Doubts
  BY DEF RecorderInv, TypeInv, RemoteType, HistoryType, ShellTakesLine
<1> DEFINE line == Strip(shell.buffer)
<1>1. line \in Seq(Text) /\ shell.last \in Seq(Text)
  BY <1>0, StripTyped DEF Shells
<1>2. submitted' = submitted \o Reported(line)
  BY DEF ShellTakesLine
<1>3. PICK last \in Seq(Text) :
        shell' = [shell EXCEPT !.mode = "running", !.buffer = <<>>, !.recalled = FALSE,
                               !.last = last]
  <2> DEFINE last == IF shell.mode = "prompt" /\ line # <<>> THEN line ELSE shell.last
  <2>1. last \in Seq(Text)
    BY <1>1
  <2>2. shell' = [shell EXCEPT !.mode = "running", !.buffer = <<>>, !.recalled = FALSE,
                               !.last = last]
    BY DEF ShellTakesLine
  <2> HIDE DEF last
  <2> QED
    BY <2>1, <2>2
<1> HIDE DEF line
<1>4. submitted' \in Seq(Commands)
  <2>1. Reported(line) \in Seq(Commands)
    BY <1>1, TextIsCells, ReportedTyped
  <2> QED
    BY <1>0, <1>2, <2>1, ConcatProperties
<1>5. shell' \in Shells
  <2>1. <<>> \in Seq(Text)
    OBVIOUS
  <2> QED
    BY <1>0, <1>3, <2>1 DEF Shells
<1>6. screen' \in Seq(Outputs)
  <2>1. <<"cr", "lf">> \in Seq(Outputs)
    BY DEF Outputs
  <2> QED
    BY <1>0, <2>1, ConcatProperties DEF ShellTakesLine
<1>7. keys' \in Seq(Keys)
  BY <1>0, HeadTailProperties DEF ShellTakesLine
<1>8. doubt' \subseteq Doubts
  BY <1>0 DEF ShellTakesLine, Doubts
<1>9. relay' = relay /\ entered' = entered /\ pressed' = pressed
  BY DEF ShellTakesLine
<1>10. RemoteType'
  BY <1>4, <1>5, <1>6, <1>7 DEF RemoteType
<1> QED
  BY <1>8, <1>9, <1>10, ShellKeeps

LEMMA ShortOutputs ==
    /\ \A x \in Outputs : <<x>> \in Seq(Outputs)
    /\ \A x, y, z \in Outputs : <<x, y, z>> \in Seq(Outputs)
OBVIOUS

LEMMA PromptAfterTyped ==
    ASSUME shell \in Shells, screen \in Seq(Outputs), NEW output \in Seq(Outputs),
           NEW prompt \in {"prompt", "other prompt"}, PromptAfter(output, prompt)
    PROVE  shell' \in Shells /\ screen' \in Seq(Outputs)
<1>1. shell' \in Shells
  <2> DEFINE p == prompt = "prompt" /\ output \in {<<>>, <<"bs">>}
                    \cup {<<"out", "cr", "lf">>, <<"^C", "cr", "lf">>}
  <2>1. p \in BOOLEAN
    OBVIOUS
  <2>2. shell' = [shell EXCEPT !.mode = "prompt", !.buffer = <<>>, !.recalled = FALSE,
                    !.prompt = prompt, !.parsed = p]
    BY DEF PromptAfter
  <2> HIDE DEF p
  <2>3. <<>> \in Seq(Text)
    BY EmptySeq
  <2> QED
    BY <2>1, <2>2, <2>3 DEF Shells
<1>2. screen' \in Seq(Outputs)
  <2>1. prompt \in Outputs
    BY DEF Outputs, Cells
  <2>2. screen \o output \in Seq(Outputs)
    BY ConcatProperties
  <2>3. <<prompt>> \in Seq(Outputs)
    BY <2>1, ShortOutputs
  <2> QED
    BY <2>2, <2>3, ConcatProperties DEF PromptAfter
<1> QED
  BY <1>1, <1>2

LEMMA ShellInterruptedKeeps ==
    ASSUME RecorderInv, ShellInterrupted
    PROVE  RecorderInv'
<1>0. /\ keys \in Seq(Keys) /\ screen \in Seq(Outputs) /\ shell \in Shells
      /\ submitted \in Seq(Commands) /\ doubt \subseteq Doubts
  BY DEF RecorderInv, TypeInv, RemoteType, HistoryType
<1>1. PICK i \in DOMAIN keys : keys' = SubSeq(keys, i + 1, Len(keys))
  BY DEF ShellInterrupted
<1>2. keys' \in Seq(Keys)
  <2>1. i + 1 \in Nat \ {0} /\ Len(keys) \in 0..Len(keys)
    BY <1>0
  <2> QED
    BY <1>0, <1>1, <2>1, PartTyped
<1>3. <<"^C", "cr", "lf">> \in Seq(Outputs) /\ shell.prompt \in {"prompt", "other prompt"}
  <2>1. "^C" \in Outputs /\ "cr" \in Outputs /\ "lf" \in Outputs
    BY DEF Outputs, Cells
  <2>2. <<"^C", "cr", "lf">> \in Seq(Outputs)
    BY <2>1, ShortOutputs
  <2> QED
    BY <1>0, <2>2 DEF Shells
<1>4. shell' \in Shells /\ screen' \in Seq(Outputs)
  BY <1>0, <1>3, PromptAfterTyped DEF ShellInterrupted
<1>5. /\ relay' = relay /\ entered' = entered /\ pressed' = pressed
      /\ submitted' = submitted /\ doubt' = doubt
  BY DEF ShellInterrupted
<1>6. RemoteType'
  BY <1>0, <1>2, <1>4, <1>5 DEF RemoteType
<1> QED
  BY <1>0, <1>5, <1>6, ShellKeeps

LEMMA CommandFinishesKeeps ==
    ASSUME RecorderInv, CommandFinishes
    PROVE  RecorderInv'
<1>0. /\ keys \in Seq(Keys) /\ screen \in Seq(Outputs) /\ shell \in Shells
      /\ submitted \in Seq(Commands) /\ doubt \subseteq Doubts
  BY DEF RecorderInv, TypeInv, RemoteType, HistoryType
<1>1. PICK output \in {<<>>, <<"out", "cr", "lf">>, <<"out">>, <<"bs">>},
           prompt \in {shell.prompt, "other prompt"} : PromptAfter(output, prompt)
  BY DEF CommandFinishes
<1>2. output \in Seq(Outputs)
  <2>1. "out" \in Outputs /\ "cr" \in Outputs /\ "lf" \in Outputs /\ "bs" \in Outputs
    BY DEF Outputs, Cells
  <2>2. output \in {<<>>, <<"out", "cr", "lf">>, <<"out">>, <<"bs">>}
    OBVIOUS
  <2>3. /\ <<>> \in Seq(Outputs) /\ <<"out", "cr", "lf">> \in Seq(Outputs)
        /\ <<"out">> \in Seq(Outputs) /\ <<"bs">> \in Seq(Outputs)
    BY <2>1, EmptySeq, ShortOutputs
  <2> QED
    BY <2>2, <2>3, Zenon
<1>3. prompt \in {"prompt", "other prompt"}
  BY <1>0 DEF Shells
<1>4. shell' \in Shells /\ screen' \in Seq(Outputs)
  BY <1>0, <1>1, <1>2, <1>3, PromptAfterTyped
<1>5. /\ relay' = relay /\ entered' = entered /\ pressed' = pressed
      /\ submitted' = submitted /\ doubt' = doubt /\ keys' = keys
  BY DEF CommandFinishes
<1>6. RemoteType'
  BY <1>0, <1>4, <1>5 DEF RemoteType
<1> QED
  BY <1>0, <1>5, <1>6, ShellKeeps

LEMMA CommandAsksKeeps ==
    ASSUME RecorderInv, CommandAsks
    PROVE  RecorderInv'
<1>0. /\ keys \in Seq(Keys) /\ screen \in Seq(Outputs) /\ shell \in Shells
      /\ submitted \in Seq(Commands) /\ doubt \subseteq Doubts
  BY DEF RecorderInv, TypeInv, RemoteType, HistoryType
<1>1. shell' \in Shells
  BY <1>0 DEF CommandAsks, Shells
<1>2. screen' \in Seq(Outputs)
  BY <1>0, AppendProperties DEF CommandAsks, Outputs, Cells
<1>3. /\ relay' = relay /\ entered' = entered /\ pressed' = pressed
      /\ submitted' = submitted /\ doubt' = doubt /\ keys' = keys
  BY DEF CommandAsks
<1>4. RemoteType'
  BY <1>0, <1>1, <1>2, <1>3 DEF RemoteType
<1> QED
  BY <1>0, <1>3, <1>4, ShellKeeps

LEMMA RecorderInitial == Init => RecorderInv
<1> SUFFICES ASSUME Init PROVE RecorderInv
  OBVIOUS
<1>1. rec \in Recorders /\ rec.pending = NothingPending
  BY EmptySeq DEF Init, NewRecorder, Recorders
<1>2. shell \in Shells
  BY DEF Init, NewShell, Shells
<1>3. screen \in Seq(Outputs)
  BY DEF Init, Outputs, Cells
<1>4. TypeInv
  <2>1. /\ emitting \in Seq(Commands) /\ recorded \in Seq(Commands) /\ keys \in Seq(Keys)
        /\ submitted \in Seq(Commands)
    BY EmptySeq DEF Init
  <2>2. ended \in BOOLEAN /\ pressed \in Nat /\ entered \in Nat /\ doubt \subseteq Doubts
    BY DEF Init
  <2> QED
    BY <1>1, <1>2, <1>3, <2>1, <2>2 DEF TypeInv, RelayType, RemoteType, HistoryType
<1>5. EnterInv
  BY <1>1 DEF Init, EnterInv, Waiting
<1> QED
  BY <1>4, <1>5 DEF RecorderInv

LEMMA RecorderNext == RecorderInv /\ [Next]_vars => RecorderInv'
<1> SUFFICES ASSUME RecorderInv, [Next]_vars PROVE RecorderInv'
  OBVIOUS
<1>0. doubt \subseteq Doubts
  BY DEF RecorderInv, TypeInv, HistoryType
<1>1. ASSUME NEW key \in Keys, Press(key) PROVE RecorderInv'
  BY <1>1, PressKeeps
<1>2. ASSUME NEW n \in ChunkEnds, ReadOutput(n) PROVE RecorderInv'
  BY <1>2, ReadOutputKeeps
<1>t. ASSUME NEW n \in DOMAIN screen, ReadTorn(n) PROVE RecorderInv'
  BY <1>t, ReadTornKeeps
<1>3. CASE EmitCommand
  BY <1>3, EmitCommandKeeps
<1>4. CASE AttackerLeaves
  <2>1. doubt' \subseteq Doubts
    BY <1>0, <1>4 DEF AttackerLeaves, Doubts
  <2> QED
    BY <1>4, <2>1, TeardownKeeps DEF AttackerLeaves
<1>5. CASE ShellExits
  BY <1>0, <1>5, TeardownKeeps DEF ShellExits
<1>6. CASE ShellEdits
  BY <1>6, ShellEditsKeeps
<1>7. CASE ShellTakesLine
  BY <1>7, ShellTakesLineKeeps
<1>8. CASE ShellInterrupted
  BY <1>8, ShellInterruptedKeeps
<1>9. CASE CommandFinishes
  BY <1>9, CommandFinishesKeeps
<1>10. CASE CommandAsks
  BY <1>10, CommandAsksKeeps
<1>11. CASE UNCHANGED vars
  <2>1. UNCHANGED <<relay, remote, keys, pressed, entered, doubt>>
    BY <1>11 DEF vars, relay, remote
  <2>2. RemoteType'
    BY <2>1 DEF RecorderInv, TypeInv, RemoteType, remote
  <2> QED
    BY <1>0, <2>1, <2>2, ShellKeeps
<1> QED
  BY <1>1, <1>2, <1>t, <1>3, <1>4, <1>5, <1>6, <1>7, <1>8, <1>9, <1>10, <1>11 DEF Next

LEMMA RecorderInductive == Spec => []RecorderInv
BY RecorderInitial, RecorderNext, PTL DEF Spec

LEMMA RecorderTypes == RecorderInv => RecorderTypeOK
<1> SUFFICES ASSUME RecorderInv PROVE RecorderTypeOK
  OBVIOUS
<1>1. /\ rec \in Recorders /\ recorded \in Seq(Commands) /\ emitting \in Seq(Commands)
      /\ ended \in BOOLEAN /\ doubt \subseteq Doubts
  BY DEF RecorderInv, TypeInv, RelayType, HistoryType
<1>2. /\ rec.typed \in Seq(Text) /\ rec.line \in Seq(Cells)
      /\ rec.col \in 0..Len(rec.line)
      /\ rec.pending \in Seq(Text) \cup {NothingPending}
      /\ {rec.unreliable, rec.escaping, ended} \subseteq BOOLEAN
  BY <1>1 DEF Recorders
<1>3. \A c \in ToSet(recorded \o emitting) : c \in Commands
  <2>1. recorded \o emitting \in Seq(Commands)
    BY <1>1, ConcatProperties
  <2> QED
    BY <2>1 DEF ToSet
<1> QED
  BY <1>1, <1>2, <1>3 DEF RecorderTypeOK, Commands

(* The types of the recorder, for keystrokes and output of any length: the *)
(* column never leaves the line it writes to, blanks are not a command and *)
(* neither is a paste longer than MAX_COMMAND_LEN.                         *)
THEOREM RecorderTyped == Spec => []RecorderTypeOK
BY RecorderInductive, RecorderTypes, PTL

LEMMA RecordsCounted == RecorderInv => OneRecordPerEnter
<1> SUFFICES ASSUME RecorderInv PROVE OneRecordPerEnter
  OBVIOUS
<1>1. recorded \in Seq(Commands) /\ emitting \in Seq(Commands) /\ entered \in Nat
  BY DEF RecorderInv, TypeInv, RelayType, HistoryType
<1>2. Len(recorded \o emitting) = Len(recorded) + Len(emitting)
  BY <1>1, ConcatProperties
<1> QED
  BY <1>1, <1>2 DEF RecorderInv, EnterInv, Waiting, OneRecordPerEnter

(* Nothing a shell prints makes a command of its own: the record, with what *)
(* is being emitted and what is pending, never exceeds the presses of Enter.*)
THEOREM RecordsAnswerEnter == Spec => []OneRecordPerEnter
BY RecorderInductive, RecordsCounted, PTL

-----------------------------------------------------------------------------
(* Reading, cell by cell.                                                   *)

(* The states between the cells of a chunk.                                 *)
FeedsCells(f, r, chunk) ==
    /\ f[0] = [rec |-> r, commands |-> <<>>]
    /\ \A k \in 1..Len(chunk) : f[k] = FeedCell(f[k - 1], chunk[k])
    /\ FeedOutput(r, chunk) = f[Len(chunk)]

(* Feeding a chunk passes through one state per cell.                       *)
LEMMA CellsAreFed ==
    ASSUME NEW r \in Recorders, NEW chunk \in Seq(Outputs)
    PROVE  \E f \in [0..Len(chunk) -> Fed(r)] : FeedsCells(f, r, chunk)
<1> DEFINE base == [rec |-> r, commands |-> <<>>]
           S == DOMAIN chunk
           n == Len(chunk)
           step == [p \in Outputs \X Fed(r) |-> FeedCell(p[2], p[1])]
           stepAt == [p \in S \X Fed(r) |-> step[<<chunk[p[1]], p[2]>>]]
           pick == [T \in SUBSET S |-> Max(T)]
           Solves(f) == f = [T \in SUBSET S |->
              IF T = {} THEN base ELSE FeedCell(f[T \ {Max(T)}], chunk[Max(T)])]
           solution == CHOOSE f : Solves(f)
<1>a. base \in Fed(r)
  BY EmptySeq DEF Fed
<1>b. \A b \in Outputs : \A t \in Fed(r) : FeedCell(t, b) \in Fed(r)
  BY FeedCellTyped
<1>1. IsFiniteSet(S)
  BY FS_Interval
<1>2. \A T \in SUBSET S : T # {} => Max(T) \in T
  <2>1. S \subseteq 0..Len(chunk) /\ Len(chunk) \in Nat
    OBVIOUS
  <2> QED
    BY <2>1, MaxOfSome
<1>3. step \in [Outputs \X Fed(r) -> Fed(r)]
  BY <1>b
<1> HIDE DEF S
<1>4. stepAt \in [S \X Fed(r) -> Fed(r)]
  BY <1>3 DEF S
<1>5. PICK iter \in [SUBSET S -> Fed(r)] : FoldEquation(iter, S, base, stepAt, pick)
  <2> HIDE DEF stepAt, base
  <2> QED
    BY <1>a, <1>1, <1>2, <1>4, FoldExists
<1>6. \A T \in SUBSET S :
         iter[T] = IF T = {} THEN base ELSE FeedCell(iter[T \ {Max(T)}], chunk[Max(T)])
  <2> SUFFICES ASSUME NEW T \in SUBSET S
               PROVE  iter[T] = IF T = {} THEN base
                                ELSE FeedCell(iter[T \ {Max(T)}], chunk[Max(T)])
    OBVIOUS
  <2>1. iter[T] = IF T = {} THEN base ELSE stepAt[<<pick[T], iter[T \ {pick[T]}]>>]
    BY <1>5 DEF FoldEquation
  <2>2. T # {} => /\ pick[T] = Max(T) /\ Max(T) \in S
                  /\ iter[T \ {Max(T)}] \in Fed(r) /\ chunk[Max(T)] \in Outputs
    BY <1>2 DEF S
  <2> HIDE DEF base
  <2> QED
    BY <2>1, <2>2
<1>7. Solves(iter)
  <2>1. iter = [T \in SUBSET S |-> iter[T]]
    BY <1>5
  <2> QED
    BY <2>1, <1>6, Zenon
<1>8. FeedOutput(r, chunk) = solution[DOMAIN chunk]
  BY DEF FeedOutput, FoldLeft, MapThenFoldSet, S
<1> HIDE DEF Solves
<1>9. Solves(solution)
  BY <1>7, Zenon
<1> HIDE DEF solution
<1>10. \A T \in SUBSET S :
         solution[T] = IF T = {} THEN base ELSE FeedCell(solution[T \ {Max(T)}], chunk[Max(T)])
  BY <1>9 DEF Solves
<1> HIDE DEF base
<1>11. \A k \in 0..n : 1..k \in SUBSET S
  BY DEF S
<1>12. solution[1..0] = base
  <2>1. 1..0 = {} /\ {} \in SUBSET S
    OBVIOUS
  <2> QED
    BY <2>1, <1>10
<1>13. ASSUME NEW k \in 1..n
       PROVE  solution[1..k] = FeedCell(solution[1..(k - 1)], chunk[k])
  <2>1. PICK j \in Nat : k = j + 1
    <3>1. k - 1 \in Nat /\ k = (k - 1) + 1
      OBVIOUS
    <3> QED
      BY <3>1
  <2>2. 1..k \in SUBSET S
    BY <1>11
  <2>3. 1..k # {} /\ Max(1..k) = k /\ (1..k) \ {k} = 1..j
    <3>1. /\ 1..(j + 1) # {} /\ Max(1..(j + 1)) = j + 1
          /\ (1..(j + 1)) \ {j + 1} = 1..j
      BY UptoNext
    <3> QED
      BY <2>1, <3>1, Zenon
  <2>4. j = k - 1
    BY <2>1
  <2> QED
    BY <2>2, <2>3, <2>4, <1>10
<1> DEFINE Good == {k \in Nat : k <= n => solution[1..k] \in Fed(r)}
<1>14. Nat \subseteq Good
  <2>1. 0 \in Good
    BY <1>a, <1>12
  <2>2. \A k \in Nat : k \in Good => k + 1 \in Good
    <3> SUFFICES ASSUME NEW k \in Nat, k \in Good, k + 1 <= n
                 PROVE  solution[1..(k + 1)] \in Fed(r)
      OBVIOUS
    <3>1. k + 1 \in 1..n /\ chunk[k + 1] \in Outputs /\ (k + 1) - 1 = k
      OBVIOUS
    <3>2. solution[1..k] \in Fed(r)
      OBVIOUS
    <3> QED
      BY <3>1, <3>2, <1>b, <1>13
  <2> HIDE DEF Good
  <2> QED
    BY <2>1, <2>2, NumbersInduction
<1> DEFINE f == [k \in 0..n |-> solution[1..k]]
<1>15. f \in [0..n -> Fed(r)]
  BY <1>14
<1>16. FeedsCells(f, r, chunk)
  <2>1. f[0] = base
    BY <1>12
  <2>2. \A k \in 1..n : f[k] = FeedCell(f[k - 1], chunk[k])
    <3> SUFFICES ASSUME NEW k \in 1..n PROVE f[k] = FeedCell(f[k - 1], chunk[k])
      OBVIOUS
    <3>1. f[k] = solution[1..k] /\ f[k - 1] = solution[1..(k - 1)]
      OBVIOUS
    <3> HIDE DEF f
    <3> QED
      BY <3>1, <1>13
  <2>3. FeedOutput(r, chunk) = f[n]
    <3>1. DOMAIN chunk = 1..n /\ f[n] = solution[1..n]
      OBVIOUS
    <3> QED
      BY <1>8, <3>1
  <2> HIDE DEF f
  <2> QED
    BY <2>1, <2>2, <2>3 DEF FeedsCells, base
<1> HIDE DEF f
<1> QED
  BY <1>15, <1>16

(* One key is one byte, but for the arrow.                                  *)
FeedsBytes(f, r, bytes) ==
    /\ f[0] = r
    /\ \A k \in 1..Len(bytes) : f[k] = FeedByte(f[k - 1], bytes[k])
    /\ FeedInput(r, bytes) = f[Len(bytes)]

(* Feeding keystrokes passes through one state per byte.                    *)
LEMMA BytesAreFed ==
    ASSUME NEW r \in Recorders, NEW bytes \in Seq(Bytes)
    PROVE  \E f \in [0..Len(bytes) -> Recorders] : FeedsBytes(f, r, bytes)
<1> DEFINE S == DOMAIN bytes
           n == Len(bytes)
           step == [p \in Bytes \X Recorders |-> FeedByte(p[2], p[1])]
           stepAt == [p \in S \X Recorders |-> step[<<bytes[p[1]], p[2]>>]]
           pick == [T \in SUBSET S |-> Max(T)]
           Solves(f) == f = [T \in SUBSET S |->
              IF T = {} THEN r ELSE FeedByte(f[T \ {Max(T)}], bytes[Max(T)])]
           solution == CHOOSE f : Solves(f)
<1>b. \A b \in Bytes : \A t \in Recorders : FeedByte(t, b) \in Recorders
  BY FeedByteTyped
<1>1. IsFiniteSet(S)
  BY FS_Interval
<1>2. \A T \in SUBSET S : T # {} => Max(T) \in T
  <2>1. S \subseteq 0..Len(bytes) /\ Len(bytes) \in Nat
    OBVIOUS
  <2> QED
    BY <2>1, MaxOfSome
<1>3. step \in [Bytes \X Recorders -> Recorders]
  BY <1>b
<1> HIDE DEF S
<1>4. stepAt \in [S \X Recorders -> Recorders]
  BY <1>3 DEF S
<1>5. PICK iter \in [SUBSET S -> Recorders] : FoldEquation(iter, S, r, stepAt, pick)
  <2> HIDE DEF stepAt
  <2> QED
    BY <1>1, <1>2, <1>4, FoldExists
<1>6. \A T \in SUBSET S :
         iter[T] = IF T = {} THEN r ELSE FeedByte(iter[T \ {Max(T)}], bytes[Max(T)])
  <2> SUFFICES ASSUME NEW T \in SUBSET S
               PROVE  iter[T] = IF T = {} THEN r
                                ELSE FeedByte(iter[T \ {Max(T)}], bytes[Max(T)])
    OBVIOUS
  <2>1. iter[T] = IF T = {} THEN r ELSE stepAt[<<pick[T], iter[T \ {pick[T]}]>>]
    BY <1>5 DEF FoldEquation
  <2>2. T # {} => /\ pick[T] = Max(T) /\ Max(T) \in S
                  /\ iter[T \ {Max(T)}] \in Recorders /\ bytes[Max(T)] \in Bytes
    BY <1>2 DEF S
  <2> QED
    BY <2>1, <2>2
<1>7. Solves(iter)
  <2>1. iter = [T \in SUBSET S |-> iter[T]]
    BY <1>5
  <2> QED
    BY <2>1, <1>6, Zenon
<1>8. FeedInput(r, bytes) = solution[DOMAIN bytes]
  BY DEF FeedInput, FoldLeft, MapThenFoldSet, S
<1> HIDE DEF Solves
<1>9. Solves(solution)
  BY <1>7, Zenon
<1> HIDE DEF solution
<1>10. \A T \in SUBSET S :
         solution[T] = IF T = {} THEN r ELSE FeedByte(solution[T \ {Max(T)}], bytes[Max(T)])
  BY <1>9 DEF Solves
<1>11. \A k \in 0..n : 1..k \in SUBSET S
  BY DEF S
<1>12. solution[1..0] = r
  <2>1. 1..0 = {} /\ {} \in SUBSET S
    OBVIOUS
  <2> QED
    BY <2>1, <1>10
<1>13. ASSUME NEW k \in 1..n
       PROVE  solution[1..k] = FeedByte(solution[1..(k - 1)], bytes[k])
  <2>1. PICK j \in Nat : k = j + 1
    <3>1. k - 1 \in Nat /\ k = (k - 1) + 1
      OBVIOUS
    <3> QED
      BY <3>1
  <2>2. 1..k \in SUBSET S
    BY <1>11
  <2>3. 1..k # {} /\ Max(1..k) = k /\ (1..k) \ {k} = 1..j
    <3>1. /\ 1..(j + 1) # {} /\ Max(1..(j + 1)) = j + 1
          /\ (1..(j + 1)) \ {j + 1} = 1..j
      BY UptoNext
    <3> QED
      BY <2>1, <3>1, Zenon
  <2>4. j = k - 1
    BY <2>1
  <2> QED
    BY <2>2, <2>3, <2>4, <1>10
<1> DEFINE Good == {k \in Nat : k <= n => solution[1..k] \in Recorders}
<1>14. Nat \subseteq Good
  <2>1. 0 \in Good
    BY <1>12
  <2>2. \A k \in Nat : k \in Good => k + 1 \in Good
    <3> SUFFICES ASSUME NEW k \in Nat, k \in Good, k + 1 <= n
                 PROVE  solution[1..(k + 1)] \in Recorders
      OBVIOUS
    <3>1. k + 1 \in 1..n /\ bytes[k + 1] \in Bytes /\ (k + 1) - 1 = k
      OBVIOUS
    <3>2. solution[1..k] \in Recorders
      OBVIOUS
    <3> QED
      BY <3>1, <3>2, <1>b, <1>13
  <2> HIDE DEF Good
  <2> QED
    BY <2>1, <2>2, NumbersInduction
<1> DEFINE f == [k \in 0..n |-> solution[1..k]]
<1>15. f \in [0..n -> Recorders]
  BY <1>14
<1>16. FeedsBytes(f, r, bytes)
  <2>1. f[0] = r
    BY <1>12
  <2>2. \A k \in 1..n : f[k] = FeedByte(f[k - 1], bytes[k])
    <3> SUFFICES ASSUME NEW k \in 1..n PROVE f[k] = FeedByte(f[k - 1], bytes[k])
      OBVIOUS
    <3>1. f[k] = solution[1..k] /\ f[k - 1] = solution[1..(k - 1)]
      OBVIOUS
    <3> HIDE DEF f
    <3> QED
      BY <3>1, <1>13
  <2>3. FeedInput(r, bytes) = f[n]
    <3>1. DOMAIN bytes = 1..n /\ f[n] = solution[1..n]
      OBVIOUS
    <3> QED
      BY <1>8, <3>1
  <2> HIDE DEF f
  <2> QED
    BY <2>1, <2>2, <2>3 DEF FeedsBytes
<1> HIDE DEF f
<1> QED
  BY <1>15, <1>16

-----------------------------------------------------------------------------
(* What is on the line.                                                     *)

Displays == {d \in [line : Seq(Cells), col : Nat] : d.col <= Len(d.line)}
Display(r) == [line |-> r.line, col |-> r.col]

(* The effect of a cell on the line and the column.                         *)
Overwritten(d, cell) ==
    IF d.col < Len(d.line) THEN [d.line EXCEPT ![d.col + 1] = cell] ELSE Append(d.line, cell)
Show(d, cell) ==
    CASE cell = "lf" -> [line |-> <<>>, col |-> 0]
      [] cell = "cr" -> [line |-> d.line, col |-> 0]
      [] cell = "bs" -> [line |-> d.line, col |-> IF d.col > 0 THEN d.col - 1 ELSE 0]
      [] cell = "el" -> d
      [] cell \in Cells -> [line |-> Overwritten(d, cell), col |-> d.col + 1]

(* The cases of Show.                                                       *)
LEMMA ShowIs ==
    ASSUME NEW d \in Displays
    PROVE  /\ Show(d, "lf") = [line |-> <<>>, col |-> 0]
           /\ Show(d, "cr") = [line |-> d.line, col |-> 0]
           /\ Show(d, "bs") = [line |-> d.line, col |-> IF d.col > 0 THEN d.col - 1 ELSE 0]
           /\ Show(d, "el") = d
           /\ \A cell \in Cells : Show(d, cell) = [line |-> Overwritten(d, cell), col |-> d.col + 1]
BY DEF Show, Cells, Text, Letter, Space, Completion

(* No cell takes the column out of the line.                                *)
LEMMA ShowTyped ==
    ASSUME NEW d \in Displays, NEW cell \in Outputs
    PROVE  Show(d, cell) \in Displays
<1>1. d.line \in Seq(Cells) /\ d.col \in Nat /\ d.col <= Len(d.line) /\ Len(d.line) \in Nat
  BY DEF Displays
<1>2. \A l \in Seq(Cells), n \in Nat : n <= Len(l) => [line |-> l, col |-> n] \in Displays
  BY DEF Displays
<1>3. CASE cell = "lf"
  <2>1. <<>> \in Seq(Cells) /\ Len(<<>>) = 0
    OBVIOUS
  <2>2. [line |-> <<>>, col |-> 0] \in Displays
    BY <2>1 DEF Displays
  <2> QED
    BY <1>3, <2>2, ShowIs
<1>4. CASE cell = "cr"
  <2>1. [line |-> d.line, col |-> 0] \in Displays
    BY <1>1 DEF Displays
  <2> QED
    BY <1>4, <2>1, ShowIs
<1>5. CASE cell = "bs"
  <2> DEFINE n == IF d.col > 0 THEN d.col - 1 ELSE 0
  <2>1. n \in Nat /\ n <= Len(d.line)
    BY <1>1
  <2>2. Show(d, cell) = [line |-> d.line, col |-> n]
    BY <1>5, ShowIs
  <2> HIDE DEF n
  <2> QED
    BY <1>1, <1>2, <2>1, <2>2
<1>6. CASE cell = "el"
  BY <1>6, ShowIs
<1>7. CASE cell \in Cells
  <2>1. Overwritten(d, cell) \in Seq(Cells) /\ d.col + 1 <= Len(Overwritten(d, cell))
    <3>1. CASE d.col < Len(d.line)
      <4>1. d.col + 1 \in 1..Len(d.line)
        BY <1>1, <3>1
      <4> QED
        BY <1>1, <1>7, <3>1, <4>1, ExceptSeq DEF Overwritten
    <3>2. CASE ~(d.col < Len(d.line))
      BY <1>1, <1>7, <3>2, AppendProperties DEF Overwritten
    <3> QED
      BY <3>1, <3>2
  <2>2. Show(d, cell) = [line |-> Overwritten(d, cell), col |-> d.col + 1]
    BY <1>7, ShowIs
  <2> QED
    BY <1>1, <1>2, <2>1, <2>2
<1> QED
  BY <1>3, <1>4, <1>5, <1>6, <1>7 DEF Outputs

(* What is reported of a line when it ends.                                 *)
Command(line, pending) == CommandOf([line |-> line, pending |-> pending])

(* What _resolve returns depends on the line and on what is pending.        *)
LEMMA CommandIs ==
    ASSUME NEW r \in Recorders
    PROVE  CommandOf(r) = Command(r.line, r.pending)
BY DEF CommandOf, Command

(* Nothing pending, nothing resolved.                                       *)
LEMMA NoCommand == \A l : Command(l, NothingPending) = <<>>
BY DEF CommandOf, Command

(* A cell shows on the line, and a line feed settles what is pending.       *)
CellRead(f, cell, to) ==
    /\ to.rec.line = Show(Display(f.rec), cell).line
    /\ to.rec.col = Show(Display(f.rec), cell).col
    /\ to.rec.typed = f.rec.typed /\ to.rec.escaping = f.rec.escaping
    /\ cell = "lf" => /\ to.rec.pending = NothingPending
                      /\ to.commands = f.commands \o Command(f.rec.line, f.rec.pending)
    /\ cell # "lf" => to.rec.pending = f.rec.pending /\ to.commands = f.commands

(* feed_output does to the recorder what the cell shows.                    *)
LEMMA CellIsRead ==
    ASSUME NEW r \in Recorders, NEW f \in Fed(r), NEW cell \in Outputs
    PROVE  CellRead(f, cell, FeedCell(f, cell)) /\ Display(f.rec) \in Displays
<1> DEFINE s == f.rec
           d == Display(s)
           to == FeedCell(f, cell)
<1>0. /\ s \in Recorders /\ f.commands \in Seq(Commands)
      /\ DOMAIN f = {"rec", "commands"}
  BY DEF Fed
<1>1. /\ s.line \in Seq(Cells) /\ s.col \in Nat /\ s.col <= Len(s.line)
      /\ DOMAIN s = {"typed", "pending", "unreliable", "escaping", "escape", "line", "col"}
  BY <1>0 DEF Recorders
<1>2. d \in Displays /\ d.line = s.line /\ d.col = s.col
  BY <1>1 DEF Displays, Display
<1> SUFFICES CellRead(f, cell, to)
  BY <1>2
<1> HIDE DEF s, d
<1>3. CASE cell = "lf"
  <2>1. to = [rec |-> NextLine(s), commands |-> f.commands \o CommandOf(s)]
    BY <1>3 DEF FeedCell, s, Cells, Text, Letter, Space, Completion
  <2>2. /\ NextLine(s).line = <<>> /\ NextLine(s).col = 0 /\ NextLine(s).pending = NothingPending
        /\ NextLine(s).typed = s.typed /\ NextLine(s).escaping = s.escaping
    BY <1>1 DEF NextLine
  <2>3. CommandOf(s) = Command(s.line, s.pending)
    BY <1>0, CommandIs
  <2>4. Show(d, cell) = [line |-> <<>>, col |-> 0]
    BY <1>2, <1>3, ShowIs
  <2> HIDE DEF to
  <2>5. to.rec = NextLine(s) /\ to.commands = f.commands \o Command(s.line, s.pending)
    BY <2>1, <2>3
  <2>6. /\ to.rec.line = Show(d, cell).line /\ to.rec.col = Show(d, cell).col
        /\ to.rec.typed = s.typed /\ to.rec.escaping = s.escaping
        /\ to.rec.pending = NothingPending
    BY <2>2, <2>4, <2>5
  <2> QED
    BY <1>3, <2>5, <2>6 DEF CellRead, s, d
<1>4. ASSUME NEW x, x.line = Show(d, cell).line, x.col = Show(d, cell).col,
             x.typed = s.typed, x.escaping = s.escaping, x.pending = s.pending,
             cell # "lf", to = [f EXCEPT !.rec = x]
      PROVE  CellRead(f, cell, to)
  <2>1. to.rec = x /\ to.commands = f.commands
    BY <1>0, <1>4
  <2> HIDE DEF to
  <2> QED
    BY <1>4, <2>1 DEF CellRead, s, d
<1>5. CASE cell = "cr"
  <2>1. to = [f EXCEPT !.rec = Return(s)]
    BY <1>5 DEF FeedCell, s, Cells, Text, Letter, Space, Completion
  <2>2. /\ Return(s).line = s.line /\ Return(s).col = 0 /\ Return(s).pending = s.pending
        /\ Return(s).typed = s.typed /\ Return(s).escaping = s.escaping
    BY <1>1 DEF Return
  <2>3. Show(d, cell) = [line |-> s.line, col |-> 0]
    BY <1>2, <1>5, ShowIs
  <2> HIDE DEF to
  <2> QED
    BY <1>4, <1>5, <2>1, <2>2, <2>3
<1>6. CASE cell = "bs"
  <2> DEFINE back == Max({0, s.col - 1})
             n == IF s.col > 0 THEN s.col - 1 ELSE 0
  <2>1. to = [f EXCEPT !.rec = Backspace(s)]
    BY <1>6 DEF FeedCell, s, Cells, Text, Letter, Space, Completion
  <2>2. Backspace(s) = [s EXCEPT !.col = back]
    BY DEF Backspace
  <2>3. back = n
    <3>1. n \in {0, s.col - 1} /\ \A y \in {0, s.col - 1} : n >= y
      BY <1>1
    <3>2. \A x \in {0, s.col - 1} : (\A y \in {0, s.col - 1} : x >= y) => x = n
      BY <1>1
    <3> QED
      BY <3>1, <3>2 DEF Max
  <2> HIDE DEF back
  <2>4. /\ Backspace(s).line = s.line /\ Backspace(s).col = n /\ Backspace(s).pending = s.pending
        /\ Backspace(s).typed = s.typed /\ Backspace(s).escaping = s.escaping
    BY <1>1, <2>2, <2>3
  <2>5. Show(d, cell) = [line |-> s.line, col |-> n]
    BY <1>2, <1>6, ShowIs
  <2> HIDE DEF to, n
  <2> QED
    BY <1>4, <1>6, <2>1, <2>4, <2>5
<1>7. CASE cell = "el"
  <2>1. to = [f EXCEPT !.rec = s]
    <3>1. to = f
      BY <1>7 DEF FeedCell, Cells, Text, Letter, Space, Completion
    <3>2. f = [f EXCEPT !.rec = s]
      BY DEF Fed, s
    <3> QED
      BY <3>1, <3>2
  <2>2. Show(d, cell) = d
    BY <1>2, <1>7, ShowIs
  <2> HIDE DEF to
  <2> QED
    BY <1>2, <1>4, <1>7, <2>1, <2>2
<1>8. CASE cell \in Cells
  <2>0. cell \notin {"lf", "cr", "bs", "el"}
    BY <1>8 DEF Cells, Text, Letter, Space, Completion
  <2>1. to = [f EXCEPT !.rec = Write(s, cell)]
    BY <1>8, <2>0 DEF FeedCell, s, Cells, Text, Letter, Space, Completion
  <2> DEFINE l == Overwritten(d, cell)
  <2>2. Write(s, cell) = [s EXCEPT !.line = l, !.col = s.col + 1]
    BY <1>1, <1>2 DEF Write, Overwritten
  <2>3. Show(d, cell) = [line |-> l, col |-> s.col + 1]
    BY <1>2, <1>8, ShowIs
  <2> HIDE DEF l
  <2>4. /\ Write(s, cell).line = l /\ Write(s, cell).col = s.col + 1
        /\ Write(s, cell).pending = s.pending
        /\ Write(s, cell).typed = s.typed /\ Write(s, cell).escaping = s.escaping
    BY <1>1, <2>2
  <2> HIDE DEF to
  <2> QED
    BY <1>4, <2>0, <2>1, <2>3, <2>4
<1> HIDE DEF to
<1> QED
  BY <1>3, <1>5, <1>6, <1>7, <1>8 DEF Outputs

(* The states of the line between the cells of a screen.                    *)
Shows(d, s, g) ==
    /\ g \in [0..Len(s) -> Displays]
    /\ g[0] = d
    /\ \A k \in 1..Len(s) : g[k] = Show(g[k - 1], s[k])

NoFeed(s, n) == \A j \in 1..n : s[j] # "lf"
FirstFeed(s, p) == p \in DOMAIN s /\ s[p] = "lf" /\ NoFeed(s, p - 1)

(* Some line feed of the output is the first, or there is none.             *)
LEMMA FeedOrNone ==
    ASSUME NEW s \in Seq(Outputs)
    PROVE  NoFeed(s, Len(s)) \/ \E p : FirstFeed(s, p)
<1> SUFFICES ASSUME ~NoFeed(s, Len(s))
             PROVE  \E p : FirstFeed(s, p)
  OBVIOUS
<1> DEFINE F == {j \in Nat : j \in 1..Len(s) /\ s[j] = "lf"}
<1>1. F # {} /\ F \subseteq Nat
  BY DEF NoFeed
<1>2. PICK p \in F : \A j \in F : p <= j
  <2> HIDE DEF F
  <2> QED
    BY <1>1, LeastElement
<1>3. \A j \in 1..(p - 1) : j \in 1..Len(s) /\ j < p
  OBVIOUS
<1>4. NoFeed(s, p - 1)
  BY <1>2, <1>3 DEF NoFeed
<1> QED
  BY <1>2, <1>4 DEF FirstFeed

(* What has been read after n cells.                                        *)
ReadTo(f, r, s, g, n) ==
    /\ Display(f.rec) = g[n]
    /\ f.rec.typed = r.typed /\ f.rec.escaping = r.escaping
    /\ NoFeed(s, n) => f.rec.pending = r.pending /\ f.commands = <<>>
    /\ \A p \in 1..n : FirstFeed(s, p) =>
        f.rec.pending = NothingPending /\ f.commands = Command(g[p - 1].line, r.pending)

(* One more cell is read: the recorder's line is the one shown so far, and  *)
(* what the first line feed resolves is all that was resolved.              *)
LEMMA ReadNext ==
    ASSUME NEW r \in Recorders, NEW s \in Seq(Outputs), NEW g, Shows(Display(r), s, g),
           NEW k \in Nat, k + 1 <= Len(s), NEW f \in Fed(r), ReadTo(f, r, s, g, k),
           NEW to, to = FeedCell(f, s[k + 1])
    PROVE  ReadTo(to, r, s, g, k + 1)
<1> DEFINE cell == s[k + 1]
<1>1. cell \in Outputs /\ k + 1 \in 1..Len(s) /\ (k + 1) - 1 = k
  OBVIOUS
<1>2. CellRead(f, cell, to)
  BY <1>1, CellIsRead
<1>3. g[k + 1] = Show(g[k], cell) /\ g[k + 1] \in Displays
  BY <1>1 DEF Shows
<1>4. Display(f.rec) = g[k] /\ f.rec.line = g[k].line
  BY DEF ReadTo, Display
<1>5. Display(to.rec) = g[k + 1]
  <2>1. to.rec.line = g[k + 1].line /\ to.rec.col = g[k + 1].col
    BY <1>2, <1>3, <1>4 DEF CellRead
  <2> QED
    BY <1>3, <2>1 DEF Display, Displays
<1>6. to.rec.typed = r.typed /\ to.rec.escaping = r.escaping
  BY <1>2 DEF CellRead, ReadTo
<1>7. ASSUME NoFeed(s, k + 1)
      PROVE  to.rec.pending = r.pending /\ to.commands = <<>>
  <2>1. NoFeed(s, k) /\ cell # "lf"
    BY <1>1, <1>7 DEF NoFeed
  <2> QED
    BY <1>2, <2>1 DEF CellRead, ReadTo
<1>8. ASSUME NEW p \in 1..(k + 1), FirstFeed(s, p)
      PROVE  to.rec.pending = NothingPending /\ to.commands = Command(g[p - 1].line, r.pending)
  <2>1. CASE p = k + 1
    <3>1. NoFeed(s, k) /\ cell = "lf" /\ p - 1 = k
      BY <1>1, <1>8, <2>1 DEF FirstFeed
    <3>2. f.rec.pending = r.pending /\ f.commands = <<>>
      BY <3>1 DEF ReadTo
    <3>3. to.rec.pending = NothingPending /\ to.commands = <<>> \o Command(g[k].line, r.pending)
      BY <1>2, <1>4, <3>1, <3>2 DEF CellRead
    <3>4. Command(g[k].line, r.pending) \in Seq(Commands)
      <4>1. f.rec \in Recorders
        BY DEF Fed
      <4>2. CommandOf(f.rec) \in Seq(Commands)
        BY <4>1, CommandOfTyped
      <4> QED
        BY <1>4, <3>2, <4>1, <4>2, CommandIs
    <3> QED
      BY <3>1, <3>3, <3>4
  <2>2. CASE p \in 1..k
    <3>1. f.rec.pending = NothingPending /\ f.commands = Command(g[p - 1].line, r.pending)
      BY <1>8, <2>2 DEF ReadTo
    <3>2. f.commands \in Seq(Commands)
      BY DEF Fed
    <3>3. CASE cell = "lf"
      <4>1. Command(f.rec.line, f.rec.pending) = <<>>
        BY <3>1, NoCommand
      <4>2. to.commands = f.commands \o <<>> /\ to.rec.pending = NothingPending
        BY <1>2, <3>3, <4>1 DEF CellRead
      <4> QED
        BY <3>1, <3>2, <4>2
    <3>4. CASE cell # "lf"
      BY <1>2, <3>1, <3>4 DEF CellRead
    <3> QED
      BY <3>3, <3>4
  <2> QED
    BY <2>1, <2>2
<1> QED
  BY <1>5, <1>6, <1>7, <1>8 DEF ReadTo

(* Reading the first n cells of a screen.                                   *)
LEMMA PartRead ==
    ASSUME NEW r \in Recorders, NEW s \in Seq(Outputs), NEW g, Shows(Display(r), s, g),
           NEW n \in 0..Len(s)
    PROVE  ReadTo(FeedOutput(r, SubSeq(s, 1, n)), r, s, g, n)
<1> DEFINE chunk == SubSeq(s, 1, n)
<1>1. chunk \in Seq(Outputs) /\ Len(chunk) = n /\ \A k \in 1..n : chunk[k] = s[k]
  OBVIOUS
<1> HIDE DEF chunk
<1>2. PICK f \in [0..n -> Fed(r)] : FeedsCells(f, r, chunk)
  BY <1>1, CellsAreFed
<1> DEFINE Good == {k \in Nat : k <= n => ReadTo(f[k], r, s, g, k)}
<1>3. 0 \in Good
  <2>1. f[0] = [rec |-> r, commands |-> <<>>]
    BY <1>2 DEF FeedsCells
  <2>2. Display(f[0].rec) = g[0]
    BY <2>1 DEF Shows
  <2>3. 1..0 = {}
    OBVIOUS
  <2>4. ReadTo(f[0], r, s, g, 0)
    BY <2>1, <2>2, <2>3 DEF ReadTo
  <2> QED
    BY <2>4
<1>4. \A k \in Nat : k \in Good => k + 1 \in Good
  <2> SUFFICES ASSUME NEW k \in Nat, k \in Good, k + 1 <= n
               PROVE  ReadTo(f[k + 1], r, s, g, k + 1)
    OBVIOUS
  <2>1. k \in 0..n /\ k + 1 \in 1..n /\ (k + 1) - 1 = k /\ k + 1 <= Len(s)
    OBVIOUS
  <2>2. ReadTo(f[k], r, s, g, k) /\ f[k] \in Fed(r)
    BY <2>1
  <2>3. f[k + 1] = FeedCell(f[k], s[k + 1])
    <3>1. \A j \in 1..Len(chunk) : f[j] = FeedCell(f[j - 1], chunk[j])
      BY <1>2 DEF FeedsCells
    <3> QED
      BY <1>1, <2>1, <3>1
  <2> HIDE DEF Good
  <2> QED
    BY <2>1, <2>2, <2>3, ReadNext
<1>5. Nat \subseteq Good
  <2> HIDE DEF Good
  <2> QED
    BY <1>3, <1>4, NumbersInduction
<1>6. ReadTo(f[n], r, s, g, n)
  BY <1>5
<1> QED
  BY <1>1, <1>2, <1>6 DEF FeedsCells, chunk

-----------------------------------------------------------------------------
(* The line while it is edited.                                             *)

(* Output d ends as e.                                                      *)
ShowsTo(d, s, g, e) == Shows(d, s, g) /\ g[Len(s)] = e
Leads(d, s, e) == \E g : ShowsTo(d, s, g, e)

(* More output continues the states of the line.                            *)
Continues(g, h, n) == \A k \in 0..n : h[k] = g[k]

(* More output goes on from the line that was left.                         *)
LEMMA ShowsOn ==
    ASSUME NEW d, NEW s \in Seq(Outputs), NEW g, NEW mid, ShowsTo(d, s, g, mid),
           NEW more \in Seq(Outputs), NEW e, Leads(mid, more, e)
    PROVE  \E h : ShowsTo(d, s \o more, h, e) /\ Continues(g, h, Len(s))
<1>0. Shows(d, s, g) /\ g[Len(s)] = mid
  BY DEF ShowsTo
<1>1. PICK i : Shows(g[Len(s)], more, i) /\ i[Len(more)] = e
  BY <1>0 DEF Leads, ShowsTo
<1> DEFINE n == Len(s)
           m == Len(more)
           h == [k \in 0..(n + m) |-> IF k <= n THEN g[k] ELSE i[k - n]]
<1>2. n \in Nat /\ m \in Nat /\ Len(s \o more) = n + m
  BY ConcatProperties
<1>3. /\ \A k \in 1..n : (s \o more)[k] = s[k]
      /\ \A k \in 1..(n + m) : k > n => (s \o more)[k] = more[k - n]
  BY <1>2, ConcatProperties
<1>4. /\ \A k \in 0..n : g[k] \in Displays
      /\ \A k \in 0..m : i[k] \in Displays
      /\ g[0] = d /\ i[0] = g[n]
      /\ \A k \in 1..n : g[k] = Show(g[k - 1], s[k])
      /\ \A k \in 1..m : i[k] = Show(i[k - 1], more[k])
  BY <1>0, <1>1 DEF Shows
<1>5. h \in [0..(n + m) -> Displays]
  <2>1. ASSUME NEW k \in 0..(n + m)
        PROVE  h[k] \in Displays
    <3>1. CASE k <= n
      <4>1. k \in 0..n
        BY <1>2, <3>1
      <4> QED
        BY <1>4, <3>1, <4>1
    <3>2. CASE ~(k <= n)
      <4>1. k - n \in 0..m
        BY <1>2, <3>2
      <4> QED
        BY <1>4, <3>2, <4>1
    <3> QED
      BY <3>1, <3>2
  <2> QED
    BY <2>1
<1>6. \A k \in 0..n : h[k] = g[k]
  BY <1>2
<1>7. \A k \in 0..m : h[n + k] = i[k]
  <2> SUFFICES ASSUME NEW k \in 0..m PROVE h[n + k] = i[k]
    OBVIOUS
  <2>1. n + k \in 0..(n + m) /\ (n + k) - n = k /\ (n + k <= n => k = 0)
    BY <1>2
  <2>2. CASE k = 0
    BY <1>2, <1>4, <2>1, <2>2
  <2>3. CASE k # 0
    BY <1>2, <2>1, <2>3
  <2> QED
    BY <2>2, <2>3
<1> HIDE DEF h
<1>8. ASSUME NEW k \in 1..(n + m)
      PROVE  h[k] = Show(h[k - 1], (s \o more)[k])
  <2>1. CASE k <= n
    <3>1. k \in 1..n /\ k \in 0..n /\ k - 1 \in 0..n
      BY <1>2, <2>1
    <3> QED
      BY <1>3, <1>4, <1>6, <3>1
  <2>2. CASE ~(k <= n)
    <3>1. PICK j \in 1..m : k = n + j
      <4>1. k - n \in 1..m /\ k = n + (k - n)
        BY <1>2, <2>2
      <4> QED
        BY <4>1
    <3>2. j \in 0..m /\ j - 1 \in 0..m /\ k - 1 = n + (j - 1) /\ k - n = j
      BY <1>2, <3>1
    <3>3. h[k] = i[j] /\ h[k - 1] = i[j - 1] /\ (s \o more)[k] = more[j]
      BY <1>3, <1>7, <2>2, <3>1, <3>2
    <3> QED
      BY <1>4, <3>1, <3>3
  <2> QED
    BY <2>1, <2>2
<1>9. Shows(d, s \o more, h)
  <2>1. h[0] = d
    <3>1. 0 \in 0..n
      BY <1>2
    <3> QED
      BY <1>4, <1>6, <3>1
  <2> QED
    BY <1>2, <1>5, <1>8, <2>1 DEF Shows
<1>10. h[Len(s \o more)] = e
  <2>1. m \in 0..m
    BY <1>2
  <2> QED
    BY <1>1, <1>2, <1>7, <2>1
<1> QED
  BY <1>6, <1>9, <1>10 DEF Continues, ShowsTo

(* So the effects of two outputs compose.                                   *)
LEMMA LeadsOn ==
    ASSUME NEW d, NEW s \in Seq(Outputs), NEW e, Leads(d, s, e),
           NEW more \in Seq(Outputs), NEW to, Leads(e, more, to)
    PROVE  Leads(d, s \o more, to)
<1>1. PICK g : ShowsTo(d, s, g, e)
  BY DEF Leads
<1>2. PICK h : ShowsTo(d, s \o more, h, to) /\ Continues(g, h, Len(s))
  BY <1>1, ShowsOn
<1> QED
  BY <1>2 DEF Leads

(* No output, no effect.                                                    *)
LEMMA LeadsNowhere ==
    ASSUME NEW d \in Displays
    PROVE  Leads(d, <<>>, d)
<1> DEFINE g == [k \in 0..0 |-> d]
<1>1. Shows(d, <<>>, g) /\ g[Len(<<>>)] = d
  BY DEF Shows
<1> QED
  BY <1>1 DEF Leads, ShowsTo

(* The effect of one cell.                                                  *)
LEMMA LeadsOneCell ==
    ASSUME NEW d \in Displays, NEW cell \in Outputs
    PROVE  Leads(d, <<cell>>, Show(d, cell))
<1>1. Show(d, cell) \in Displays
  BY ShowTyped
<1> DEFINE g == [k \in 0..1 |-> IF k = 0 THEN d ELSE Show(d, cell)]
<1>2. Len(<<cell>>) = 1 /\ <<cell>>[1] = cell
  OBVIOUS
<1>3. g \in [0..1 -> Displays] /\ g[0] = d /\ g[1] = Show(d, cell)
  BY <1>1
<1> HIDE DEF g
<1>4. \A k \in 1..1 : g[k] = Show(g[k - 1], <<cell>>[k])
  <2> SUFFICES ASSUME NEW k \in 1..1 PROVE g[k] = Show(g[k - 1], <<cell>>[k])
    OBVIOUS
  <2>1. k = 1 /\ k - 1 = 0
    OBVIOUS
  <2> QED
    BY <1>2, <1>3, <2>1
<1>5. Shows(d, <<cell>>, g)
  BY <1>2, <1>3, <1>4 DEF Shows
<1> QED
  BY <1>2, <1>3, <1>5 DEF Leads, ShowsTo

(* Going back over n cells.                                                 *)
LEMMA LeadsBack ==
    ASSUME NEW d \in Displays, NEW n \in Nat, n <= d.col
    PROVE  Leads(d, Replicate(n, "bs"), [line |-> d.line, col |-> d.col - n])
<1> DEFINE s == Replicate(n, "bs")
           g == [k \in 0..n |-> [line |-> d.line, col |-> d.col - k]]
<1>1. Len(s) = n /\ \A k \in 1..n : s[k] = "bs"
  BY DEF Replicate
<1>2. d.line \in Seq(Cells) /\ d.col \in Nat /\ d.col <= Len(d.line) /\ d = [line |-> d.line, col |-> d.col]
  BY DEF Displays
<1>3. \A k \in 0..n : g[k] = [line |-> d.line, col |-> d.col - k] /\ g[k] \in Displays
  BY <1>2 DEF Displays
<1>4. g \in [0..n -> Displays] /\ g[0] = d
  <2>1. 0 \in 0..n /\ d.col - 0 = d.col
    BY <1>2
  <2> QED
    BY <1>2, <1>3, <2>1
<1> HIDE DEF g, s
<1>5. ASSUME NEW k \in 1..n
      PROVE  g[k] = Show(g[k - 1], s[k])
  <2>1. k - 1 \in 0..n /\ k \in 0..n /\ d.col - (k - 1) > 0 /\ (d.col - (k - 1)) - 1 = d.col - k
    BY <1>2
  <2> DEFINE e == g[k - 1]
  <2>2. e \in Displays /\ e.line = d.line /\ e.col = d.col - (k - 1)
    <3>1. e = [line |-> d.line, col |-> d.col - (k - 1)] /\ e \in Displays
      <4> HIDE DEF e
      <4>1. e = g[k - 1]
        BY DEF e
      <4> QED
        BY <1>3, <2>1, <4>1
    <3> HIDE DEF e
    <3> QED
      BY <3>1
  <2> HIDE DEF e
  <2>3. Show(e, "bs") = [line |-> e.line, col |-> IF e.col > 0 THEN e.col - 1 ELSE 0]
    BY <2>2, ShowIs
  <2>4. Show(e, "bs") = [line |-> d.line, col |-> d.col - k]
    BY <2>1, <2>2, <2>3
  <2> QED
    BY <1>1, <1>3, <2>1, <2>4 DEF e
<1>6. Shows(d, s, g)
  BY <1>1, <1>4, <1>5 DEF Shows
<1>7. g[Len(s)] = [line |-> d.line, col |-> d.col - n]
  BY <1>1, <1>3
<1> QED
  BY <1>6, <1>7 DEF Leads, ShowsTo, s

(* Writing cells from the column on.                                        *)
Over(d, w, k) ==
    [line |-> [j \in 1..(IF d.col + k > Len(d.line) THEN d.col + k ELSE Len(d.line)) |->
                 IF d.col < j /\ j <= d.col + k THEN w[j - d.col] ELSE d.line[j]],
     col |-> d.col + k]

(* Writing over a line keeps it a line.                                     *)
LEMMA OverTyped ==
    ASSUME NEW d \in Displays, NEW w \in Seq(Cells), NEW k \in 0..Len(w)
    PROVE  Over(d, w, k) \in Displays
<1>1. d.line \in Seq(Cells) /\ d.col \in Nat /\ d.col <= Len(d.line) /\ Len(d.line) \in Nat
  BY DEF Displays
<1> DEFINE n == IF d.col + k > Len(d.line) THEN d.col + k ELSE Len(d.line)
           l == [j \in 1..n |-> IF d.col < j /\ j <= d.col + k THEN w[j - d.col] ELSE d.line[j]]
<1>2. n \in Nat /\ d.col + k <= n /\ d.col + k \in Nat
  BY <1>1
<1>3. \A j \in 1..n : ~(d.col < j /\ j <= d.col + k) => j \in 1..Len(d.line)
  BY <1>1
<1>4. \A j \in 1..n : (d.col < j /\ j <= d.col + k) => j - d.col \in 1..Len(w)
  BY <1>1
<1> HIDE DEF n
<1>5. l \in [1..n -> Cells]
  <2>1. ASSUME NEW j \in 1..n
        PROVE  (IF d.col < j /\ j <= d.col + k THEN w[j - d.col] ELSE d.line[j]) \in Cells
    <3>1. CASE d.col < j /\ j <= d.col + k
      BY <1>4, <3>1
    <3>2. CASE ~(d.col < j /\ j <= d.col + k)
      BY <1>1, <1>3, <3>2
    <3> QED
      BY <3>1, <3>2
  <2> QED
    BY <2>1
<1>6. l \in Seq(Cells) /\ Len(l) = n
  BY <1>2, <1>5
<1>7. Over(d, w, k) = [line |-> l, col |-> d.col + k]
  BY DEF Over, n
<1> HIDE DEF l
<1> QED
  BY <1>2, <1>6, <1>7 DEF Displays

(* The next cell of a text is written over the line.                        *)
LEMMA OverNext ==
    ASSUME NEW d \in Displays, NEW w \in Seq(Cells), NEW k \in Nat, k + 1 <= Len(w)
    PROVE  Over(d, w, k + 1) = Show(Over(d, w, k), w[k + 1])
<1>1. d.line \in Seq(Cells) /\ d.col \in Nat /\ d.col <= Len(d.line) /\ Len(d.line) \in Nat
  BY DEF Displays
<1>2. PICK c, n \in Nat : c = d.col /\ n = Len(d.line) /\ c <= n
  BY <1>1
<1>3. Over(d, w, k) \in Displays /\ w[k + 1] \in Cells /\ k \in 0..Len(w)
  <2>1. k \in 0..Len(w) /\ k + 1 \in 1..Len(w)
    OBVIOUS
  <2> QED
    BY <2>1, OverTyped
<1> DEFINE e == Over(d, w, k)
           l == Overwritten(e, w[k + 1])
           full == IF c + k > n THEN c + k ELSE n
           more == IF c + (k + 1) > n THEN c + (k + 1) ELSE n
<1>4. Show(e, w[k + 1]) = [line |-> l, col |-> e.col + 1]
  BY <1>3, ShowIs
<1>5. /\ e.col = c + k
      /\ e.line = [j \in 1..full |-> IF c < j /\ j <= c + k THEN w[j - c] ELSE d.line[j]]
  BY <1>2 DEF Over
<1>6. full \in Nat /\ more \in Nat
  BY <1>2
<1>7. Len(e.line) = full /\ DOMAIN e.line = 1..full
  BY <1>5, <1>6
<1> DEFINE want == [j \in 1..more |-> IF c < j /\ j <= c + (k + 1) THEN w[j - c] ELSE d.line[j]]
<1>8. Over(d, w, k + 1) = [line |-> want, col |-> c + (k + 1)]
  BY <1>2 DEF Over
<1>x. /\ \A j \in 1..full : e.line[j] = IF c < j /\ j <= c + k THEN w[j - c] ELSE d.line[j]
      /\ \A j \in 1..more : want[j] = IF c < j /\ j <= c + (k + 1) THEN w[j - c] ELSE d.line[j]
  BY <1>5
<1>9. l = want
  <2>1. CASE c + k < full
    <3>1. more = full /\ c + k + 1 \in 1..full
      BY <1>2, <2>1
    <3>2. l = [e.line EXCEPT ![c + k + 1] = w[k + 1]]
      BY <1>5, <1>7, <2>1 DEF Overwritten
    <3>3. DOMAIN l = 1..full /\ DOMAIN want = 1..full
      BY <1>7, <3>1, <3>2
    <3>4. ASSUME NEW j \in 1..full
          PROVE  l[j] = want[j]
      <4>1. CASE j = c + k + 1
        <5>1. l[j] = w[k + 1]
          BY <1>7, <3>1, <3>2, <4>1
        <5>2. c < j /\ j <= c + (k + 1) /\ j - c = k + 1
          BY <1>2, <4>1
        <5>3. want[j] = w[j - c]
          BY <1>x, <3>1, <5>2
        <5> QED
          BY <5>1, <5>2, <5>3
      <4>2. CASE j # c + k + 1
        <5>1. l[j] = e.line[j]
          BY <1>7, <3>1, <3>2, <4>2
        <5>2. (c < j /\ j <= c + (k + 1)) <=> (c < j /\ j <= c + k)
          BY <1>2, <4>2
        <5>3. j \in 1..more
          BY <3>1
        <5> HIDE DEF full, more, e, l, want
        <5> QED
          BY <1>x, <5>1, <5>2, <5>3
      <4> QED
        BY <4>1, <4>2
    <3>5. l = [j \in 1..full |-> l[j]] /\ want = [j \in 1..full |-> want[j]]
      BY <3>2, <3>1, <1>7
    <3> HIDE DEF l, want
    <3> QED
      BY <3>4, <3>5
  <2>2. CASE ~(c + k < full)
    <3>1. full = c + k /\ more = full + 1
      BY <1>2, <2>2
    <3>2. l = Append(e.line, w[k + 1])
      BY <1>5, <1>7, <2>2 DEF Overwritten
    <3>3. e.line \in Seq(Cells)
      BY <1>3 DEF Displays
    <3>4. /\ l \in Seq(Cells) /\ Len(l) = full + 1 /\ l[full + 1] = w[k + 1]
          /\ \A j \in 1..full : l[j] = e.line[j]
      BY <1>3, <1>7, <3>2, <3>3
    <3>5. ASSUME NEW j \in 1..(full + 1)
          PROVE  l[j] = want[j]
      <4>1. CASE j = full + 1
        <5>1. c < j /\ j <= c + (k + 1) /\ j - c = k + 1
          BY <1>2, <3>1, <4>1
        <5>2. want[j] = w[j - c]
          BY <1>x, <3>1, <5>1
        <5> QED
          BY <3>4, <4>1, <5>1, <5>2
      <4>2. CASE j # full + 1
        <5>1. j \in 1..full
          BY <1>6, <4>2
        <5>2. (c < j /\ j <= c + (k + 1)) <=> (c < j /\ j <= c + k)
          <6> HIDE DEF full, more
          <6>1. j <= c + k
            BY <3>1, <5>1
          <6> QED
            BY <1>2, <5>1, <6>1
        <5>3. j \in 1..more
          BY <3>1
        <5>4. l[j] = e.line[j]
          BY <3>4, <5>1
        <5> HIDE DEF full, more, e, l, want
        <5> QED
          BY <1>x, <5>1, <5>2, <5>3, <5>4
      <4> QED
        BY <4>1, <4>2
    <3>6. l = [j \in 1..(full + 1) |-> l[j]]
      <4> HIDE DEF l, full
      <4> QED
        BY <1>6, <3>4
    <3>7. want = [j \in 1..(full + 1) |-> want[j]]
      BY <3>1
    <3> HIDE DEF l, want
    <3> QED
      BY <3>5, <3>6, <3>7
  <2> QED
    BY <2>1, <2>2
<1> HIDE DEF l, want, e, full, more
<1>10. e.col + 1 = c + (k + 1)
  <2>1. PICK col : col = e.col
    OBVIOUS
  <2>2. col = c + k
    BY <1>5, <2>1
  <2>3. col + 1 = c + (k + 1)
    BY <1>2, <2>2
  <2> QED
    BY <2>1, <2>3
<1> QED
  BY <1>4, <1>8, <1>9, <1>10 DEF e

(* What a text written over a line leads to.                                *)
LEMMA LeadsOver ==
    ASSUME NEW d \in Displays, NEW w \in Seq(Cells)
    PROVE  Leads(d, w, Over(d, w, Len(w)))
<1> DEFINE g == [k \in 0..Len(w) |-> Over(d, w, k)]
<1>1. g \in [0..Len(w) -> Displays]
  BY OverTyped
<1>2. g[0] = d
  <2>1. d.line \in Seq(Cells) /\ d.col \in Nat /\ d.col <= Len(d.line) /\ d = [line |-> d.line, col |-> d.col]
    BY DEF Displays
  <2> DEFINE n == IF d.col + 0 > Len(d.line) THEN d.col + 0 ELSE Len(d.line)
             l == [j \in 1..n |-> IF d.col < j /\ j <= d.col + 0 THEN w[j - d.col] ELSE d.line[j]]
  <2>2. n = Len(d.line) /\ d.col + 0 = d.col
    BY <2>1
  <2>3. \A j \in 1..n : ~(d.col < j /\ j <= d.col + 0)
    BY <2>1
  <2>4. l = [j \in 1..Len(d.line) |-> d.line[j]]
    BY <2>2, <2>3
  <2>5. l = d.line
    BY <2>1, <2>4
  <2>6. Over(d, w, 0) = [line |-> l, col |-> d.col + 0]
    BY DEF Over
  <2> HIDE DEF l, n
  <2> QED
    BY <2>1, <2>2, <2>5, <2>6
<1>3. ASSUME NEW k \in 1..Len(w)
      PROVE  g[k] = Show(g[k - 1], w[k])
  <2>1. PICK j \in Nat : k = j + 1 /\ j + 1 <= Len(w)
    <3>1. k - 1 \in Nat /\ k = (k - 1) + 1
      OBVIOUS
    <3> QED
      BY <3>1
  <2>2. Over(d, w, j + 1) = Show(Over(d, w, j), w[j + 1])
    BY <2>1, OverNext
  <2>3. g[k] = Over(d, w, k) /\ g[k - 1] = Over(d, w, j) /\ k - 1 = j
    BY <2>1
  <2> QED
    BY <2>1, <2>2, <2>3
<1>4. g[Len(w)] = Over(d, w, Len(w))
  OBVIOUS
<1> HIDE DEF g
<1>5. Shows(d, w, g)
  BY <1>1, <1>2, <1>3 DEF Shows
<1> QED
  BY <1>4, <1>5 DEF Leads, ShowsTo

IsOver(e, line, col, size, w, k) ==
    /\ e.col = col + k
    /\ Len(e.line) = IF col + k > size THEN col + k ELSE size
    /\ \A j \in 1..Len(e.line) :
         e.line[j] = IF col < j /\ j <= col + k THEN w[j - col] ELSE line[j]

(* The cells of a line that was written over.                               *)
LEMMA OverIs ==
    ASSUME NEW d \in Displays, NEW w \in Seq(Cells), NEW k \in 0..Len(w), NEW e, e = Over(d, w, k)
    PROVE  IsOver(e, d.line, d.col, Len(d.line), w, k)
<1> DEFINE n == IF d.col + k > Len(d.line) THEN d.col + k ELSE Len(d.line)
<1>1. d.line \in Seq(Cells) /\ d.col \in Nat
  BY DEF Displays
<1>2. n \in Nat
  BY <1>1
<1>3. /\ e.line = [j \in 1..n |-> IF d.col < j /\ j <= d.col + k THEN w[j - d.col] ELSE d.line[j]]
      /\ e.col = d.col + k
  BY DEF Over
<1> HIDE DEF n
<1>4. Len(e.line) = n
  BY <1>2, <1>3
<1> QED
  BY <1>3, <1>4 DEF n, IsOver

(* The line shows text behind a prompt, with the cursor behind it and       *)
(* nothing but blanks after the cursor.                                     *)
OnLine(d, base, text) ==
    /\ d.col = Len(base) + Len(text)
    /\ \A i \in 1..Len(base) : d.line[i] = base[i]
    /\ \A i \in 1..Len(text) : d.line[Len(base) + i] = text[i]
    /\ \A i \in 1..Len(d.line) : i > d.col => d.line[i] = Space

(* The line when the changed end of it has been written, and what is left   *)
(* of the longer line overwritten.                                          *)
Rewrites(d, base, old, new, kept, w, s, e) ==
    /\ OnLine(d, base, old) /\ kept <= Len(old) /\ kept <= Len(new)
    /\ \A i \in 1..kept : old[i] = new[i]
    /\ Len(w) = Len(new) - kept
    /\ \A i \in 1..Len(w) : w[i] = new[kept + i]
    /\ s.line = d.line /\ s.col = Len(base) + kept
    /\ e = Over(s, w, Len(w))
Rewritten(d, base, old, new, e) ==
    /\ e \in Displays /\ e.col = Len(base) + Len(new)
    /\ Len(e.line) >= Len(d.line)
    /\ \A i \in 1..Len(base) : e.line[i] = base[i]
    /\ \A i \in 1..Len(new) : e.line[Len(base) + i] = new[i]
    /\ \A i \in 1..Len(e.line) :
         i > Len(base) + Len(new) /\ i > Len(base) + Len(old) => e.line[i] = Space

(* Moving back to the first difference and writing the rest of a line that  *)
(* is no shorter leaves that line.                                          *)
LEMMA LineRewritten ==
    ASSUME NEW d \in Displays, NEW base \in Seq(Cells), NEW old \in Seq(Text), NEW new \in Seq(Text),
           NEW kept \in Nat, NEW w \in Seq(Cells), NEW s \in Displays,
           NEW e, Rewrites(d, base, old, new, kept, w, s, e)
    PROVE  Rewritten(d, base, old, new, e)
<1>0. /\ OnLine(d, base, old) /\ kept <= Len(old) /\ kept <= Len(new)
      /\ \A i \in 1..kept : old[i] = new[i]
      /\ Len(w) = Len(new) - kept
      /\ \A i \in 1..Len(w) : w[i] = new[kept + i]
      /\ s.line = d.line /\ s.col = Len(base) + kept
      /\ e = Over(s, w, Len(w))
  BY DEF Rewrites
<1>1. PICK b, a, m, l, n \in Nat : /\ b = Len(base) /\ a = Len(old) /\ m = Len(new)
                                  /\ l = Len(d.line) /\ n = Len(w)
  <2>1. d.line \in Seq(Cells)
    BY DEF Displays
  <2> QED
    BY <2>1
<1>2. /\ d.col = b + a /\ b + a <= l /\ n = m - kept /\ kept <= a /\ kept <= m
      /\ \A i \in 1..b : d.line[i] = base[i]
      /\ \A i \in 1..a : d.line[b + i] = old[i]
      /\ \A i \in 1..l : i > b + a => d.line[i] = Space
  BY <1>0, <1>1 DEF OnLine, Displays
<1>3. n \in 0..Len(w)
  BY <1>1
<1>4. /\ e.col = b + kept + n
      /\ Len(e.line) = IF b + kept + n > l THEN b + kept + n ELSE l
      /\ \A j \in 1..Len(e.line) :
            e.line[j] = IF b + kept < j /\ j <= b + kept + n THEN w[j - (b + kept)] ELSE d.line[j]
  <2>1. IsOver(e, s.line, s.col, Len(s.line), w, Len(w))
    BY <1>0, <1>1, <1>3, OverIs
  <2>2. IsOver(e, d.line, b + kept, l, w, n)
    BY <1>0, <1>1, <2>1
  <2> QED
    BY <2>2 DEF IsOver
<1>5. e \in Displays
  <2>1. Len(w) \in 0..Len(w)
    BY <1>1, <1>3
  <2> QED
    BY <1>0, <2>1, OverTyped
<1>6. e.col = b + m /\ b + kept + n = b + m
  BY <1>2, <1>4
<1>7. Len(e.line) \in Nat /\ Len(e.line) >= l /\ Len(e.line) >= b + m
  BY <1>2, <1>4, <1>6
<1>8. ASSUME NEW i \in 1..b
      PROVE  e.line[i] = base[i]
  <2>1. i \in 1..Len(e.line) /\ ~(b + kept < i)
    BY <1>2, <1>7, <1>8
  <2> QED
    BY <1>2, <1>4, <2>1
<1>9. ASSUME NEW i \in 1..m
      PROVE  e.line[b + i] = new[i]
  <2>1. b + i \in 1..Len(e.line)
    BY <1>7
  <2>2. CASE i <= kept
    <3>1. ~(b + kept < b + i) /\ i \in 1..a /\ i \in 1..kept
      BY <1>2, <2>2
    <3>2. e.line[b + i] = d.line[b + i]
      BY <1>4, <2>1, <3>1
    <3> QED
      BY <1>0, <1>2, <3>1, <3>2
  <2>3. CASE ~(i <= kept)
    <3>1. b + kept < b + i /\ b + i <= b + kept + n /\ (b + i) - (b + kept) = i - kept /\ i - kept \in 1..n
          /\ kept + (i - kept) = i
      BY <1>2, <2>3
    <3>2. e.line[b + i] = w[i - kept]
      BY <1>4, <2>1, <3>1
    <3> QED
      BY <1>0, <1>1, <3>1, <3>2
  <2> QED
    BY <2>2, <2>3
<1>10. ASSUME NEW i \in 1..Len(e.line), i > b + m, i > b + a
       PROVE  e.line[i] = Space
  <2>1. ~(i <= b + kept + n) /\ i \in 1..l
    BY <1>4, <1>6, <1>7, <1>10
  <2> QED
    BY <1>2, <1>4, <1>10, <2>1
<1> QED
  BY <1>1, <1>5, <1>6, <1>7, <1>8, <1>9, <1>10 DEF Rewritten

Blanks(d, base, new, over, w, e, to) ==
    /\ d.col = Len(base) + Len(new)
    /\ \A i \in 1..Len(base) : d.line[i] = base[i]
    /\ \A i \in 1..Len(new) : d.line[Len(base) + i] = new[i]
    /\ \A i \in 1..Len(d.line) : i > d.col + over => d.line[i] = Space
    /\ w = Replicate(over, Space)
    /\ e = Over(d, w, Len(w))
    /\ to = [line |-> e.line, col |-> e.col - over]

(* A shorter line is followed by the blanks that cover the longer one.      *)
LEMMA LineBlanked ==
    ASSUME NEW base \in Seq(Cells), NEW new \in Seq(Text), NEW over \in Nat,
           NEW d \in Displays, NEW w \in Seq(Cells), NEW e, NEW to,
           Blanks(d, base, new, over, w, e, to)
    PROVE  e \in Displays /\ e.col = d.col + over /\ OnLine(to, base, new)
<1>0. /\ d.col = Len(base) + Len(new)
      /\ \A i \in 1..Len(base) : d.line[i] = base[i]
      /\ \A i \in 1..Len(new) : d.line[Len(base) + i] = new[i]
      /\ \A i \in 1..Len(d.line) : i > d.col + over => d.line[i] = Space
      /\ w = Replicate(over, Space)
      /\ e = Over(d, w, Len(w))
      /\ to = [line |-> e.line, col |-> e.col - over]
  BY DEF Blanks
<1>1. Len(w) = over /\ \A i \in 1..over : w[i] = Space
  BY <1>0 DEF Replicate
<1>2. d.line \in Seq(Cells) /\ d.col \in Nat /\ d.col <= Len(d.line) /\ Len(d.line) \in Nat
  BY DEF Displays
<1>3. PICK c \in Nat : c = d.col
  BY <1>2
<1>4. over \in 0..Len(w)
  BY <1>1
<1>5. /\ e.col = c + over
      /\ Len(e.line) = IF c + over > Len(d.line) THEN c + over ELSE Len(d.line)
      /\ \A j \in 1..Len(e.line) :
            e.line[j] = IF c < j /\ j <= c + over THEN w[j - c] ELSE d.line[j]
  <2>1. IsOver(e, d.line, d.col, Len(d.line), w, over)
    BY <1>0, <1>1, <1>4, OverIs
  <2>2. IsOver(e, d.line, c, Len(d.line), w, over)
    BY <1>3, <2>1
  <2> QED
    BY <2>2 DEF IsOver
<1>6. e \in Displays
  <2>1. Len(w) \in 0..Len(w)
    BY <1>1, <1>4
  <2> QED
    BY <1>0, <2>1, OverTyped
<1>7. to.line = e.line /\ to.col = c
  BY <1>0, <1>3, <1>5
<1>8. Len(e.line) \in Nat /\ Len(e.line) >= c /\ Len(e.line) >= Len(d.line)
  BY <1>2, <1>3, <1>5
<1>9. \A j \in 1..c : e.line[j] = d.line[j]
  BY <1>5, <1>8
<1>10. ASSUME NEW i \in 1..Len(e.line), i > c
       PROVE  e.line[i] = Space
  <2>1. CASE i <= c + over
    <3>1. i - c \in 1..over
      BY <1>10, <2>1
    <3> QED
      BY <1>1, <1>5, <1>10, <2>1, <3>1
  <2>2. CASE ~(i <= c + over)
    <3>1. i \in 1..Len(d.line) /\ i > d.col + over
      BY <1>2, <1>3, <1>5, <1>8, <1>10, <2>2
    <3> QED
      BY <1>0, <1>5, <1>10, <2>2, <3>1
  <2> QED
    BY <2>1, <2>2
<1>11. \A i \in 1..Len(base) : e.line[i] = base[i]
  <2>1. Len(base) \in Nat /\ Len(new) \in Nat /\ c = Len(base) + Len(new)
    BY <1>0, <1>3
  <2> QED
    BY <1>0, <1>9, <2>1
<1>12. \A i \in 1..Len(new) : e.line[Len(base) + i] = new[i]
  <2>1. Len(base) \in Nat /\ Len(new) \in Nat /\ c = Len(base) + Len(new)
    BY <1>0, <1>3
  <2>2. \A i \in 1..Len(new) : Len(base) + i \in 1..c
    BY <2>1
  <2> QED
    BY <1>0, <1>9, <2>2
<1> QED
  BY <1>0, <1>3, <1>5, <1>6, <1>7, <1>10, <1>11, <1>12 DEF OnLine

(* What the line editor sends turns the old line into the new one, unless   *)
(* it erases a tail by a sequence that strip_ansi drops.                    *)
LEMMA LineRedrawn ==
    ASSUME NEW d \in Displays, NEW base \in Seq(Cells), NEW old \in Seq(Text), NEW new \in Seq(Text),
           OnLine(d, base, old), NEW clearing, clearing = "blanks" \/ Len(new) >= Len(old)
    PROVE  \E e \in Displays : Leads(d, Redraw(old, new, clearing), e) /\ OnLine(e, base, new)
<1> DEFINE least == Min({Len(old), Len(new)})
           same == {n \in 0..least : SubSeq(old, 1, n) = SubSeq(new, 1, n)}
           kept == Max(same)
           over == Len(old) - Len(new)
<1>0. Len(old) \in Nat /\ Len(new) \in Nat
  OBVIOUS
<1>1. least \in Nat /\ least <= Len(old) /\ least <= Len(new)
  <2>1. {Len(old), Len(new)} \subseteq Nat /\ {Len(old), Len(new)} # {}
    BY <1>0
  <2>2. \A x \in {Len(old), Len(new)} : least <= x
    BY <2>1, MinOfSome
  <2>3. least \in {Len(old), Len(new)}
    BY <2>1, MinOfSome
  <2> QED
    BY <1>0, <2>2, <2>3
<1> HIDE DEF least
<1>2. same \subseteq 0..least /\ same # {}
  <2>1. SubSeq(old, 1, 0) = <<>> /\ SubSeq(new, 1, 0) = <<>>
    BY SubSeqEmpty
  <2>2. 0 \in same
    BY <1>1, <2>1
  <2> QED
    BY <2>2
<1>3. kept \in same
  <2> HIDE DEF same
  <2> QED
    BY <1>1, <1>2, MaxOfSome
<1>4. kept \in Nat /\ kept <= Len(old) /\ kept <= Len(new)
  <2>1. kept \in 0..least
    BY <1>3
  <2> HIDE DEF kept
  <2> QED
    BY <1>0, <1>1, <2>1
<1>5. SubSeq(old, 1, kept) = SubSeq(new, 1, kept)
  BY <1>3
<1> HIDE DEF kept, same
<1>6. \A i \in 1..kept : old[i] = new[i]
  <2>1. \A i \in 1..kept : SubSeq(old, 1, kept)[i] = old[i] /\ SubSeq(new, 1, kept)[i] = new[i]
    BY <1>0, <1>4
  <2> QED
    BY <1>5, <2>1
<1> DEFINE back == Replicate(Len(old) - kept, "bs")
           w == SubSeq(new, kept + 1, Len(new))
           end == IF over <= 0 THEN <<>>
             ELSE IF clearing = "blanks" THEN Replicate(over, Space) \o Replicate(over, "bs")
             ELSE <<"el">>
<1>7. Redraw(old, new, clearing) = (back \o w) \o end
  BY DEF Redraw, kept, same, least
<1>8. Len(old) - kept \in Nat /\ Len(new) - kept \in Nat
  BY <1>0, <1>4
<1>9. back \in Seq(Outputs)
  BY <1>8, ReplicateTyped DEF Outputs
<1>10. /\ w \in Seq(Text) /\ w \in Seq(Cells) /\ w \in Seq(Outputs)
       /\ Len(w) = Len(new) - kept /\ \A i \in 1..Len(w) : w[i] = new[kept + i]
  <2>1. kept + 1 \in Nat \ {0} /\ Len(new) \in 0..Len(new)
    BY <1>0, <1>4
  <2>2. w \in Seq(Text)
    BY <2>1, PartTyped
  <2>3. Len(w) = Len(new) - kept /\ \A i \in 1..Len(w) : w[i] = new[kept + i]
    BY <1>0, <1>4
  <2> HIDE DEF w
  <2> QED
    BY <2>2, <2>3, TextIsCells, TextIsOutput
<1> DEFINE s == [line |-> d.line, col |-> d.col - (Len(old) - kept)]
           e == Over(s, w, Len(w))
<1>11. s \in Displays /\ s.line = d.line /\ s.col = Len(base) + kept /\ Leads(d, back, s)
  <2>1. d.line \in Seq(Cells) /\ d.col \in Nat /\ d.col <= Len(d.line) /\ d.col = Len(base) + Len(old)
        /\ Len(base) \in Nat
    BY DEF OnLine, Displays
  <2>2. Len(old) - kept <= d.col
    BY <1>0, <1>4, <2>1
  <2>3. Leads(d, back, s)
    BY <1>8, <2>2, LeadsBack
  <2>4. s.col = Len(base) + kept /\ s.col \in Nat /\ s.col <= Len(d.line)
    BY <1>0, <1>4, <2>1
  <2>5. s \in Displays
    BY <2>1, <2>4 DEF Displays
  <2> HIDE DEF back
  <2> QED
    BY <2>3, <2>4, <2>5
<1> HIDE DEF s, back, w
<1>12. /\ e \in Displays /\ e.col = Len(base) + Len(new)
       /\ Len(e.line) >= Len(d.line)
       /\ \A i \in 1..Len(base) : e.line[i] = base[i]
       /\ \A i \in 1..Len(new) : e.line[Len(base) + i] = new[i]
       /\ \A i \in 1..Len(e.line) :
             i > Len(base) + Len(new) /\ i > Len(base) + Len(old) => e.line[i] = Space
  <2>1. Rewrites(d, base, old, new, kept, w, s, e)
    BY <1>4, <1>6, <1>10, <1>11 DEF Rewrites
  <2> HIDE DEF e
  <2>2. Rewritten(d, base, old, new, e)
    BY <1>4, <1>10, <1>11, <2>1, LineRewritten
  <2> QED
    BY <2>2 DEF Rewritten
<1>13. Leads(d, back \o w, e) /\ back \o w \in Seq(Outputs)
  <2>1. Leads(s, w, e)
    BY <1>10, <1>11, LeadsOver
  <2> HIDE DEF e
  <2> QED
    BY <1>9, <1>10, <1>11, <2>1, LeadsOn, ConcatProperties
<1> HIDE DEF e
<1>14. CASE over <= 0
  <2>1. Redraw(old, new, clearing) = back \o w
    BY <1>7, <1>13, <1>14
  <2>2. Len(new) >= Len(old) /\ Len(base) \in Nat
    BY <1>0, <1>14
  <2>3. \A i \in 1..Len(e.line) : i > e.col => e.line[i] = Space
    <3>1. \A i \in Nat : i > e.col => i > Len(base) + Len(new) /\ i > Len(base) + Len(old)
      BY <1>0, <1>12, <2>2
    <3>2. Len(e.line) \in Nat
      BY <1>12 DEF Displays
    <3> QED
      BY <1>12, <3>1, <3>2
  <2>4. OnLine(e, base, new)
    BY <1>12, <2>3 DEF OnLine
  <2> QED
    BY <1>12, <1>13, <2>1, <2>4
<1>15. CASE ~(over <= 0)
  <2>0. over \in Nat /\ clearing = "blanks" /\ Len(base) \in Nat
    BY <1>0, <1>15
  <2> DEFINE blanks == Replicate(over, Space)
             f == Over(e, blanks, Len(blanks))
             to == [line |-> f.line, col |-> f.col - over]
  <2>1. blanks \in Seq(Cells) /\ blanks \in Seq(Outputs) /\ Len(blanks) = over
    <3>1. Space \in Cells /\ Space \in Outputs
      BY DEF Outputs, Cells, Text
    <3> QED
      BY <2>0, <3>1 DEF Replicate
  <2>2. \A i \in 1..Len(e.line) : i > e.col + over => e.line[i] = Space
    <3>1. e.col + over = Len(base) + Len(old)
      BY <1>0, <1>12, <2>0
    <3>2. Len(e.line) \in Nat /\ Len(base) + Len(old) > Len(base) + Len(new)
      BY <1>0, <1>12, <1>15, <2>0 DEF Displays
    <3> HIDE DEF over
    <3>3. \A i \in Nat : i > e.col + over => i > Len(base) + Len(new) /\ i > Len(base) + Len(old)
      BY <1>0, <2>0, <3>1, <3>2
    <3> QED
      BY <1>12, <3>2, <3>3
  <2> HIDE DEF over
  <2>3. f \in Displays /\ f.col = e.col + over /\ OnLine(to, base, new)
    <3> HIDE DEF f, to
    <3>1. blanks = Replicate(over, Space) /\ f = Over(e, blanks, Len(blanks))
          /\ to = [line |-> f.line, col |-> f.col - over]
      BY DEF f, to
    <3> HIDE DEF blanks
    <3>2. Blanks(e, base, new, over, blanks, f, to)
      BY <1>12, <2>2, <3>1 DEF Blanks
    <3> QED
      BY <1>12, <2>0, <2>1, <3>2, LineBlanked
  <2>4. Leads(e, blanks, f)
    BY <1>12, <2>1, LeadsOver
  <2>5. to \in Displays /\ Leads(f, Replicate(over, "bs"), to)
    <3>1. f.line \in Seq(Cells) /\ f.col \in Nat /\ over <= f.col /\ f.col <= Len(f.line) /\ e.col \in Nat
      <4>1. e.col \in Nat
        BY <1>12 DEF Displays
      <4>2. f.line \in Seq(Cells) /\ f.col \in Nat /\ f.col <= Len(f.line)
        BY <2>3 DEF Displays
      <4> HIDE DEF f
      <4> QED
        BY <2>0, <2>3, <4>1, <4>2
    <3> HIDE DEF f
    <3>2. Leads(f, Replicate(over, "bs"), to)
      BY <2>0, <2>3, <3>1, LeadsBack
    <3>3. f.col - over \in Nat /\ f.col - over <= Len(f.line)
      BY <2>0, <3>1
    <3>4. to \in Displays
      BY <3>1, <3>3 DEF Displays
    <3> HIDE DEF to
    <3> QED
      BY <3>2, <3>4
  <2> HIDE DEF f, to, blanks
  <2>6. Replicate(over, "bs") \in Seq(Outputs)
    BY <2>0, ReplicateTyped DEF Outputs
  <2>7. Leads(e, blanks \o Replicate(over, "bs"), to) /\ blanks \o Replicate(over, "bs") \in Seq(Outputs)
    BY <2>1, <2>4, <2>5, <2>6, LeadsOn, ConcatProperties
  <2>8. end = blanks \o Replicate(over, "bs")
    BY <1>15, <2>0 DEF blanks
  <2> HIDE DEF end
  <2>9. Leads(d, (back \o w) \o end, to)
    BY <1>13, <2>7, <2>8, LeadsOn
  <2> QED
    BY <1>7, <2>3, <2>5, <2>9
<1> QED
  BY <1>14, <1>15

-----------------------------------------------------------------------------
(* Blank lines.                                                             *)

Blank(s) == \A i \in 1..Len(s) : s[i] = Space
(* A line that goes on with nothing but blanks.                             *)
Extends(s, b) ==
    /\ Len(b) <= Len(s)
    /\ \A i \in 1..Len(b) : s[i] = b[i]
    /\ \A i \in 1..Len(s) : i > Len(b) => s[i] = Space

(* Blanks are stripped to nothing.                                          *)
LEMMA StripBlank ==
    ASSUME NEW S, NEW s \in Seq(S), Blank(s)
    PROVE  Strip(s) = <<>>
<1>1. {i \in DOMAIN s : s[i] # Space} = {}
  BY DEF Blank
<1> QED
  BY <1>1 DEF Strip

(* What is stripped to nothing was blank.                                   *)
LEMMA StripInk ==
    ASSUME NEW S, NEW s \in Seq(S), Strip(s) = <<>>
    PROVE  Blank(s)
<1> DEFINE ink == {i \in DOMAIN s : s[i] # Space}
<1>1. CASE ink = {}
  BY <1>1 DEF Blank
<1>2. CASE ink # {}
  <2>1. ink \subseteq 0..Len(s) /\ ink \subseteq 1..Len(s) /\ ink \subseteq Nat /\ Len(s) \in Nat
    OBVIOUS
  <2>2. Strip(s) = SubSeq(s, Min(ink), Max(ink))
    BY <1>2 DEF Strip
  <2> HIDE DEF ink
  <2>3. Max(ink) \in ink /\ Min(ink) \in ink
    BY <1>2, <2>1, MaxOfSome, MinOfSome
  <2>4. Min(ink) <= Max(ink)
    BY <1>2, <2>1, <2>3, MaxOfSome
  <2>5. PICK m, n \in 1..Len(s) : m = Min(ink) /\ n = Max(ink) /\ m <= n
    BY <2>1, <2>3, <2>4
  <2>6. Len(SubSeq(s, m, n)) = n - m + 1
    BY <2>1, <2>5
  <2>7. Len(Strip(s)) = 0
    OBVIOUS
  <2>8. Strip(s) = SubSeq(s, m, n)
    BY <2>2, <2>5
  <2>9. n - m + 1 = 0
    BY <2>6, <2>7, <2>8
  <2> QED
    BY <2>5, <2>9
<1> QED
  BY <1>1, <1>2

(* Blanks behind a line do not survive Strip.                               *)
LEMMA StripExtended ==
    ASSUME NEW S, NEW s \in Seq(S), NEW b \in Seq(S), Extends(s, b)
    PROVE  Strip(s) = Strip(b)
<1> DEFINE ink == {i \in DOMAIN b : b[i] # Space}
<1>1. Len(b) <= Len(s) /\ Len(s) \in Nat /\ Len(b) \in Nat /\ DOMAIN s = 1..Len(s) /\ DOMAIN b = 1..Len(b)
  BY DEF Extends
<1>2. {i \in DOMAIN s : s[i] # Space} = ink
  BY <1>1 DEF Extends
<1>3. Strip(b) = IF ink = {} THEN <<>> ELSE SubSeq(b, Min(ink), Max(ink))
  BY DEF Strip
<1>4. Strip(s) = IF ink = {} THEN <<>> ELSE SubSeq(s, Min(ink), Max(ink))
  BY <1>2 DEF Strip
<1>5. ink \subseteq 0..Len(b) /\ ink \subseteq 1..Len(b) /\ ink \subseteq Nat
  BY <1>1
<1> HIDE DEF ink
<1>6. CASE ink = {}
  BY <1>3, <1>4, <1>6
<1>7. CASE ink # {}
  <2>1. Max(ink) \in ink /\ Min(ink) \in ink
    BY <1>1, <1>5, <1>7, MaxOfSome, MinOfSome
  <2>2. PICK m, n \in 1..Len(b) : m = Min(ink) /\ n = Max(ink)
    BY <1>5, <2>1
  <2>3. m \in Nat /\ n \in Nat /\ m >= 1 /\ n <= Len(b)
    BY <1>1, <2>2
  <2>4. \A i \in m..n : s[i] = b[i]
    BY <1>1, <2>3 DEF Extends
  <2>5. SubSeq(s, m, n) = SubSeq(b, m, n)
    <3> DEFINE l == IF m <= n THEN n - m + 1 ELSE 0
    <3>1. (\A i \in m..n : s[i] \in S) /\ (\A i \in m..n : b[i] \in S)
      BY <1>1, <2>3
    <3>2. /\ SubSeq(s, m, n) \in Seq(S) /\ Len(SubSeq(s, m, n)) = l
          /\ \A i \in 1..l : SubSeq(s, m, n)[i] = s[m + i - 1]
      BY <2>3, <3>1, SubSeqProperties
    <3>3. /\ SubSeq(b, m, n) \in Seq(S) /\ Len(SubSeq(b, m, n)) = l
          /\ \A i \in 1..l : SubSeq(b, m, n)[i] = b[m + i - 1]
      BY <2>3, <3>1, SubSeqProperties
    <3>4. \A i \in 1..l : m + i - 1 \in m..n
      BY <2>3
    <3> HIDE DEF l
    <3> QED
      BY <2>4, <3>2, <3>3, <3>4, SeqEqual
  <2> QED
    BY <1>3, <1>4, <1>7, <2>2, <2>5
<1> QED
  BY <1>6, <1>7

-----------------------------------------------------------------------------
(* What was typed is still on the line, letter by letter and in its order.  *)

Embeds(t, b, e) ==
    /\ e \in [1..Len(t) -> 1..Len(b)]
    /\ \A i, j \in 1..Len(t) : i < j => e[i] < e[j]
    /\ \A i \in 1..Len(t) : b[e[i]] = t[i]
Embedded(t, b) == \E e : Embeds(t, b, e)

(* The empty line is in every line.                                         *)
LEMMA NothingEmbeds ==
    ASSUME NEW b \in Seq(Text)
    PROVE  Embedded(<<>>, b)
<1> DEFINE e == [i \in 1..0 |-> 1]
<1>1. Len(<<>>) = 0 /\ 1..0 = {}
  OBVIOUS
<1>2. e \in [1..0 -> 1..Len(b)]
  BY <1>1
<1>3. Embeds(<<>>, b, e)
  BY <1>1, <1>2 DEF Embeds
<1> QED
  BY <1>3 DEF Embedded

(* What is in a blank line is blank.                                        *)
LEMMA EmbedsBlank ==
    ASSUME NEW t \in Seq(Text), NEW b \in Seq(Text), Embedded(t, b), Blank(b)
    PROVE  Blank(t)
<1>1. PICK e : Embeds(t, b, e)
  BY DEF Embedded
<1>2. ASSUME NEW i \in 1..Len(t) PROVE t[i] = Space
  <2>1. e[i] \in 1..Len(b) /\ b[e[i]] = t[i]
    BY <1>1 DEF Embeds
  <2> QED
    BY <2>1 DEF Blank
<1> QED
  BY <1>2 DEF Blank

(* A letter more in both lines.                                             *)
LEMMA EmbedsBoth ==
    ASSUME NEW t \in Seq(Text), NEW b \in Seq(Text), Embedded(t, b), NEW x \in Text
    PROVE  Embedded(Append(t, x), Append(b, x))
<1>1. PICK e : Embeds(t, b, e)
  BY DEF Embedded
<1>2. PICK m, n \in Nat : m = Len(t) /\ n = Len(b)
  OBVIOUS
<1>3. /\ Len(Append(t, x)) = m + 1 /\ Append(t, x)[m + 1] = x /\ \A i \in 1..m : Append(t, x)[i] = t[i]
      /\ Len(Append(b, x)) = n + 1 /\ Append(b, x)[n + 1] = x /\ \A i \in 1..n : Append(b, x)[i] = b[i]
  BY <1>2, AppendProperties
<1>4. /\ e \in [1..m -> 1..n]
      /\ \A i, j \in 1..m : i < j => e[i] < e[j]
      /\ \A i \in 1..m : b[e[i]] = t[i]
  BY <1>1, <1>2 DEF Embeds
<1> DEFINE f == [i \in 1..(m + 1) |-> IF i <= m THEN e[i] ELSE n + 1]
<1>5. \A i \in 1..m : i \in 1..(m + 1) /\ f[i] = e[i] /\ e[i] \in 1..n /\ e[i] \in 1..(n + 1) /\ e[i] < n + 1
  BY <1>4
<1>6. f[m + 1] = n + 1 /\ \A i \in 1..(m + 1) : i \in 1..m \/ i = m + 1
  OBVIOUS
<1>7. f \in [1..(m + 1) -> 1..(n + 1)]
  <2>1. f[m + 1] \in 1..(n + 1)
    BY <1>6
  <2>2. \A i \in 1..m : f[i] \in 1..(n + 1)
    BY <1>5
  <2> DEFINE g == f
  <2>3. f = [i \in 1..(m + 1) |-> g[i]]
    OBVIOUS
  <2> HIDE DEF f, g
  <2>4. \A i \in 1..(m + 1) : f[i] \in 1..(n + 1)
    BY <1>6, <2>1, <2>2
  <2> QED
    BY <2>3, <2>4 DEF g
<1> HIDE DEF f
<1>8. \A i, j \in 1..(m + 1) : i < j => f[i] < f[j]
  <2> SUFFICES ASSUME NEW i \in 1..(m + 1), NEW j \in 1..(m + 1), i < j
               PROVE  f[i] < f[j]
    OBVIOUS
  <2>1. i \in 1..m
    OBVIOUS
  <2> QED
    BY <1>4, <1>5, <1>6, <2>1
<1>9. \A i \in 1..(m + 1) : Append(b, x)[f[i]] = Append(t, x)[i]
  BY <1>3, <1>4, <1>5, <1>6
<1> DEFINE p == Append(t, x)
           q == Append(b, x)
<1>10. Len(p) = m + 1 /\ Len(q) = n + 1 /\ \A i \in 1..(m + 1) : q[f[i]] = p[i]
  BY <1>3, <1>9
<1> HIDE DEF p, q
<1>11. Embeds(p, q, f)
  BY <1>7, <1>8, <1>10 DEF Embeds
<1> QED
  BY <1>11 DEF Embedded, p, q

(* A letter more in the outer line.                                         *)
LEMMA EmbedsInMore ==
    ASSUME NEW t \in Seq(Text), NEW b \in Seq(Text), Embedded(t, b), NEW x \in Text
    PROVE  Embedded(t, Append(b, x))
<1>1. PICK e : Embeds(t, b, e)
  BY DEF Embedded
<1>2. Len(Append(b, x)) = Len(b) + 1 /\ Len(b) \in Nat /\ \A i \in 1..Len(b) : Append(b, x)[i] = b[i]
  BY AppendProperties
<1>3. e \in [1..Len(t) -> 1..(Len(b) + 1)]
  BY <1>1, <1>2 DEF Embeds
<1>4. \A i \in 1..Len(t) : Append(b, x)[e[i]] = t[i]
  BY <1>1, <1>2 DEF Embeds
<1>5. Embeds(t, Append(b, x), e)
  BY <1>1, <1>2, <1>3, <1>4 DEF Embeds
<1> QED
  BY <1>5 DEF Embedded

(* A beginning embeds where its last letter may go.                         *)
LEMMA EmbedsBeginning ==
    ASSUME NEW t \in Seq(Text), NEW b \in Seq(Text), NEW e, Embeds(t, b, e),
           NEW m \in 0..Len(t), NEW n \in 0..Len(b), \A i \in 1..m : e[i] <= n
    PROVE  Embedded(SubSeq(t, 1, m), SubSeq(b, 1, n))
<1>1. m \in Nat /\ n \in Nat /\ m <= Len(t) /\ n <= Len(b) /\ Len(t) \in Nat /\ Len(b) \in Nat
  OBVIOUS
<1>2. /\ Len(SubSeq(t, 1, m)) = m /\ \A i \in 1..m : SubSeq(t, 1, m)[i] = t[i]
      /\ Len(SubSeq(b, 1, n)) = n /\ \A i \in 1..n : SubSeq(b, 1, n)[i] = b[i]
  BY <1>1
<1> DEFINE f == [i \in 1..m |-> e[i]]
<1>3. \A i \in 1..m : i \in 1..Len(t) /\ e[i] \in 1..n
  <2> SUFFICES ASSUME NEW i \in 1..m PROVE i \in 1..Len(t) /\ e[i] \in 1..n
    OBVIOUS
  <2>1. i \in 1..Len(t)
    BY <1>1
  <2>2. e[i] \in 1..Len(b) /\ e[i] <= n
    BY <2>1 DEF Embeds
  <2> QED
    BY <1>1, <2>1, <2>2
<1>4. f \in [1..m -> 1..n] /\ \A i \in 1..m : f[i] = e[i]
  BY <1>3
<1> HIDE DEF f
<1>5. \A i, j \in 1..m : i < j => f[i] < f[j]
  BY <1>3, <1>4 DEF Embeds
<1>6. \A i \in 1..m : SubSeq(b, 1, n)[f[i]] = SubSeq(t, 1, m)[i]
  BY <1>2, <1>3, <1>4 DEF Embeds
<1> DEFINE p == SubSeq(t, 1, m)
           q == SubSeq(b, 1, n)
<1>7. Len(p) = m /\ Len(q) = n /\ \A i \in 1..m : q[f[i]] = p[i]
  BY <1>2, <1>6
<1> HIDE DEF p, q
<1>8. Embeds(p, q, f)
  BY <1>4, <1>5, <1>7 DEF Embeds
<1> QED
  BY <1>8 DEF Embedded, p, q

(* The last letter less in both lines.                                      *)
LEMMA EmbedsErased ==
    ASSUME NEW t \in Seq(Text), NEW b \in Seq(Text), Embedded(t, b)
    PROVE  Embedded(WithoutLast(t), WithoutLast(b))
<1>1. PICK e : Embeds(t, b, e)
  BY DEF Embedded
<1>2. CASE t = <<>>
  <2>1. WithoutLast(t) = <<>>
    BY <1>2, SubSeqEmpty DEF WithoutLast
  <2> QED
    BY <2>1, NothingEmbeds, WithoutLastTyped
<1>3. CASE t # <<>>
  <2>1. Len(t) \in 1..Len(t)
    BY <1>3, EmptySeq
  <2>2. e[Len(t)] \in 1..Len(b)
    BY <1>1, <2>1 DEF Embeds
  <2>3. Len(t) - 1 \in 0..Len(t) /\ Len(b) - 1 \in 0..Len(b)
    BY <2>1, <2>2
  <2>4. \A i \in 1..(Len(t) - 1) : e[i] <= Len(b) - 1
    <3>1. \A i \in 1..(Len(t) - 1) : i \in 1..Len(t) /\ i < Len(t)
      BY <2>1
    <3>2. \A i \in 1..(Len(t) - 1) : e[i] < e[Len(t)] /\ e[i] \in 1..Len(b)
      BY <1>1, <2>1, <3>1 DEF Embeds
    <3> QED
      BY <2>2, <3>2
  <2> QED
    BY <1>1, <2>3, <2>4, EmbedsBeginning DEF WithoutLast
<1> QED
  BY <1>2, <1>3

(* Where the last word of a line begins.                                    *)
WordEnd(s, n) ==
    /\ n \in 0..Len(s) /\ DeleteWord(s) = SubSeq(s, 1, n)
    /\ n = 0 \/ \E k \in 1..Len(s) : n \in 1..Len(s) /\ s[n] = Space /\ n < k /\ s[k] # Space
    /\ \A i, k \in 1..Len(s) : i < k /\ s[i] = Space /\ s[k] # Space => i <= n

(* DeleteWord keeps what ends with the last space before the last word.     *)
LEMMA WordEnds ==
    ASSUME NEW S, NEW s \in Seq(S)
    PROVE  \E n : WordEnd(s, n)
<1> DEFINE ink == {i \in DOMAIN s : s[i] # Space}
           word == IF ink = {} THEN 0 ELSE Max(ink)
           spaces == {i \in 1..word : s[i] = Space}
           end == IF spaces = {} THEN 0 ELSE Max(spaces)
<1>1. ink \subseteq 0..Len(s) /\ ink \subseteq 1..Len(s) /\ Len(s) \in Nat
  OBVIOUS
<1>2. word \in 0..Len(s) /\ (\A k \in ink : k <= word) /\ (word = 0 \/ word \in ink)
  <2>1. CASE ink = {}
    BY <1>1, <2>1
  <2>2. CASE ink # {}
    <3> HIDE DEF ink
    <3>1. Max(ink) \in ink /\ \A x \in ink : x <= Max(ink)
      BY <1>1, <2>2, MaxOfSome
    <3>2. word = Max(ink)
      BY <2>2
    <3> HIDE DEF word
    <3> QED
      BY <1>1, <3>1, <3>2
  <2> QED
    BY <2>1, <2>2
<1>3. DeleteWord(s) = SubSeq(s, 1, end)
  BY DEF DeleteWord
<1> HIDE DEF word
<1>4. spaces \subseteq 0..Len(s) /\ spaces \subseteq 1..Len(s)
  BY <1>1, <1>2
<1>5. end \in 0..Len(s) /\ (\A i \in spaces : i <= end) /\ (end = 0 \/ end \in spaces)
  <2>1. CASE spaces = {}
    BY <1>1, <2>1
  <2>2. CASE spaces # {}
    <3> HIDE DEF spaces
    <3>1. Max(spaces) \in spaces /\ \A x \in spaces : x <= Max(spaces)
      BY <1>1, <1>4, <2>2, MaxOfSome
    <3>2. end = Max(spaces)
      BY <2>2
    <3> HIDE DEF end
    <3> QED
      BY <1>1, <1>4, <3>1, <3>2
  <2> QED
    BY <2>1, <2>2
<1> HIDE DEF end
<1>6. end = 0 \/ \E k \in 1..Len(s) : end \in 1..Len(s) /\ s[end] = Space /\ end < k /\ s[k] # Space
  <2> SUFFICES ASSUME end # 0
               PROVE  \E k \in 1..Len(s) : end \in 1..Len(s) /\ s[end] = Space /\ end < k /\ s[k] # Space
    OBVIOUS
  <2>1. end \in 1..Len(s) /\ end \in 1..word /\ s[end] = Space
    BY <1>4, <1>5
  <2>2. word \in ink
    BY <1>1, <1>2, <2>1
  <2>3. word \in 1..Len(s) /\ s[word] # Space
    BY <1>1, <2>2
  <2>4. end < word
    BY <1>1, <2>1, <2>3
  <2> QED
    BY <2>1, <2>3, <2>4
<1>7. ASSUME NEW i \in 1..Len(s), NEW k \in 1..Len(s), i < k, s[i] = Space, s[k] # Space
      PROVE  i <= end
  <2>1. k \in ink
    BY <1>7
  <2>2. i \in 1..word
    BY <1>1, <1>2, <1>7, <2>1
  <2> QED
    BY <1>5, <1>7, <2>2
<1> QED
  BY <1>3, <1>5, <1>6, <1>7 DEF WordEnd

(* The last word less in both lines.                                        *)
LEMMA EmbedsWord ==
    ASSUME NEW t \in Seq(Text), NEW b \in Seq(Text), Embedded(t, b)
    PROVE  Embedded(DeleteWord(t), DeleteWord(b))
<1>1. PICK e : Embeds(t, b, e)
  BY DEF Embedded
<1>2. PICK m : WordEnd(t, m)
  BY WordEnds
<1>3. PICK n : WordEnd(b, n)
  BY WordEnds
<1>4. /\ m \in 0..Len(t) /\ DeleteWord(t) = SubSeq(t, 1, m)
      /\ n \in 0..Len(b) /\ DeleteWord(b) = SubSeq(b, 1, n)
  BY <1>2, <1>3 DEF WordEnd
<1>5. ASSUME m # 0
      PROVE  m \in 1..Len(t) /\ e[m] \in 1..Len(b) /\ e[m] <= n
  <2>1. PICK k \in 1..Len(t) : m \in 1..Len(t) /\ t[m] = Space /\ m < k /\ t[k] # Space
    BY <1>2, <1>5 DEF WordEnd
  <2>2. /\ e[m] \in 1..Len(b) /\ e[k] \in 1..Len(b) /\ e[m] < e[k]
        /\ b[e[m]] = Space /\ b[e[k]] # Space
    BY <1>1, <2>1 DEF Embeds
  <2> QED
    BY <1>3, <2>1, <2>2 DEF WordEnd
<1>6. \A i \in 1..m : e[i] <= n
  <2> SUFFICES ASSUME NEW i \in 1..m PROVE e[i] <= n
    OBVIOUS
  <2>1. m # 0 /\ i \in 1..Len(t) /\ (i = m \/ i < m)
    BY <1>4
  <2>2. CASE i = m
    BY <1>5, <2>1, <2>2
  <2>3. CASE i < m
    <3>1. m \in 1..Len(t) /\ e[m] \in 1..Len(b) /\ e[m] <= n
      BY <1>5, <2>1
    <3>2. e[i] < e[m] /\ e[i] \in 1..Len(b)
      BY <1>1, <2>1, <2>3, <3>1 DEF Embeds
    <3> QED
      BY <1>4, <3>1, <3>2
  <2> QED
    BY <2>1, <2>2, <2>3
<1> QED
  BY <1>1, <1>4, <1>6, EmbedsBeginning

-----------------------------------------------------------------------------
(* What the recorder takes for the typed line.                              *)

TypedKey(t, key) ==
    CASE key \in {Letter, Space} -> Append(t, key)
      [] key = "erase" -> WithoutLast(t)
      [] key = "word" -> DeleteWord(t)
      [] key \in {"line", "intr"} -> <<>>
      [] key \in {"tab", "enter"} -> t
      [] key = "up" -> Append(t, "A")

(* The cases of TypedKey.                                                   *)
LEMMA TypedKeyIs ==
    ASSUME NEW t
    PROVE  /\ \A key \in {Letter, Space} : TypedKey(t, key) = Append(t, key)
           /\ TypedKey(t, "erase") = WithoutLast(t)
           /\ TypedKey(t, "word") = DeleteWord(t)
           /\ TypedKey(t, "line") = <<>> /\ TypedKey(t, "intr") = <<>>
           /\ TypedKey(t, "tab") = t /\ TypedKey(t, "enter") = t
           /\ TypedKey(t, "up") = Append(t, "A")
BY DEF TypedKey, Letter, Space

(* The keys are these.                                                      *)
LEMMA KeyCases ==
    ASSUME NEW key \in Keys
    PROVE  \/ key \in {Letter, Space} \/ key = "erase" \/ key = "word" \/ key = "line"
           \/ key = "tab" \/ key = "up" \/ key = "enter" \/ key = "intr"
BY DEF Keys, Editing

(* What is typed stays text.                                                *)
LEMMA TypedKeyTyped ==
    ASSUME NEW t \in Seq(Text), NEW key \in Keys
    PROVE  TypedKey(t, key) \in Seq(Text)
<1>1. Letter \in Text /\ Space \in Text /\ "A" \in Text
  BY DEF Text
<1>2. \A x \in Text : Append(t, x) \in Seq(Text)
  BY AppendProperties
<1>3. WithoutLast(t) \in Seq(Text) /\ DeleteWord(t) \in Seq(Text) /\ <<>> \in Seq(Text)
  BY WithoutLastTyped, DeleteWordTyped
<1>4. CASE key \in {Letter, Space}
  BY <1>1, <1>2, <1>4, TypedKeyIs
<1>5. CASE ~(key \in {Letter, Space})
  BY <1>1, <1>2, <1>3, <1>5, TypedKeyIs, KeyCases
<1> QED
  BY <1>4, <1>5

TypedPath(t, ks, f) ==
    /\ f \in [0..Len(ks) -> Seq(Text)]
    /\ f[0] = t
    /\ \A k \in 1..Len(ks) : f[k] = TypedKey(f[k - 1], ks[k])
TypedBy(t, ks, u) == \E f : TypedPath(t, ks, f) /\ u = f[Len(ks)]

(* No keys, nothing typed.                                                  *)
LEMMA TypedNothing ==
    ASSUME NEW t \in Seq(Text)
    PROVE  TypedBy(t, <<>>, t) /\ \A u : TypedBy(t, <<>>, u) => u = t
<1> DEFINE f == [k \in 0..0 |-> t]
<1>1. TypedPath(t, <<>>, f) /\ t = f[Len(<<>>)]
  BY DEF TypedPath
<1>2. \A g : TypedPath(t, <<>>, g) => g[Len(<<>>)] = t
  BY DEF TypedPath
<1> HIDE DEF f
<1> QED
  BY <1>1, <1>2 DEF TypedBy

(* One more key at the end.                                                 *)
LEMMA TypedMore ==
    ASSUME NEW t, NEW ks \in Seq(Keys), NEW u, TypedBy(t, ks, u), NEW key \in Keys
    PROVE  TypedBy(t, Append(ks, key), TypedKey(u, key))
<1>1. PICK f : TypedPath(t, ks, f) /\ u = f[Len(ks)]
  BY DEF TypedBy
<1>2. PICK n \in Nat : n = Len(ks)
  OBVIOUS
<1> DEFINE more == Append(ks, key)
           g == [k \in 0..(n + 1) |-> IF k <= n THEN f[k] ELSE TypedKey(u, key)]
<1>3. Len(more) = n + 1 /\ more[n + 1] = key /\ \A k \in 1..n : more[k] = ks[k]
  BY <1>2, AppendProperties
<1>4. f \in [0..n -> Seq(Text)] /\ f[0] = t /\ u = f[n] /\ \A k \in 1..n : f[k] = TypedKey(f[k - 1], ks[k])
  BY <1>1, <1>2 DEF TypedPath
<1>5. TypedKey(u, key) \in Seq(Text)
  BY <1>4, TypedKeyTyped
<1>6. (\A k \in 0..n : g[k] = f[k]) /\ g[n + 1] = TypedKey(u, key)
  OBVIOUS
<1>7. g \in [0..(n + 1) -> Seq(Text)]
  <2>1. \A k \in 0..(n + 1) : (IF k <= n THEN f[k] ELSE TypedKey(u, key)) \in Seq(Text)
    BY <1>4, <1>5
  <2> QED
    BY <2>1
<1> HIDE DEF g, more
<1>8. ASSUME NEW k \in 1..(n + 1)
      PROVE  g[k] = TypedKey(g[k - 1], more[k])
  <2>1. CASE k \in 1..n
    <3>1. k \in 0..n /\ k - 1 \in 0..n
      BY <2>1
    <3> QED
      BY <1>3, <1>4, <1>6, <2>1, <3>1
  <2>2. CASE k = n + 1
    <3>1. k - 1 = n /\ n \in 0..n
      BY <2>2
    <3> QED
      BY <1>3, <1>4, <1>6, <2>2, <3>1
  <2> QED
    BY <2>1, <2>2
<1>9. g[0] = t
  BY <1>4, <1>6
<1>10. TypedPath(t, more, g)
  BY <1>3, <1>7, <1>8, <1>9 DEF TypedPath
<1> QED
  BY <1>3, <1>6, <1>10 DEF TypedBy, more

(* The first key is read by the shell.                                      *)
LEMMA TypedFirst ==
    ASSUME NEW t, NEW ks \in Seq(Keys), ks # <<>>, NEW u, TypedBy(t, ks, u)
    PROVE  TypedBy(TypedKey(t, Head(ks)), Tail(ks), u)
<1>1. PICK f : TypedPath(t, ks, f) /\ u = f[Len(ks)]
  BY DEF TypedBy
<1>2. PICK n \in Nat : Len(ks) = n + 1
  <2>1. Len(ks) \in Nat /\ Len(ks) # 0
    BY EmptySeq
  <2>2. Len(ks) - 1 \in Nat /\ Len(ks) = (Len(ks) - 1) + 1
    BY <2>1
  <2> QED
    BY <2>2
<1> DEFINE rest == Tail(ks)
           g == [k \in 0..n |-> f[k + 1]]
<1>3. Len(rest) = n /\ \A k \in 1..n : rest[k] = ks[k + 1]
  BY <1>2, HeadTailProperties
<1>4. Head(ks) = ks[1]
  OBVIOUS
<1>5. f \in [0..(n + 1) -> Seq(Text)] /\ f[0] = t /\ u = f[n + 1]
      /\ \A k \in 1..(n + 1) : f[k] = TypedKey(f[k - 1], ks[k])
  BY <1>1, <1>2 DEF TypedPath
<1>6. g \in [0..n -> Seq(Text)]
  <2>1. \A k \in 0..n : f[k + 1] \in Seq(Text)
    BY <1>5
  <2> QED
    BY <2>1
<1>7. \A k \in 0..n : g[k] = f[k + 1]
  OBVIOUS
<1> HIDE DEF g, rest
<1>8. g[0] = TypedKey(t, Head(ks))
  <2>1. 0 \in 0..n /\ 1 \in 1..(n + 1) /\ 0 + 1 = 1 /\ 1 - 1 = 0
    OBVIOUS
  <2> QED
    BY <1>4, <1>5, <1>7, <2>1
<1>9. ASSUME NEW k \in 1..n
      PROVE  g[k] = TypedKey(g[k - 1], rest[k])
  <2>1. k \in 0..n /\ k - 1 \in 0..n /\ k + 1 \in 1..(n + 1) /\ (k - 1) + 1 = k /\ (k + 1) - 1 = k
    OBVIOUS
  <2>2. g[k] = f[k + 1] /\ g[k - 1] = f[k] /\ rest[k] = ks[k + 1]
    BY <1>3, <1>7, <2>1
  <2> QED
    BY <1>5, <2>1, <2>2
<1>10. TypedPath(TypedKey(t, Head(ks)), rest, g)
  BY <1>3, <1>6, <1>8, <1>9 DEF TypedPath
<1>11. u = g[Len(rest)]
  BY <1>3, <1>5, <1>7
<1> QED
  BY <1>10, <1>11 DEF TypedBy, rest

(* An interrupt at the end leaves nothing typed.                            *)
LEMMA TypedInterrupted ==
    ASSUME NEW t, NEW ks \in Seq(Keys), NEW u, TypedBy(t, ks, u), Len(ks) > 0, ks[Len(ks)] = "intr"
    PROVE  u = <<>>
<1>1. PICK f : TypedPath(t, ks, f) /\ u = f[Len(ks)]
  BY DEF TypedBy
<1>2. Len(ks) \in 1..Len(ks)
  OBVIOUS
<1>3. f[Len(ks)] = TypedKey(f[Len(ks) - 1], ks[Len(ks)])
  BY <1>1, <1>2 DEF TypedPath
<1> QED
  BY <1>1, <1>3, TypedKeyIs

(* Keys that end with an interrupt leave nothing typed.                     *)
LEMMA TypedOver ==
    ASSUME NEW ks \in Seq(Keys), \A k \in 1..Len(ks) : ks[k] = "intr"
    PROVE  TypedBy(<<>>, ks, <<>>)
<1> DEFINE f == [k \in 0..Len(ks) |-> <<>>]
<1>1. f \in [0..Len(ks) -> Seq(Text)] /\ \A k \in 0..Len(ks) : f[k] = <<>>
  OBVIOUS
<1>2. Len(ks) \in Nat /\ 0 \in 0..Len(ks) /\ Len(ks) \in 0..Len(ks) /\ \A k \in 1..Len(ks) : k \in 0..Len(ks)
  OBVIOUS
<1> HIDE DEF f
<1>3. \A k \in 1..Len(ks) : f[k] = TypedKey(f[k - 1], ks[k])
  BY <1>1, <1>2, TypedKeyIs
<1>4. TypedPath(<<>>, ks, f)
  BY <1>1, <1>2, <1>3 DEF TypedPath
<1> QED
  BY <1>1, <1>2, <1>4 DEF TypedBy

(* One byte, outside of an escape sequence.                                 *)
ByteTyped(r, to, typed, pending, escaping) ==
    /\ to.typed = typed /\ to.pending = pending /\ to.escaping = escaping
    /\ to.line = r.line /\ to.col = r.col

(* What a byte does to the typed line outside of an escape sequence.        *)
LEMMA ByteIsTyped ==
    ASSUME NEW r \in Recorders, ~r.escaping
    PROVE  /\ ByteTyped(r, FeedByte(r, "enter"), <<>>, Strip(r.typed), FALSE)
           /\ ByteTyped(r, FeedByte(r, "intr"), <<>>, NothingPending, FALSE)
           /\ ByteTyped(r, FeedByte(r, "erase"), WithoutLast(r.typed), r.pending, FALSE)
           /\ ByteTyped(r, FeedByte(r, "line"), <<>>, r.pending, FALSE)
           /\ ByteTyped(r, FeedByte(r, "word"), DeleteWord(r.typed), r.pending, FALSE)
           /\ ByteTyped(r, FeedByte(r, "tab"), r.typed, r.pending, FALSE)
           /\ \A b \in Text : ByteTyped(r, FeedByte(r, b), Append(r.typed, b), r.pending, FALSE)
<1>0. /\ DOMAIN r = {"typed", "pending", "unreliable", "escaping", "escape", "line", "col"}
      /\ r.escaping = FALSE
  BY DEF Recorders
<1> USE DEF Text, Letter, Space, Completion
<1>1. ByteTyped(r, FeedByte(r, "enter"), <<>>, Strip(r.typed), FALSE)
  <2> DEFINE x == Strip(r.typed)
  <2>1. FeedByte(r, "enter") = [r EXCEPT !.pending = x, !.typed = <<>>]
    BY <1>0 DEF FeedByte, Submit
  <2> HIDE DEF x
  <2>2. ByteTyped(r, FeedByte(r, "enter"), <<>>, x, FALSE)
    BY <1>0, <2>1 DEF ByteTyped
  <2> QED
    BY <2>2 DEF x
<1>2. ByteTyped(r, FeedByte(r, "intr"), <<>>, NothingPending, FALSE)
  <2>1. FeedByte(r, "intr") = [r EXCEPT !.typed = <<>>, !.pending = NothingPending]
    BY <1>0 DEF FeedByte
  <2> QED
    BY <1>0, <2>1 DEF ByteTyped
<1>3. ASSUME NEW b, NEW x, FeedByte(r, b) = [r EXCEPT !.typed = x]
      PROVE  ByteTyped(r, FeedByte(r, b), x, r.pending, FALSE)
  BY <1>0, <1>3 DEF ByteTyped
<1>4. ByteTyped(r, FeedByte(r, "erase"), WithoutLast(r.typed), r.pending, FALSE)
  <2>1. FeedByte(r, "erase") = [r EXCEPT !.typed = WithoutLast(r.typed)]
    BY <1>0 DEF FeedByte
  <2> QED
    BY <1>3, <2>1
<1>5. ByteTyped(r, FeedByte(r, "line"), <<>>, r.pending, FALSE)
  <2>1. FeedByte(r, "line") = [r EXCEPT !.typed = <<>>]
    BY <1>0 DEF FeedByte
  <2> QED
    BY <1>3, <2>1
<1>6. ByteTyped(r, FeedByte(r, "word"), DeleteWord(r.typed), r.pending, FALSE)
  <2>1. FeedByte(r, "word") = [r EXCEPT !.typed = DeleteWord(r.typed)]
    BY <1>0 DEF FeedByte
  <2> QED
    BY <1>3, <2>1
<1>7. ByteTyped(r, FeedByte(r, "tab"), r.typed, r.pending, FALSE)
  <2>1. FeedByte(r, "tab") = [r EXCEPT !.unreliable = TRUE]
    BY <1>0 DEF FeedByte
  <2> QED
    BY <1>0, <2>1 DEF ByteTyped
<1>8. ASSUME NEW b \in Text
      PROVE  ByteTyped(r, FeedByte(r, b), Append(r.typed, b), r.pending, FALSE)
  <2>1. FeedByte(r, b) = [r EXCEPT !.typed = Append(r.typed, b)]
    BY <1>0, <1>8 DEF FeedByte
  <2> QED
    BY <1>3, <2>1
<1> QED
  BY <1>1, <1>2, <1>4, <1>5, <1>6, <1>7, <1>8

(* The bytes of the arrow: the bracket ends the sequence, the letter stays. *)
LEMMA EscapeIsTyped ==
    ASSUME NEW r \in Recorders, ~r.escaping
    PROVE  ByteTyped(r, FeedByte(FeedByte(r, "esc"), "["), r.typed, r.pending, FALSE)
<1>0. /\ DOMAIN r = {"typed", "pending", "unreliable", "escaping", "escape", "line", "col"}
      /\ r.escaping = FALSE
  BY DEF Recorders
<1> USE DEF Text, Letter, Space, Completion
<1>1. FeedByte(r, "esc") = [r EXCEPT !.escaping = TRUE, !.escape = <<>>]
  BY <1>0 DEF FeedByte
<1>2. PICK s : s = FeedByte(r, "esc")
  OBVIOUS
<1>3. /\ s.typed = r.typed /\ s.pending = r.pending /\ s.escaping = TRUE
      /\ s.line = r.line /\ s.col = r.col /\ DOMAIN s = DOMAIN r
  BY <1>0, <1>1, <1>2
<1> DEFINE x == Append(s.escape, "[")
           u == s.unreliable \/ (Head(x) = "[" /\ Last(x) \in {"A", "B"})
<1>4. FeedByte(s, "[") = [s EXCEPT !.unreliable = u, !.escaping = FALSE, !.escape = <<>>]
  <2>1. FeedByte(s, "[") = EndEscape([s EXCEPT !.escape = Append(@, "[")])
    BY <1>3 DEF FeedByte
  <2>2. PICK v : v = [s EXCEPT !.escape = x]
    OBVIOUS
  <2>3. v.escape = x /\ v.unreliable = s.unreliable /\ DOMAIN v = DOMAIN s
    BY <1>0, <1>3, <2>2
  <2>4. EndEscape(v) = [v EXCEPT !.unreliable = u, !.escaping = FALSE, !.escape = <<>>]
    BY <1>0, <1>3, <2>3 DEF EndEscape
  <2> HIDE DEF u, x
  <2>5. [v EXCEPT !.unreliable = u, !.escaping = FALSE, !.escape = <<>>]
        = [s EXCEPT !.unreliable = u, !.escaping = FALSE, !.escape = <<>>]
    BY <1>0, <1>3, <2>2
  <2> QED
    BY <2>1, <2>2, <2>4, <2>5 DEF x
<1> HIDE DEF u
<1>5. ByteTyped(r, FeedByte(s, "["), r.typed, r.pending, FALSE)
  BY <1>0, <1>3, <1>4 DEF ByteTyped
<1> QED
  BY <1>2, <1>5

(* What a key does to the typed line.                                       *)
LEMMA KeyTyped ==
    ASSUME NEW r \in Recorders, ~r.escaping, NEW key \in Keys
    PROVE  LET to == FeedInput(r, BytesOf(key)) IN
           /\ key \in Editing => ByteTyped(r, to, TypedKey(r.typed, key), r.pending, FALSE)
           /\ key = "enter" => ByteTyped(r, to, <<>>, Strip(r.typed), FALSE)
           /\ key = "intr" => ByteTyped(r, to, <<>>, NothingPending, FALSE)
<1> DEFINE to == FeedInput(r, BytesOf(key))
<1>1. CASE key # "up"
  <2>1. BytesOf(key) = <<key>> /\ <<key>> \in Seq(Bytes) /\ Len(<<key>>) = 1 /\ <<key>>[1] = key
    BY <1>1 DEF BytesOf, Bytes
  <2>2. PICK f \in [0..1 -> Recorders] : FeedsBytes(f, r, <<key>>)
    BY <2>1, BytesAreFed
  <2>3. f[0] = r /\ f[1] = FeedByte(f[0], key) /\ FeedInput(r, <<key>>) = f[1]
    <3>1. 1 \in 1..Len(<<key>>) /\ 1 - 1 = 0
      BY <2>1
    <3> QED
      BY <2>1, <2>2, <3>1 DEF FeedsBytes
  <2>4. to = FeedByte(r, key)
    BY <2>1, <2>3
  <2>5. key \in {Letter, Space} => key \in Text
    BY DEF Text
  <2> HIDE DEF to
  <2>6. CASE key \in {Letter, Space}
    <3>1. ByteTyped(r, to, TypedKey(r.typed, key), r.pending, FALSE)
      <4>1. TypedKey(r.typed, key) = Append(r.typed, key)
        BY <2>6, TypedKeyIs
      <4> QED
        BY <2>4, <2>5, <2>6, <4>1, ByteIsTyped
    <3> QED
      BY <2>6, <3>1 DEF to, Letter, Space
  <2>7. CASE key \in {"erase", "word", "line", "tab"}
    <3>1. ByteTyped(r, to, TypedKey(r.typed, key), r.pending, FALSE)
      BY <2>4, <2>7, ByteIsTyped, TypedKeyIs
    <3> QED
      BY <2>7, <3>1 DEF to
  <2>8. CASE key = "enter"
    BY <2>4, <2>8, ByteIsTyped DEF to, Editing, Letter, Space
  <2>9. CASE key = "intr"
    BY <2>4, <2>9, ByteIsTyped DEF to, Editing, Letter, Space
  <2> QED
    BY <1>1, <2>6, <2>7, <2>8, <2>9, KeyCases
<1>2. CASE key = "up"
  <2> DEFINE bytes == <<"esc", "[", "A">>
  <2>1. BytesOf(key) = bytes /\ bytes \in Seq(Bytes) /\ Len(bytes) = 3
        /\ bytes[1] = "esc" /\ bytes[2] = "[" /\ bytes[3] = "A"
    BY <1>2 DEF BytesOf, Bytes
  <2> HIDE DEF bytes
  <2>2. PICK f \in [0..3 -> Recorders] : FeedsBytes(f, r, bytes)
    BY <2>1, BytesAreFed
  <2>3. f[0] = r /\ f[1] = FeedByte(f[0], "esc") /\ f[2] = FeedByte(f[1], "[")
        /\ f[3] = FeedByte(f[2], "A") /\ FeedInput(r, bytes) = f[3] /\ f[2] \in Recorders
    <3>1. 1 \in 1..3 /\ 2 \in 1..3 /\ 3 \in 1..3 /\ 1 - 1 = 0 /\ 2 - 1 = 1 /\ 3 - 1 = 2
      OBVIOUS
    <3>2. \A k \in 1..3 : f[k] = FeedByte(f[k - 1], bytes[k])
      BY <2>1, <2>2 DEF FeedsBytes
    <3>3. f[1] = FeedByte(f[1 - 1], bytes[1]) /\ f[2] = FeedByte(f[2 - 1], bytes[2])
          /\ f[3] = FeedByte(f[3 - 1], bytes[3])
      BY <3>1, <3>2
    <3>4. f[0] = r /\ FeedInput(r, bytes) = f[3]
      BY <2>1, <2>2 DEF FeedsBytes
    <3> QED
      BY <2>1, <3>1, <3>3, <3>4
  <2>4. PICK s \in Recorders : s = f[2] /\ ByteTyped(r, s, r.typed, r.pending, FALSE)
    BY <2>3, EscapeIsTyped
  <2>5. ByteTyped(s, FeedByte(s, "A"), Append(s.typed, "A"), s.pending, FALSE)
    <3>1. "A" \in Text /\ ~s.escaping
      BY <2>4 DEF Text, ByteTyped
    <3> QED
      BY <3>1, ByteIsTyped
  <2>6. ByteTyped(r, to, TypedKey(r.typed, "up"), r.pending, FALSE)
    <3>1. to = FeedByte(s, "A") /\ TypedKey(r.typed, "up") = Append(r.typed, "A")
      BY <2>1, <2>3, <2>4, TypedKeyIs
    <3> HIDE DEF to
    <3> QED
      BY <2>4, <2>5, <3>1 DEF ByteTyped
  <2> QED
    BY <1>2, <2>6
<1> QED
  BY <1>1, <1>2

(* What a key does to the shell's line.                                     *)
LEMMA EditedIs ==
    ASSUME NEW s
    PROVE  /\ \A key \in {Letter, Space} : Edited(key, s) = Append(s.buffer, key)
           /\ Edited("erase", s) = WithoutLast(s.buffer)
           /\ Edited("word", s) = DeleteWord(s.buffer)
           /\ Edited("line", s) = <<>>
           /\ s.mode = "prompt" => Edited("tab", s) = Append(s.buffer, Completion)
BY DEF Edited, Letter, Space

(* The shell's line and the recorder's, after a key.                        *)
LEMMA KeyEmbedded ==
    ASSUME NEW s \in Shells, s.mode = "prompt", NEW t \in Seq(Text), Embedded(t, s.buffer),
           NEW key \in Editing, key # "up"
    PROVE  Embedded(TypedKey(t, key), Edited(key, s))
<1>1. s.buffer \in Seq(Text)
  BY DEF Shells
<1>2. CASE key \in {Letter, Space}
  <2>1. key \in Text /\ TypedKey(t, key) = Append(t, key) /\ Edited(key, s) = Append(s.buffer, key)
    BY <1>2, TypedKeyIs, EditedIs DEF Text
  <2> QED
    BY <1>1, <2>1, EmbedsBoth
<1>3. CASE key = "erase"
  <2>1. TypedKey(t, key) = WithoutLast(t) /\ Edited(key, s) = WithoutLast(s.buffer)
    BY <1>3, TypedKeyIs, EditedIs
  <2> QED
    BY <1>1, <2>1, EmbedsErased
<1>4. CASE key = "word"
  <2>1. TypedKey(t, key) = DeleteWord(t) /\ Edited(key, s) = DeleteWord(s.buffer)
    BY <1>4, TypedKeyIs, EditedIs
  <2> QED
    BY <1>1, <2>1, EmbedsWord
<1>5. CASE key = "line"
  <2>1. TypedKey(t, key) = <<>> /\ Edited(key, s) = <<>> /\ <<>> \in Seq(Text)
    BY <1>5, TypedKeyIs, EditedIs
  <2> QED
    BY <2>1, NothingEmbeds
<1>6. CASE key = "tab"
  <2>1. TypedKey(t, key) = t /\ Edited(key, s) = Append(s.buffer, Completion) /\ Completion \in Text
    BY <1>6, TypedKeyIs, EditedIs DEF Text
  <2> QED
    BY <1>1, <2>1, EmbedsInMore
<1> QED
  BY <1>2, <1>3, <1>4, <1>5, <1>6 DEF Editing

(* Where nothing is completed or recalled the two stay the same.            *)
LEMMA KeySame ==
    ASSUME NEW s \in Shells, NEW key \in Editing, key \notin {"tab", "up"},
           NEW t, t = s.buffer
    PROVE  TypedKey(t, key) = Edited(key, s)
<1>1. CASE key \in {Letter, Space}
  <2>1. TypedKey(t, key) = Append(t, key) /\ Edited(key, s) = Append(s.buffer, key)
    BY <1>1, TypedKeyIs, EditedIs
  <2> QED
    BY <2>1
<1>2. CASE key = "erase"
  BY <1>2, TypedKeyIs, EditedIs
<1>3. CASE key = "word"
  BY <1>3, TypedKeyIs, EditedIs
<1>4. CASE key = "line"
  BY <1>4, TypedKeyIs, EditedIs
<1> QED
  BY <1>1, <1>2, <1>3, <1>4 DEF Editing

-----------------------------------------------------------------------------
(* The invariant behind the record.                                         *)

Prompts == {"prompt", "other prompt", "ask"}
Echoes(sh) == sh.mode = "prompt" /\ sh.parsed

(* What the line is when the whole screen has been read.                    *)
Stands(d, sh) ==
    IF sh.mode = "running" THEN d.line = <<>> /\ d.col = 0
    ELSE \E base \in Seq(Cells) :
           /\ base # <<>>
           /\ Echoes(sh) => base = <<"prompt">>
           /\ ~Echoes(sh) => base[1] # "prompt"
           /\ OnLine(d, base, IF sh.mode = "prompt" THEN sh.buffer ELSE <<>>)

(* What the first line feed of the screen adds completes the record.        *)
Balanced(s, g, pending, sofar, taken) ==
    /\ NoFeed(s, Len(s)) => sofar = taken
    /\ \A p : FirstFeed(s, p) => sofar \o Command(g[p - 1].line, pending) = taken

Tells(r, s, sh, sofar, taken, g) ==
    /\ Shows(Display(r), s, g)
    /\ Stands(g[Len(s)], sh)
    /\ Balanced(s, g, r.pending, sofar, taken)

(* The keys the shell has not read.                                         *)
Entered(ks) == \E i \in 1..Len(ks) : ks[i] = "enter"
Interrupts(ks) == \A i \in 1..Len(ks) : ks[i] = "intr"
Queued(r, ks, s, sh) ==
    /\ ~r.escaping
    /\ sh.mode = "running" => sh.buffer = <<>> /\ Interrupts(ks)
    /\ \A i, j \in 1..Len(ks) : j < i /\ ks[j] = "intr" => ks[i] = "intr"
    /\ \A i \in 1..Len(ks) : ks[i] = "enter" =>
         i = Len(ks) /\ r.pending # NothingPending /\ NoFeed(s, Len(s))
    /\ \A i \in 1..Len(ks) : ks[i] = "intr" => r.pending = NothingPending
    /\ r.pending # NothingPending /\ NoFeed(s, Len(s)) => Entered(ks)

(* While the shell reads keys, a prompt follows every line.                 *)
Prompted(s, sh) ==
    sh.mode # "running" =>
        \A i \in 1..Len(s) : s[i] = "lf" => \E j \in 1..Len(s) : j > i /\ s[j] \in Prompts

(* The typed line is the shell's line and the keys to come.                 *)
Agrees(t, sh) ==
    IF Echoes(sh) THEN sh.recalled \/ Embedded(t, sh.buffer) ELSE t = sh.buffer
Typing(r, ks, sh, t, u) ==
    /\ t \in Seq(Text) /\ u \in Seq(Text)
    /\ Agrees(t, sh)
    /\ TypedBy(t, ks, u)
    /\ IF Entered(ks) THEN r.typed = <<>> /\ r.pending = Strip(u) ELSE r.typed = u

ScreenInv == \E g : Tells(rec, screen, shell, recorded \o emitting, submitted, g)
KeysInv == Queued(rec, keys, screen, shell)
PromptInv == Prompted(screen, shell)
TypingInv == \E t, u : Typing(rec, keys, shell, t, u)
Live == ScreenInv /\ KeysInv /\ PromptInv /\ TypingInv

FaithInv == doubt = {} => IF ended THEN recorded = submitted ELSE Live

-----------------------------------------------------------------------------
(* More output.                                                             *)

(* More output keeps the balance, when no line feed in it is the first      *)
(* while a command is pending.                                              *)
LEMMA BalancedOn ==
    ASSUME NEW s \in Seq(Outputs), NEW more \in Seq(Outputs), NEW g, NEW h,
           Continues(g, h, Len(s)), NEW sofar \in Seq(Commands), NEW pending, NEW taken,
           Balanced(s, g, pending, sofar, taken),
           NoFeed(s, Len(s)) => NoFeed(more, Len(more)) \/ pending = NothingPending
    PROVE  Balanced(s \o more, h, pending, sofar, taken)
<1>1. PICK m, n \in Nat : n = Len(s) /\ m = Len(more)
  OBVIOUS
<1> DEFINE all == s \o more
<1>2. /\ all \in Seq(Outputs) /\ Len(all) = n + m
      /\ \A k \in 1..n : all[k] = s[k]
      /\ \A k \in 1..m : all[n + k] = more[k]
  BY <1>1
<1> HIDE DEF all
<1>3. ASSUME NoFeed(all, n + m)
      PROVE  sofar = taken
  <2>1. NoFeed(s, n)
    BY <1>2, <1>3 DEF NoFeed
  <2> QED
    BY <1>1, <2>1 DEF Balanced
<1>4. ASSUME NEW p, FirstFeed(all, p)
      PROVE  sofar \o Command(h[p - 1].line, pending) = taken
  <2>1. p \in 1..(n + m) /\ all[p] = "lf" /\ \A j \in 1..(p - 1) : all[j] # "lf"
    BY <1>2, <1>4 DEF FirstFeed, NoFeed
  <2>2. CASE p <= n
    <3>1. p \in 1..n /\ p - 1 \in 0..n /\ \A j \in 1..(p - 1) : j \in 1..n
      BY <2>1, <2>2
    <3>2. FirstFeed(s, p)
      <4>1. s[p] = "lf" /\ \A j \in 1..(p - 1) : s[j] # "lf"
        BY <1>2, <2>1, <3>1
      <4>2. p \in DOMAIN s
        BY <1>1, <3>1
      <4> QED
        BY <4>1, <4>2 DEF FirstFeed, NoFeed
    <3>3. h[p - 1] = g[p - 1]
      BY <1>1, <3>1 DEF Continues
    <3> QED
      BY <3>2, <3>3 DEF Balanced
  <2>3. CASE ~(p <= n)
    <3>1. p - n \in 1..m /\ n + (p - n) = p
      BY <2>1, <2>3
    <3>2. \A j \in 1..n : j \in 1..(p - 1)
      BY <2>1, <2>3
    <3>3. NoFeed(s, n)
      BY <1>2, <2>1, <3>2 DEF NoFeed
    <3>4. more[p - n] = "lf"
      BY <1>2, <2>1, <3>1
    <3>5. pending = NothingPending
      BY <1>1, <3>1, <3>3, <3>4 DEF NoFeed
    <3>6. Command(h[p - 1].line, pending) = <<>>
      BY <3>5, NoCommand
    <3>7. sofar = taken
      BY <1>1, <3>3 DEF Balanced
    <3> QED
      BY <3>6, <3>7
  <2> QED
    BY <2>2, <2>3
<1> QED
  BY <1>2, <1>3, <1>4 DEF Balanced, all

(* So the shell may write, and stand where its output leads.                *)
LEMMA ScreenOn ==
    ASSUME NEW r, NEW s \in Seq(Outputs), NEW sh, NEW sofar \in Seq(Commands), NEW taken, NEW g,
           Tells(r, s, sh, sofar, taken, g), NEW mid, mid = g[Len(s)],
           NEW more \in Seq(Outputs), NEW e, Leads(mid, more, e), NEW to, Stands(e, to),
           NoFeed(s, Len(s)) => NoFeed(more, Len(more)) \/ r.pending = NothingPending
    PROVE  \E h : Tells(r, s \o more, to, sofar, taken, h)
<1>1. ShowsTo(Display(r), s, g, mid)
  BY DEF Tells, ShowsTo
<1>2. PICK h : ShowsTo(Display(r), s \o more, h, e) /\ Continues(g, h, Len(s))
  BY <1>1, ShowsOn
<1>3. PICK pending : pending = r.pending
  OBVIOUS
<1>4. Balanced(s, g, pending, sofar, taken)
  BY <1>3 DEF Tells
<1>5. NoFeed(s, Len(s)) => NoFeed(more, Len(more)) \/ pending = NothingPending
  BY <1>3
<1>6. Balanced(s \o more, h, pending, sofar, taken)
  BY <1>2, <1>4, <1>5, BalancedOn
<1>7. Tells(r, s \o more, to, sofar, taken, h)
  BY <1>2, <1>3, <1>6 DEF Tells, ShowsTo
<1> QED
  BY <1>7

(* No line ends: the keys and the prompts are what they were.               *)
LEMMA NoFeedOn ==
    ASSUME NEW s \in Seq(Outputs), NEW more \in Seq(Outputs)
    PROVE  NoFeed(s \o more, Len(s \o more)) <=> NoFeed(s, Len(s)) /\ NoFeed(more, Len(more))
<1>1. PICK m, n \in Nat : n = Len(s) /\ m = Len(more)
  OBVIOUS
<1> DEFINE all == s \o more
<1>2. /\ Len(all) = n + m
      /\ \A k \in 1..n : all[k] = s[k]
      /\ \A k \in 1..m : all[n + k] = more[k]
  BY <1>1
<1> HIDE DEF all
<1>3. ASSUME NoFeed(all, n + m)
      PROVE  NoFeed(s, n) /\ NoFeed(more, m)
  <2>1. \A k \in 1..n : k \in 1..(n + m)
    OBVIOUS
  <2>2. \A k \in 1..m : n + k \in 1..(n + m)
    OBVIOUS
  <2>3. NoFeed(s, n)
    BY <1>2, <1>3, <2>1 DEF NoFeed
  <2>4. NoFeed(more, m)
    BY <1>2, <1>3, <2>2 DEF NoFeed
  <2> QED
    BY <2>3, <2>4
<1>4. ASSUME NoFeed(s, n), NoFeed(more, m)
      PROVE  NoFeed(all, n + m)
  <2> SUFFICES ASSUME NEW k \in 1..(n + m) PROVE all[k] # "lf"
    BY DEF NoFeed
  <2>1. CASE k <= n
    BY <1>2, <1>4, <2>1 DEF NoFeed
  <2>2. CASE ~(k <= n)
    <3>1. k - n \in 1..m /\ n + (k - n) = k
      BY <2>2
    <3>2. all[n + (k - n)] = more[k - n]
      BY <1>2, <3>1
    <3> QED
      BY <1>4, <3>1, <3>2 DEF NoFeed
  <2> QED
    BY <2>1, <2>2
<1> QED
  BY <1>1, <1>2, <1>3, <1>4 DEF all

(* Every line feed comes before the end, and the end is a prompt.           *)
LEMMA PromptedLast ==
    ASSUME NEW s \in Seq(Outputs), NEW prompt \in Prompts, NEW sh
    PROVE  Prompted(Append(s, prompt), sh)
<1>1. PICK n \in Nat : n = Len(s)
  OBVIOUS
<1> DEFINE all == Append(s, prompt)
<1>0. prompt # "lf" /\ prompt \in Outputs
  BY Zenon DEF Prompts, Outputs, Cells
<1>2. Len(all) = n + 1 /\ all[n + 1] = prompt
  BY <1>0, <1>1, AppendProperties
<1> HIDE DEF all
<1>3. prompt # "lf" /\ n + 1 \in 1..(n + 1)
  BY <1>0
<1>4. \A i \in 1..(n + 1) : all[i] = "lf" => n + 1 > i
  BY <1>2, <1>3
<1>5. \A i \in 1..(n + 1) : all[i] = "lf" => \E j \in 1..(n + 1) : j > i /\ all[j] \in Prompts
  BY <1>2, <1>3, <1>4
<1> QED
  BY <1>2, <1>5 DEF Prompted, all

(* Output without a line feed keeps the prompt behind the last one.         *)
LEMMA PromptedOn ==
    ASSUME NEW s \in Seq(Outputs), NEW more \in Seq(Outputs), NoFeed(more, Len(more)),
           NEW sh, sh.mode # "running", Prompted(s, sh), NEW to
    PROVE  Prompted(s \o more, to)
<1>1. PICK m, n \in Nat : n = Len(s) /\ m = Len(more)
  OBVIOUS
<1> DEFINE all == s \o more
<1>2. /\ Len(all) = n + m
      /\ \A k \in 1..n : all[k] = s[k]
      /\ \A k \in 1..m : all[n + k] = more[k]
  BY <1>1
<1> HIDE DEF all
<1>3. ASSUME NEW i \in 1..(n + m), all[i] = "lf"
      PROVE  \E j \in 1..(n + m) : j > i /\ all[j] \in Prompts
  <2>1. i \in 1..n
    <3>1. CASE i <= n
      BY <3>1
    <3>2. CASE ~(i <= n)
      <4>1. i - n \in 1..m /\ n + (i - n) = i
        BY <3>2
      <4>2. all[n + (i - n)] = more[i - n]
        BY <1>2, <4>1
      <4> QED
        BY <1>1, <1>3, <4>1, <4>2 DEF NoFeed
    <3> QED
      BY <3>1, <3>2
  <2>2. s[i] = "lf"
    BY <1>2, <1>3, <2>1
  <2>3. PICK j \in 1..n : j > i /\ s[j] \in Prompts
    BY <1>1, <2>1, <2>2 DEF Prompted
  <2>4. j \in 1..(n + m) /\ all[j] \in Prompts
    BY <1>2, <2>3
  <2> QED
    BY <2>3, <2>4
<1> QED
  BY <1>2, <1>3 DEF Prompted, all

(* A prompt that waits: no line is to come, and none is pending.            *)
LEMMA ReadyIsQuiet ==
    ASSUME TypeInv, Live, Ready
    PROVE  /\ NoFeed(screen, Len(screen)) /\ rec.pending = NothingPending
           /\ shell.mode # "running" /\ emitting = <<>>
           /\ \A i \in 1..Len(keys) : keys[i] \in Editing
<1>0. screen \in Seq(Outputs) /\ keys \in Seq(Keys)
  BY DEF TypeInv, RemoteType
<1>1. shell.mode # "running" /\ emitting = <<>>
  BY DEF Ready
<1>2. \A i \in 1..Len(screen) : screen[i] \notin Prompts
  <2>1. DOMAIN screen = 1..Len(screen)
    BY <1>0
  <2>2. \A i \in DOMAIN screen : screen[i] \notin {"prompt", "other prompt", "ask"}
    BY DEF Ready
  <2> QED
    BY <2>1, <2>2 DEF Prompts
<1>3. NoFeed(screen, Len(screen))
  BY <1>1, <1>2 DEF NoFeed, Live, PromptInv, Prompted
<1>4. \A i \in 1..Len(keys) : keys[i] \notin {"enter", "intr"}
  <2>1. DOMAIN keys = 1..Len(keys)
    BY <1>0
  <2>2. \A i \in DOMAIN keys : keys[i] \notin {"enter", "intr"}
    BY DEF Ready
  <2> QED
    BY <2>1, <2>2
<1>5. rec.pending = NothingPending
  BY <1>3, <1>4 DEF Live, KeysInv, Queued, Entered
<1>6. \A i \in 1..Len(keys) : keys[i] \in Keys
  BY <1>0
<1> QED
  BY <1>1, <1>3, <1>4, <1>5, <1>6 DEF Keys

-----------------------------------------------------------------------------
(* What the shell writes.                                                   *)

Nothing == [line |-> <<>>, col |-> 0]
Behind(base) == [line |-> base, col |-> Len(base)]

(* The line that is empty.                                                  *)
LEMMA NothingShown ==
    /\ Nothing \in Displays /\ Nothing.line = <<>> /\ Nothing.col = 0
    /\ \A d \in Displays : d.line = <<>> => d = Nothing
<1>1. <<>> \in Seq(Cells) /\ Len(<<>>) = 0
  OBVIOUS
<1>2. Nothing \in Displays /\ Nothing.line = <<>> /\ Nothing.col = 0
  BY <1>1 DEF Nothing, Displays
<1>3. ASSUME NEW d \in Displays, d.line = <<>>
      PROVE  d = Nothing
  <2>1. d = [line |-> d.line, col |-> d.col] /\ d.col \in Nat /\ d.col <= Len(d.line)
    BY DEF Displays
  <2>2. d.col = 0
    BY <1>1, <1>3, <2>1
  <2> QED
    BY <1>3, <2>1, <2>2 DEF Nothing
<1> QED
  BY <1>2, <1>3

(* What the shell writes.                                                   *)
LEMMA CellsAreOutput ==
    /\ \A cell \in Cells : cell \in Outputs
    /\ {"lf", "cr", "bs", "el", "^C", "out", "ask", "prompt", "other prompt"} \subseteq Outputs
    /\ {"^C", "out", "ask", "prompt", "other prompt"} \subseteq Cells
BY DEF Outputs, Cells

(* One cell and another.                                                    *)
LEMMA Joined ==
    ASSUME NEW S, NEW a \in S, NEW b \in S
    PROVE  <<a>> \o <<b>> = <<a, b>>
<1> DEFINE x == <<a>> \o <<b>>
           y == <<a, b>>
<1>1. <<a>> \in Seq(S) /\ <<b>> \in Seq(S) /\ y \in Seq(S) /\ Len(y) = 2 /\ y[1] = a /\ y[2] = b
  OBVIOUS
<1>2. x \in Seq(S) /\ Len(x) = 2
  BY <1>1, ConcatProperties
<1>3. x[1] = a /\ x[2] = b
  BY <1>1, ConcatProperties
<1> HIDE DEF x, y
<1>4. \A i \in 1..2 : x[i] = y[i]
  BY <1>1, <1>3
<1>5. x = y
  BY <1>1, <1>2, <1>4, SeqEqual
<1> QED
  BY <1>5 DEF x, y

(* Two cells and another.                                                   *)
LEMMA JoinedThree ==
    ASSUME NEW S, NEW a \in S, NEW b \in S, NEW c \in S
    PROVE  <<a, b>> \o <<c>> = <<a, b, c>>
<1> DEFINE x == <<a, b>> \o <<c>>
           y == <<a, b, c>>
<1>1. <<a, b>> \in Seq(S) /\ <<c>> \in Seq(S) /\ y \in Seq(S)
      /\ Len(y) = 3 /\ y[1] = a /\ y[2] = b /\ y[3] = c
  OBVIOUS
<1>2. x \in Seq(S) /\ Len(x) = 3
  BY <1>1, ConcatProperties
<1>3. x[1] = a /\ x[2] = b /\ x[3] = c
  BY <1>1, ConcatProperties
<1> HIDE DEF x, y
<1>4. \A i \in 1..3 : x[i] = y[i]
  BY <1>1, <1>3
<1>5. x = y
  BY <1>1, <1>2, <1>4, SeqEqual
<1> QED
  BY <1>5 DEF x, y

(* Each cell has an effect.                                                 *)
LEMMA LeadsTo ==
    ASSUME NEW d \in Displays, NEW cell \in Outputs
    PROVE  \E e \in Displays : Leads(d, <<cell>>, e)
BY ShowTyped, LeadsOneCell

(* A line feed leads to the empty line.                                     *)
LEMMA LeadsFeed ==
    ASSUME NEW d \in Displays
    PROVE  Leads(d, <<"lf">>, Nothing)
BY LeadsOneCell, ShowIs, CellsAreOutput DEF Nothing

(* So does a line that ends.                                                *)
LEMMA LeadsEnd ==
    ASSUME NEW d \in Displays, NEW cell \in Outputs
    PROVE  Leads(d, <<cell, "cr", "lf">>, Nothing) /\ <<cell, "cr", "lf">> \in Seq(Outputs)
<1>1. PICK e \in Displays : Leads(d, <<cell>>, e)
  BY LeadsTo
<1>2. PICK f \in Displays : Leads(e, <<"cr">>, f)
  BY LeadsTo, CellsAreOutput
<1>0. "cr" \in Outputs /\ "lf" \in Outputs
  BY CellsAreOutput
<1>3. <<cell>> \in Seq(Outputs) /\ <<"cr">> \in Seq(Outputs) /\ <<"lf">> \in Seq(Outputs)
  BY <1>0
<1>4. PICK x : x = <<cell>> \o <<"cr">>
  OBVIOUS
<1>5. x = <<cell, "cr">> /\ x \in Seq(Outputs) /\ x \o <<"lf">> = <<cell, "cr", "lf">>
  <2>1. x = <<cell, "cr">>
    BY <1>0, <1>4, Joined
  <2>2. x \in Seq(Outputs)
    BY <1>0, <2>1
  <2>3. <<cell, "cr">> \o <<"lf">> = <<cell, "cr", "lf">>
    BY <1>0, JoinedThree
  <2> QED
    BY <2>1, <2>2, <2>3
<1>6. Leads(d, x, f)
  BY <1>1, <1>2, <1>3, <1>4, LeadsOn
<1>7. Leads(d, x \o <<"lf">>, Nothing)
  BY <1>2, <1>3, <1>5, <1>6, LeadsOn, LeadsFeed
<1>8. <<cell, "cr", "lf">> \in Seq(Outputs)
  BY <1>0
<1> QED
  BY <1>5, <1>7, <1>8

(* A cell behind what is written so far.                                    *)
LEMMA LeadsPrompt ==
    ASSUME NEW base \in Seq(Cells), NEW cell \in Cells
    PROVE  Leads(Behind(base), <<cell>>, Behind(Append(base, cell))) /\ Behind(base) \in Displays
<1> DEFINE d == Behind(base)
<1>1. d.line = base /\ d.col = Len(base) /\ Len(base) \in Nat /\ d \in Displays
  BY DEF Behind, Displays
<1> HIDE DEF d
<1>2. Show(d, cell) = [line |-> Overwritten(d, cell), col |-> d.col + 1]
  BY <1>1, ShowIs
<1>3. Overwritten(d, cell) = Append(base, cell) /\ d.col + 1 = Len(Append(base, cell))
  BY <1>1, AppendProperties DEF Overwritten
<1>4. Show(d, cell) = Behind(Append(base, cell))
  BY <1>2, <1>3 DEF Behind
<1>5. Leads(d, <<cell>>, Show(d, cell))
  BY <1>1, LeadsOneCell, CellsAreOutput
<1>6. Leads(d, <<cell>>, Behind(Append(base, cell)))
  BY <1>4, <1>5
<1> QED
  BY <1>1, <1>6 DEF d

(* A prompt that has just been written is where the shell stands.           *)
LEMMA StandsBehind ==
    ASSUME NEW base \in Seq(Cells), base # <<>>, NEW sh, sh.mode # "running",
           sh.mode = "prompt" => sh.buffer = <<>>,
           Echoes(sh) => base = <<"prompt">>, ~Echoes(sh) => base[1] # "prompt"
    PROVE  Stands(Behind(base), sh)
<1>1. Behind(base).line = base /\ Behind(base).col = Len(base)
  BY DEF Behind
<1>2. OnLine(Behind(base), base, <<>>)
  <2>1. Len(base) \in Nat /\ Len(<<>>) = 0
    OBVIOUS
  <2>2. \A i \in 1..Len(base) : ~(i > Len(base))
    BY <2>1
  <2> QED
    BY <1>1, <2>1, <2>2 DEF OnLine
<1>3. (IF sh.mode = "prompt" THEN sh.buffer ELSE <<>>) = <<>>
  OBVIOUS
<1> QED
  BY <1>2, <1>3 DEF Stands

-----------------------------------------------------------------------------
(* The relay's actions.                                                     *)

(* Emitting moves a command from what is resolved to the record.            *)
LEMMA EmitCommandFaith ==
    ASSUME TypeInv, Live, EmitCommand
    PROVE  Live'
<1>0. emitting \in Seq(Commands) /\ recorded \in Seq(Commands) /\ emitting # <<>>
  BY DEF TypeInv, RelayType, EmitCommand
<1>1. /\ UNCHANGED <<rec, keys, screen, shell, submitted>>
      /\ recorded' = Append(recorded, Head(emitting)) /\ emitting' = Tail(emitting)
  BY DEF EmitCommand, remote
<1>2. recorded' \o emitting' = recorded \o emitting
  <2>1. Head(emitting) \in Commands /\ Tail(emitting) \in Seq(Commands)
    BY <1>0, HeadTailProperties
  <2>2. PICK a, b : a = Head(emitting) /\ b = Tail(emitting)
    OBVIOUS
  <2>3. emitting = <<a>> \o b
    BY <1>0, <2>1, <2>2
  <2>4. Append(recorded, a) \o b = recorded \o (<<a>> \o b)
    <3>1. Append(recorded, a) = recorded \o <<a>> /\ <<a>> \in Seq(Commands)
      BY <1>0, <2>1, <2>2
    <3> QED
      BY <1>0, <2>1, <2>2, <3>1, ConcatAssociative
  <2> QED
    BY <1>1, <2>2, <2>3, <2>4
<1>3. ScreenInv'
  BY <1>1, <1>2 DEF Live, ScreenInv
<1>4. KeysInv' /\ PromptInv' /\ TypingInv'
  BY <1>1 DEF Live, KeysInv, PromptInv, TypingInv
<1> QED
  BY <1>3, <1>4 DEF Live

(* An attacker who leaves at a prompt leaves nothing to flush.              *)
LEMMA AttackerLeavesFaith ==
    ASSUME TypeInv, Live, AttackerLeaves, doubt' = {}
    PROVE  recorded' = submitted'
<1>1. Ready /\ recorded' = recorded \o Flushed(rec) /\ submitted' = submitted
  BY DEF AttackerLeaves, Teardown, remote
<1>2. NoFeed(screen, Len(screen)) /\ rec.pending = NothingPending /\ emitting = <<>>
  BY <1>1, ReadyIsQuiet
<1>3. recorded \o emitting = submitted
  BY <1>2 DEF Live, ScreenInv, Tells, Balanced
<1>4. Flushed(rec) = <<>>
  BY <1>2 DEF Flushed
<1> QED
  BY <1>1, <1>2, <1>3, <1>4

(* When the shell's output has ended, everything is resolved.               *)
LEMMA ShellExitsFaith ==
    ASSUME TypeInv, Live, ShellExits
    PROVE  recorded' = submitted'
<1>1. /\ shell.mode = "running" /\ screen = <<>> /\ emitting = <<>>
      /\ recorded' = recorded \o Flushed(rec) /\ submitted' = submitted
  BY DEF ShellExits, Teardown, remote
<1>2. NoFeed(screen, Len(screen))
  BY <1>1 DEF NoFeed
<1>3. recorded \o emitting = submitted
  BY <1>2 DEF Live, ScreenInv, Tells, Balanced
<1>4. rec.pending = NothingPending
  <2>1. Interrupts(keys)
    BY <1>1 DEF Live, KeysInv, Queued
  <2>2. ~Entered(keys)
    BY <2>1 DEF Interrupts, Entered
  <2> QED
    BY <1>2, <2>2 DEF Live, KeysInv, Queued
<1>5. Flushed(rec) = <<>>
  BY <1>4 DEF Flushed
<1> QED
  BY <1>1, <1>3, <1>5

(* A recorder whose line is the same.                                       *)
LEMMA TellsOther ==
    ASSUME NEW r, NEW s, NEW sh, NEW sofar, NEW taken, NEW g, Tells(r, s, sh, sofar, taken, g),
           NEW to, to.line = r.line, to.col = r.col,
           to.pending = r.pending \/ NoFeed(s, Len(s)), s \in Seq(Outputs)
    PROVE  Tells(to, s, sh, sofar, taken, g)
<1>1. Display(to) = Display(r)
  BY DEF Display
<1>2. Balanced(s, g, to.pending, sofar, taken)
  <2>1. CASE to.pending = r.pending
    BY <2>1 DEF Tells
  <2>2. CASE NoFeed(s, Len(s))
    <3>1. \A p : ~FirstFeed(s, p)
      BY <2>2 DEF NoFeed, FirstFeed
    <3> QED
      BY <2>2, <3>1 DEF Tells, Balanced
  <2> QED
    BY <2>1, <2>2
<1> QED
  BY <1>1, <1>2 DEF Tells

(* A typed line, even the empty one, is not "nothing pending".              *)
LEMMA PendingIsNothing ==
    ASSUME NEW t \in Seq(Text)
    PROVE  t # NothingPending
<1>1. "none" \notin Text
  BY DEF Text, Letter, Space, Completion
<1>2. ASSUME t = NothingPending PROVE FALSE
  <2>1. Len(NothingPending) = 1 /\ NothingPending[1] = "none"
    BY DEF NothingPending
  <2>2. t[1] \in Text
    BY <1>2, <2>1
  <2> QED
    BY <1>1, <1>2, <2>1, <2>2
<1> QED
  BY <1>2

(* A key that is pressed in its turn: Enter is pending until its line feed  *)
(* is read, and an interrupt forgets what was typed.                        *)
LEMMA PressFaith ==
    ASSUME TypeInv, Live, NEW key \in Keys, Press(key), doubt' = {}
    PROVE  Live'
<1>0. /\ rec \in Recorders /\ keys \in Seq(Keys) /\ screen \in Seq(Outputs) /\ ~rec.escaping
  BY DEF TypeInv, RelayType, RemoteType, Live, KeysInv, Queued
<1>1. /\ rec' = FeedInput(rec, BytesOf(key)) /\ keys' = Append(keys, key)
      /\ UNCHANGED <<emitting, recorded, screen, shell, submitted>>
  BY DEF Press, remote
<1>2. Ready \/ (key = "intr" /\ rec.pending = NothingPending)
  <2>1. ~TooSoon(key)
    BY DEF Press
  <2> QED
    BY <2>1 DEF TooSoon
<1>3. PICK n \in Nat : n = Len(keys)
  BY <1>0
<1>4. /\ Len(keys') = n + 1 /\ keys'[n + 1] = key /\ \A i \in 1..n : keys'[i] = keys[i]
      /\ \A i \in 1..(n + 1) : i \in 1..n \/ i = n + 1
  BY <1>0, <1>1, <1>3, AppendProperties
<1>5. PICK t, u : Typing(rec, keys, shell, t, u)
  BY DEF Live, TypingInv
<1>6. PICK g : Tells(rec, screen, shell, recorded \o emitting, submitted, g)
  BY DEF Live, ScreenInv
<1>7. rec.pending = NothingPending
  BY <1>2, ReadyIsQuiet
<1>8. ~Entered(keys)
  BY <1>7 DEF Live, KeysInv, Queued, Entered
<1>9. rec.typed = u /\ t \in Seq(Text) /\ u \in Seq(Text) /\ Agrees(t, shell) /\ TypedBy(t, keys, u)
  BY <1>5, <1>8 DEF Typing
<1>10. TypedBy(t, keys', TypedKey(u, key)) /\ TypedKey(u, key) \in Seq(Text)
  BY <1>0, <1>1, <1>9, TypedMore, TypedKeyTyped
<1>11. PromptInv'
  BY <1>1 DEF Live, PromptInv
<1>12. CASE key = "intr"
  <2>1. ByteTyped(rec, rec', <<>>, NothingPending, FALSE)
    BY <1>0, <1>1, <1>12, KeyTyped
  <2>2. /\ rec'.line = rec.line /\ rec'.col = rec.col /\ rec'.pending = rec.pending
        /\ rec'.typed = <<>> /\ rec'.escaping = FALSE
    BY <1>7, <2>1 DEF ByteTyped
  <2>3. ScreenInv'
    <3>1. Tells(rec', screen, shell, recorded \o emitting, submitted, g)
      BY <1>0, <1>6, <2>2, TellsOther
    <3> QED
      BY <1>1, <3>1 DEF ScreenInv
  <2>4. ~Entered(keys')
    BY <1>3, <1>4, <1>8, <1>12 DEF Entered
  <2>5. KeysInv'
    <3>1. Queued(rec, keys, screen, shell)
      BY DEF Live, KeysInv
    <3>2. shell.mode = "running" => shell.buffer = <<>> /\ Interrupts(keys')
      BY <1>3, <1>4, <1>12, <3>1 DEF Queued, Interrupts
    <3>3. \A i, j \in 1..(n + 1) : j < i /\ keys'[j] = "intr" => keys'[i] = "intr"
      <4> SUFFICES ASSUME NEW i \in 1..(n + 1), NEW j \in 1..(n + 1), j < i, keys'[j] = "intr"
                   PROVE  keys'[i] = "intr"
        OBVIOUS
      <4>1. CASE i = n + 1
        BY <1>4, <1>12, <4>1
      <4>2. CASE i \in 1..n
        <5>1. j \in 1..n
          BY <4>2
        <5> QED
          BY <1>3, <1>4, <3>1, <4>2, <5>1 DEF Queued
      <4> QED
        BY <1>4, <4>1, <4>2
    <3>4. Queued(rec', keys', screen, shell)
      BY <1>4, <1>7, <2>2, <2>4, <3>2, <3>3 DEF Queued, Entered
    <3> QED
      BY <1>1, <3>4 DEF KeysInv
  <2>6. TypingInv'
    <3>1. TypedKey(u, key) = <<>>
      BY <1>12, TypedKeyIs
    <3>2. TypedBy(t, keys', <<>>) /\ <<>> \in Seq(Text)
      BY <1>10, <3>1
    <3>3. Typing(rec', keys', shell, t, <<>>)
      BY <1>9, <2>2, <2>4, <3>2 DEF Typing
    <3> QED
      BY <1>1, <3>3 DEF TypingInv
  <2> QED
    BY <1>11, <2>3, <2>5, <2>6 DEF Live
<1>13. CASE Ready /\ key # "intr"
  <2>1. /\ NoFeed(screen, Len(screen)) /\ shell.mode # "running"
        /\ \A i \in 1..n : keys[i] \in Editing
    BY <1>3, <1>13, ReadyIsQuiet
  <2>2. "enter" \notin Editing /\ "intr" \notin Editing
    BY DEF Editing, Letter, Space
  <2>3. \A i \in 1..(n + 1) : keys'[i] # "intr"
    BY <1>4, <1>13, <2>1, <2>2
  <2>4. \A i \in 1..n : keys'[i] # "enter"
    BY <1>4, <2>1, <2>2
  <2>5. ASSUME rec'.line = rec.line, rec'.col = rec.col
        PROVE  ScreenInv'
    <3>1. Tells(rec', screen, shell, recorded \o emitting, submitted, g)
      BY <1>0, <1>6, <2>1, <2>5, TellsOther
    <3> QED
      BY <1>1, <3>1 DEF ScreenInv
  <2>6. CASE key \in Editing
    <3>1. ByteTyped(rec, rec', TypedKey(rec.typed, key), rec.pending, FALSE)
      BY <1>0, <1>1, <2>6, KeyTyped
    <3>2. /\ rec'.line = rec.line /\ rec'.col = rec.col /\ rec'.pending = NothingPending
          /\ rec'.typed = TypedKey(u, key) /\ rec'.escaping = FALSE
      BY <1>7, <1>9, <3>1 DEF ByteTyped
    <3>3. ~Entered(keys')
      BY <1>4, <2>2, <2>4, <2>6 DEF Entered
    <3>4. Queued(rec', keys', screen, shell)
      BY <1>4, <2>1, <2>3, <3>2, <3>3 DEF Queued, Entered
    <3>5. Typing(rec', keys', shell, t, TypedKey(u, key))
      BY <1>9, <1>10, <3>2, <3>3 DEF Typing
    <3>6. KeysInv' /\ TypingInv'
      BY <1>1, <3>4, <3>5 DEF KeysInv, TypingInv
    <3> QED
      BY <1>11, <2>5, <3>2, <3>6 DEF Live
  <2>7. CASE key = "enter"
    <3>1. ByteTyped(rec, rec', <<>>, Strip(rec.typed), FALSE)
      BY <1>0, <1>1, <2>7, KeyTyped
    <3>2. /\ rec'.line = rec.line /\ rec'.col = rec.col /\ rec'.pending = Strip(u)
          /\ rec'.typed = <<>> /\ rec'.escaping = FALSE
      BY <1>9, <3>1 DEF ByteTyped
    <3>3. rec'.pending # NothingPending
      BY <1>9, <3>2, StripTyped, PendingIsNothing
    <3>4. Entered(keys')
      <4>1. n + 1 \in 1..(n + 1)
        OBVIOUS
      <4> QED
        BY <1>4, <2>7, <4>1 DEF Entered
    <3>5. Queued(rec', keys', screen, shell)
      <4>1. \A i \in 1..(n + 1) : keys'[i] = "enter" => i = n + 1
        BY <1>4, <2>4
      <4> QED
        BY <1>4, <2>1, <2>3, <3>2, <3>3, <3>4, <4>1 DEF Queued
    <3>6. TypedKey(u, key) = u
      BY <2>7, TypedKeyIs
    <3>7. Typing(rec', keys', shell, t, u)
      BY <1>9, <1>10, <3>2, <3>4, <3>6 DEF Typing
    <3>8. KeysInv' /\ TypingInv'
      BY <1>1, <3>5, <3>7 DEF KeysInv, TypingInv
    <3> QED
      BY <1>11, <2>5, <3>2, <3>8 DEF Live
  <2> QED
    BY <1>13, <2>6, <2>7 DEF Keys
<1> QED
  BY <1>2, <1>12, <1>13

(* The rest of a screen.                                                    *)
Rest(s, n) == SubSeq(s, n + 1, Len(s))

(* The output that a chunk leaves.                                          *)
LEMMA RestIs ==
    ASSUME NEW s \in Seq(Outputs), NEW n \in 0..Len(s)
    PROVE  /\ Rest(s, n) \in Seq(Outputs) /\ Len(Rest(s, n)) = Len(s) - n
           /\ \A k \in 1..(Len(s) - n) : Rest(s, n)[k] = s[n + k]
<1>1. n \in Nat /\ Len(s) \in Nat /\ n <= Len(s)
  OBVIOUS
<1>2. n + 1 \in Nat \ {0} /\ Len(s) \in 0..Len(s)
  BY <1>1
<1>3. Rest(s, n) \in Seq(Outputs)
  BY <1>2, PartTyped DEF Rest
<1>4. Len(Rest(s, n)) = Len(s) - n /\ \A k \in 1..(Len(s) - n) : Rest(s, n)[k] = s[n + k]
  BY <1>1 DEF Rest
<1> QED
  BY <1>3, <1>4

(* The states of the line go on from where they were.                       *)
Resumes(s, n, g, h) ==
    /\ Shows(g[n], Rest(s, n), h)
    /\ h[Len(Rest(s, n))] = g[Len(s)]
    /\ \A k \in 0..(Len(s) - n) : h[k] = g[n + k]

(* The rest of the output goes on from the line that was read.              *)
LEMMA ShowsRest ==
    ASSUME NEW d, NEW s \in Seq(Outputs), NEW g, Shows(d, s, g), NEW n \in 0..Len(s)
    PROVE  \E h : Resumes(s, n, g, h)
<1>1. PICK l \in Nat : l = Len(s) /\ n \in 0..l
  OBVIOUS
<1>2. PICK m \in Nat : m = l - n /\ n + m = l
  <2>1. l - n \in Nat /\ n + (l - n) = l
    BY <1>1
  <2> QED
    BY <2>1
<1> DEFINE rest == Rest(s, n)
           h == [k \in 0..m |-> g[n + k]]
<1>3. Len(rest) = m /\ \A k \in 1..m : rest[k] = s[n + k]
  BY <1>1, <1>2, RestIs
<1>4. /\ g \in [0..l -> Displays] /\ \A k \in 1..l : g[k] = Show(g[k - 1], s[k])
  BY <1>1 DEF Shows
<1>5. \A k \in 0..m : n + k \in 0..l /\ g[n + k] \in Displays
  BY <1>1, <1>2, <1>4
<1>6. h \in [0..m -> Displays] /\ \A k \in 0..m : h[k] = g[n + k]
  BY <1>5
<1> HIDE DEF h, rest
<1>7. h[0] = g[n]
  BY <1>1, <1>6
<1>8. ASSUME NEW k \in 1..m
      PROVE  h[k] = Show(h[k - 1], rest[k])
  <2>1. k \in 0..m /\ k - 1 \in 0..m /\ n + k \in 1..l /\ (n + k) - 1 = n + (k - 1)
    BY <1>1, <1>2
  <2>2. h[k] = g[n + k] /\ h[k - 1] = g[n + (k - 1)] /\ rest[k] = s[n + k]
    BY <1>3, <1>6, <2>1
  <2>3. g[n + k] = Show(g[(n + k) - 1], s[n + k])
    BY <1>4, <2>1
  <2> QED
    BY <2>1, <2>2, <2>3
<1>9. Shows(g[n], rest, h)
  BY <1>3, <1>6, <1>7, <1>8 DEF Shows
<1>10. h[m] = g[l]
  BY <1>2, <1>6
<1> QED
  BY <1>1, <1>2, <1>3, <1>6, <1>9, <1>10 DEF rest, Resumes

(* What has been read of a balanced screen is on the record.                *)
LEMMA BalancedRest ==
    ASSUME NEW s \in Seq(Outputs), NEW g, NEW n \in 0..Len(s), NEW h,
           \A k \in 0..(Len(s) - n) : h[k] = g[n + k],
           NEW r, NEW sofar \in Seq(Commands), NEW taken, Balanced(s, g, r.pending, sofar, taken),
           NEW f, ReadTo(f, r, s, g, n), f.commands \in Seq(Commands)
    PROVE  Balanced(Rest(s, n), h, f.rec.pending, sofar \o f.commands, taken)
<1>1. PICK l \in Nat : l = Len(s) /\ n \in 0..l
  OBVIOUS
<1>2. PICK m \in Nat : m = l - n /\ n + m = l
  <2>1. l - n \in Nat /\ n + (l - n) = l
    BY <1>1
  <2> QED
    BY <2>1
<1> DEFINE rest == Rest(s, n)
<1>3. Len(rest) = m /\ (\A k \in 1..m : rest[k] = s[n + k]) /\ DOMAIN rest = 1..m
  <2>1. rest \in Seq(Outputs) /\ Len(rest) = m /\ \A k \in 1..m : rest[k] = s[n + k]
    BY <1>1, <1>2, RestIs
  <2> HIDE DEF rest
  <2> QED
    BY <2>1
<1> HIDE DEF rest
<1>4. CASE NoFeed(s, n)
  <2>1. f.rec.pending = r.pending /\ f.commands = <<>> /\ sofar \o f.commands = sofar
    BY <1>4 DEF ReadTo
  <2>2. ASSUME NEW k \in 0..m, NoFeed(rest, k)
        PROVE  NoFeed(s, n + k)
    <3> SUFFICES ASSUME NEW j \in 1..(n + k) PROVE s[j] # "lf"
      BY DEF NoFeed
    <3>1. CASE j <= n
      BY <1>4, <3>1 DEF NoFeed
    <3>2. CASE ~(j <= n)
      <4>1. j - n \in 1..k /\ j - n \in 1..m /\ n + (j - n) = j
        BY <1>1, <2>2, <3>2
      <4>2. rest[j - n] = s[n + (j - n)]
        BY <1>3, <4>1
      <4> QED
        BY <2>2, <4>1, <4>2 DEF NoFeed
    <3> QED
      BY <3>1, <3>2
  <2>3. ASSUME NoFeed(rest, m)
        PROVE  sofar = taken
    <3>1. NoFeed(s, n + m)
      BY <2>2, <2>3
    <3> QED
      BY <1>1, <1>2, <3>1 DEF Balanced
  <2>4. ASSUME NEW p, FirstFeed(rest, p)
        PROVE  sofar \o Command(h[p - 1].line, r.pending) = taken
    <3>1. p \in 1..m /\ rest[p] = "lf" /\ NoFeed(rest, p - 1)
      BY <1>3, <2>4 DEF FirstFeed
    <3>2. p - 1 \in 0..m /\ n + p \in 1..l /\ n + (p - 1) = (n + p) - 1
      BY <1>1, <1>2, <3>1
    <3>3. NoFeed(s, n + (p - 1)) /\ s[n + p] = "lf"
      BY <1>3, <2>2, <3>1, <3>2
    <3>4. FirstFeed(s, n + p)
      BY <1>1, <3>2, <3>3 DEF FirstFeed
    <3>5. h[p - 1] = g[(n + p) - 1]
      BY <1>1, <1>2, <3>2
    <3>6. sofar \o Command(g[(n + p) - 1].line, r.pending) = taken
      BY <3>4 DEF Balanced
    <3> QED
      BY <3>5, <3>6
  <2> QED
    BY <1>3, <2>1, <2>3, <2>4 DEF Balanced, rest
<1>5. CASE ~NoFeed(s, n)
  <2>1. PICK p \in 1..n : FirstFeed(s, p)
    <3>1. NoFeed(s, Len(s)) \/ \E p : FirstFeed(s, p)
      BY FeedOrNone
    <3>2. ~NoFeed(s, Len(s))
      BY <1>1, <1>5 DEF NoFeed
    <3>3. PICK p : FirstFeed(s, p)
      BY <3>1, <3>2
    <3>4. p \in 1..l /\ NoFeed(s, p - 1)
      BY <1>1, <3>3 DEF FirstFeed
    <3>5. p <= n
      <4> SUFFICES ASSUME ~(p <= n) PROVE FALSE
        OBVIOUS
      <4>1. \A j \in 1..n : j \in 1..(p - 1)
        BY <1>1, <3>4
      <4> QED
        BY <1>5, <3>4, <4>1 DEF NoFeed
    <3> QED
      BY <3>3, <3>4, <3>5
  <2>2. f.rec.pending = NothingPending /\ f.commands = Command(g[p - 1].line, r.pending)
    BY <2>1 DEF ReadTo
  <2>3. sofar \o f.commands = taken
    BY <2>1, <2>2 DEF Balanced
  <2>4. \A line : Command(line, f.rec.pending) = <<>>
    BY <2>2, NoCommand
  <2>5. \A line : (sofar \o f.commands) \o Command(line, f.rec.pending) = taken
    <3>1. taken \in Seq(Commands)
      BY <2>3, ConcatProperties
    <3>2. taken \o <<>> = taken
      BY <3>1
    <3> QED
      BY <2>3, <2>4, <3>2
  <2> QED
    BY <2>3, <2>5 DEF Balanced
<1> QED
  BY <1>4, <1>5

(* Reading a chunk that cuts no escape sequence keeps the invariant.        *)
LEMMA ReadOutputFaith ==
    ASSUME TypeInv, TypeInv', Live, NEW n \in ChunkEnds, ReadOutput(n)
    PROVE  Live'
<1>0. /\ rec \in Recorders /\ screen \in Seq(Outputs) /\ recorded \in Seq(Commands)
      /\ emitting = <<>> /\ recorded \o emitting = recorded /\ emitting' \in Seq(Commands)
  <2>1. rec \in Recorders /\ screen \in Seq(Outputs) /\ recorded \in Seq(Commands)
    BY DEF TypeInv, RelayType, RemoteType
  <2>2. emitting = <<>> /\ emitting' \in Seq(Commands)
    BY DEF ReadOutput, Record, TypeInv, RelayType
  <2> QED
    BY <2>1, <2>2
<1>1. n \in 0..Len(screen)
  <2>1. n \in DOMAIN screen
    BY DEF ChunkEnds
  <2> QED
    BY <1>0, <2>1
<1> DEFINE f == FeedOutput(rec, SubSeq(screen, 1, n))
<1>2. /\ rec' = f.rec /\ emitting' = f.commands /\ screen' = Rest(screen, n)
      /\ UNCHANGED <<recorded, keys, shell, submitted>>
  BY DEF ReadOutput, Record, Rest
<1>3. PICK g : Tells(rec, screen, shell, recorded \o emitting, submitted, g)
  BY DEF Live, ScreenInv
<1>4. Shows(Display(rec), screen, g) /\ Balanced(screen, g, rec.pending, recorded, submitted)
  BY <1>0, <1>3 DEF Tells
<1>5. ReadTo(f, rec, screen, g, n)
  BY <1>0, <1>1, <1>4, PartRead
<1> HIDE DEF f
<1>6. PICK h : /\ Shows(g[n], Rest(screen, n), h) /\ h[Len(Rest(screen, n))] = g[Len(screen)]
               /\ \A k \in 0..(Len(screen) - n) : h[k] = g[n + k]
  <2>1. screen \in Seq(Outputs)
    BY <1>0
  <2>2. PICK d : d = Display(rec) /\ Shows(d, screen, g)
    BY <1>4
  <2>3. \E h : Resumes(screen, n, g, h)
    BY <1>1, <2>1, <2>2, ShowsRest
  <2> QED
    BY <2>3 DEF Resumes
<1>7. ScreenInv'
  <2>1. Shows(Display(rec'), screen', h)
    BY <1>2, <1>5, <1>6 DEF ReadTo
  <2>2. Stands(h[Len(screen')], shell)
    BY <1>2, <1>3, <1>6 DEF Tells
  <2>3. f.commands \in Seq(Commands)
    BY <1>0, <1>2
  <2>4. Balanced(Rest(screen, n), h, f.rec.pending, recorded \o f.commands, submitted)
    BY <1>0, <1>1, <1>4, <1>5, <1>6, <2>3, BalancedRest
  <2>5. Balanced(screen', h, rec'.pending, recorded \o emitting', submitted)
    BY <1>2, <2>4
  <2>6. Tells(rec', screen', shell, recorded \o emitting', submitted, h)
    BY <2>1, <2>2, <2>5 DEF Tells
  <2> QED
    BY <1>2, <2>6 DEF ScreenInv
<1>8. rec'.typed = rec.typed /\ rec'.escaping = rec.escaping
  BY <1>2, <1>5 DEF ReadTo
<1>9. PICK l, m \in Nat : l = Len(screen) /\ m = l - n /\ n + m = l /\ n \in 0..l
  BY <1>0, <1>1
<1>10. Len(screen') = m /\ \A k \in 1..m : screen'[k] = screen[n + k]
  BY <1>0, <1>1, <1>2, <1>9, RestIs
<1>11. NoFeed(screen, n) => rec'.pending = rec.pending
  BY <1>2, <1>5 DEF ReadTo
<1>12. ~NoFeed(screen, n) => rec'.pending = NothingPending
  <2> SUFFICES ASSUME ~NoFeed(screen, n) PROVE rec'.pending = NothingPending
    OBVIOUS
  <2>1. ~NoFeed(screen, Len(screen))
    BY <1>9 DEF NoFeed
  <2>2. PICK p : FirstFeed(screen, p)
    BY <1>0, <2>1, FeedOrNone
  <2>3. p \in 1..l /\ NoFeed(screen, p - 1)
    BY <1>0, <1>9, <2>2 DEF FirstFeed
  <2>4. p <= n
    <3> SUFFICES ASSUME ~(p <= n) PROVE FALSE
      OBVIOUS
    <3>1. \A j \in 1..n : j \in 1..(p - 1)
      BY <1>9, <2>3
    <3> QED
      BY <2>3, <3>1 DEF NoFeed
  <2>5. p \in 1..n
    BY <1>9, <2>3, <2>4
  <2> QED
    BY <1>2, <1>5, <2>2, <2>5 DEF ReadTo
<1>13. NoFeed(screen, l) => NoFeed(screen, n) /\ NoFeed(screen', m)
  <2> SUFFICES ASSUME NoFeed(screen, l) PROVE NoFeed(screen, n) /\ NoFeed(screen', m)
    OBVIOUS
  <2>1. NoFeed(screen, n)
    BY <1>9 DEF NoFeed
  <2>2. \A k \in 1..m : n + k \in 1..l
    BY <1>9
  <2> QED
    BY <1>10, <2>1, <2>2 DEF NoFeed
<1>14. NoFeed(screen, n) /\ NoFeed(screen', m) => NoFeed(screen, l)
  <2> SUFFICES ASSUME NoFeed(screen, n), NoFeed(screen', m), NEW j \in 1..l PROVE screen[j] # "lf"
    BY DEF NoFeed
  <2>1. CASE j <= n
    BY <2>1 DEF NoFeed
  <2>2. CASE ~(j <= n)
    <3>1. j - n \in 1..m /\ n + (j - n) = j
      BY <1>9, <2>2
    <3>2. screen'[j - n] = screen[n + (j - n)]
      BY <1>10, <3>1
    <3> QED
      BY <3>1, <3>2 DEF NoFeed
  <2> QED
    BY <2>1, <2>2
<1>15. KeysInv'
  <2>1. Queued(rec, keys, screen, shell)
    BY DEF Live, KeysInv
  <2>2. \A i \in 1..Len(keys) : keys[i] = "enter" =>
          i = Len(keys) /\ rec'.pending # NothingPending /\ NoFeed(screen', Len(screen'))
    BY <1>9, <1>10, <1>11, <1>13, <2>1 DEF Queued
  <2>3. \A i \in 1..Len(keys) : keys[i] = "intr" => rec'.pending = NothingPending
    BY <1>11, <1>12, <2>1 DEF Queued
  <2>4. rec'.pending # NothingPending /\ NoFeed(screen', Len(screen')) => Entered(keys)
    BY <1>9, <1>10, <1>11, <1>12, <1>14, <2>1 DEF Queued
  <2>5. Queued(rec', keys, screen', shell)
    BY <1>8, <2>1, <2>2, <2>3, <2>4 DEF Queued
  <2> QED
    BY <1>2, <2>5 DEF KeysInv
<1>16. PromptInv'
  <2>1. Prompted(screen, shell)
    BY DEF Live, PromptInv
  <2>2. ASSUME shell.mode # "running", NEW i \in 1..m, screen'[i] = "lf"
        PROVE  \E j \in 1..m : j > i /\ screen'[j] \in Prompts
    <3>1. n + i \in 1..l /\ screen[n + i] = "lf"
      BY <1>9, <1>10, <2>2
    <3>2. PICK j \in 1..l : j > n + i /\ screen[j] \in Prompts
      BY <1>9, <2>1, <2>2, <3>1 DEF Prompted
    <3>3. j - n \in 1..m /\ n + (j - n) = j /\ j - n > i
      BY <1>9, <3>2
    <3>4. screen'[j - n] = screen[n + (j - n)]
      BY <1>10, <3>3
    <3> QED
      BY <3>2, <3>3, <3>4
  <2>3. Prompted(screen', shell)
    BY <1>10, <2>2 DEF Prompted
  <2> QED
    BY <1>2, <2>3 DEF PromptInv
<1>17. TypingInv'
  <2>1. PICK t, u : Typing(rec, keys, shell, t, u)
    BY DEF Live, TypingInv
  <2>2. Entered(keys) => rec'.pending = rec.pending
    <3> SUFFICES ASSUME Entered(keys) PROVE rec'.pending = rec.pending
      OBVIOUS
    <3>1. NoFeed(screen, l)
      BY <1>9 DEF Live, KeysInv, Queued, Entered
    <3> QED
      BY <1>11, <1>13, <3>1
  <2>3. Typing(rec', keys, shell, t, u)
    BY <1>8, <2>1, <2>2 DEF Typing
  <2> QED
    BY <1>2, <2>3 DEF TypingInv
<1> QED
  BY <1>7, <1>15, <1>16, <1>17 DEF Live

-----------------------------------------------------------------------------
(* The shell's actions.                                                     *)

(* A prompt appears, and the shell reads keys again.                        *)
Appears(output, prompt, base, d) ==
    /\ output \in Seq(Outputs) /\ prompt \in Prompts
    /\ screen' = Append(screen \o output, prompt)
    /\ shell'.mode # "running" /\ shell'.buffer = <<>>
    /\ base \in Seq(Cells) /\ base # <<>>
    /\ Echoes(shell') => base = <<"prompt">>
    /\ ~Echoes(shell') => base[1] # "prompt"
    /\ Leads(d, output \o <<prompt>>, Behind(base))

(* Nothing has been typed, and no line is to come.                          *)
Idle ==
    /\ UNCHANGED <<relay, submitted>>
    /\ keys' \in Seq(Keys) /\ Interrupts(keys')
    /\ \A i \in 1..Len(keys') : rec.pending = NothingPending
    /\ rec.typed = <<>> /\ ~rec.escaping
    /\ NoFeed(screen, Len(screen)) => rec.pending = NothingPending

(* A prompt that appears while the shell is idle keeps the invariant.       *)
LEMMA PromptFaith ==
    ASSUME TypeInv, Idle, NEW g, Tells(rec, screen, shell, recorded \o emitting, submitted, g),
           NEW d, d = g[Len(screen)], NEW output, NEW prompt, NEW base,
           Appears(output, prompt, base, d)
    PROVE  Live'
<1>0. /\ screen \in Seq(Outputs) /\ recorded \in Seq(Commands) /\ emitting \in Seq(Commands)
  BY DEF TypeInv, RelayType, RemoteType
<1>1. /\ UNCHANGED <<rec, emitting, recorded, submitted>>
  BY DEF Idle, relay
<1>2. /\ output \in Seq(Outputs) /\ prompt \in Prompts /\ screen' = Append(screen \o output, prompt)
      /\ shell'.mode # "running" /\ shell'.buffer = <<>> /\ base \in Seq(Cells) /\ base # <<>>
  BY DEF Appears
<1>3. prompt \in Outputs
  BY <1>2, Zenon DEF Prompts, Outputs, Cells
<1> DEFINE more == output \o <<prompt>>
<1>4. /\ more \in Seq(Outputs) /\ screen' = screen \o more
  <2>1. <<prompt>> \in Seq(Outputs)
    BY <1>3
  <2>2. (screen \o output) \o <<prompt>> = screen \o more
    BY <1>0, <1>2, <2>1, ConcatAssociative
  <2>3. screen \o output \in Seq(Outputs)
    BY <1>0, <1>2, ConcatProperties
  <2>4. Append(screen \o output, prompt) = (screen \o output) \o <<prompt>>
    BY <1>3, <2>3, AppendIsConcat
  <2>5. more \in Seq(Outputs)
    BY <1>2, <2>1, ConcatProperties
  <2> QED
    BY <1>2, <2>2, <2>4, <2>5
<1>5. Leads(d, more, Behind(base))
  BY DEF Appears
<1>6. Stands(Behind(base), shell')
  BY <1>2, StandsBehind DEF Appears
<1> HIDE DEF more
<1>7. recorded \o emitting \in Seq(Commands)
  BY <1>0, ConcatProperties
<1>8. ScreenInv'
  <2>1. NoFeed(screen, Len(screen)) => NoFeed(more, Len(more)) \/ rec.pending = NothingPending
    BY DEF Idle
  <2>2. PICK h : Tells(rec, screen \o more, shell', recorded \o emitting, submitted, h)
    BY <1>0, <1>4, <1>5, <1>6, <1>7, <2>1, ScreenOn
  <2>3. Tells(rec', screen', shell', recorded' \o emitting', submitted', h)
    BY <1>1, <1>4, <2>2
  <2> QED
    BY <2>3 DEF ScreenInv
<1>9. ~Entered(keys')
  BY DEF Idle, Entered, Interrupts
<1>10. KeysInv'
  <2>1. NoFeed(screen', Len(screen')) => NoFeed(screen, Len(screen))
    BY <1>0, <1>4, NoFeedOn
  <2>2. Queued(rec, keys', screen', shell')
    BY <1>2, <1>9, <2>1 DEF Queued, Idle, Interrupts, Entered
  <2> QED
    BY <1>1, <2>2 DEF KeysInv
<1>11. PromptInv'
  <2>1. screen \o output \in Seq(Outputs)
    BY <1>0, <1>2, ConcatProperties
  <2>2. Prompted(Append(screen \o output, prompt), shell')
    BY <1>2, <2>1, PromptedLast
  <2> QED
    BY <1>2, <2>2 DEF PromptInv
<1>12. TypingInv'
  <2>1. TypedBy(<<>>, keys', <<>>)
    BY TypedOver DEF Idle, Interrupts
  <2>2. <<>> \in Seq(Text)
    OBVIOUS
  <2>3. Agrees(<<>>, shell')
    BY <1>2, <2>2, NothingEmbeds DEF Agrees
  <2>4. Typing(rec, keys', shell', <<>>, <<>>)
    BY <1>9, <2>1, <2>2, <2>3 DEF Typing, Idle
  <2> QED
    BY <1>1, <2>4 DEF TypingInv
<1> QED
  BY <1>8, <1>10, <1>11, <1>12 DEF Live

(* A prompt behind output that leaves the line empty.                       *)
LEMMA LeadsToPrompt ==
    ASSUME NEW d, NEW output \in Seq(Outputs), Leads(d, output, Nothing), NEW prompt \in Cells
    PROVE  Leads(d, output \o <<prompt>>, Behind(<<prompt>>))
<1>1. <<>> \in Seq(Cells) /\ Behind(<<>>) = Nothing /\ Append(<<>>, prompt) = <<prompt>>
  BY DEF Behind, Nothing
<1>2. Leads(Nothing, <<prompt>>, Behind(<<prompt>>))
  BY <1>1, LeadsPrompt
<1>3. <<prompt>> \in Seq(Outputs)
  <2>1. prompt \in Outputs
    BY CellsAreOutput
  <2> QED
    BY <2>1, ShortOutputs
<1> QED
  BY <1>2, <1>3, LeadsOn

(* While a command runs, nothing is typed but interrupts.                   *)
LEMMA RunningIsIdle ==
    ASSUME TypeInv, Live, shell.mode = "running", UNCHANGED <<relay, keys, submitted>>
    PROVE  Idle /\ shell.buffer = <<>>
<1>0. keys \in Seq(Keys)
  BY DEF TypeInv, RemoteType
<1>1. Queued(rec, keys, screen, shell)
  BY DEF Live, KeysInv
<1>2. Interrupts(keys) /\ shell.buffer = <<>> /\ ~rec.escaping
  BY <1>1 DEF Queued
<1>3. \A i \in 1..Len(keys) : rec.pending = NothingPending
  BY <1>1, <1>2 DEF Queued, Interrupts
<1>4. ~Entered(keys)
  BY <1>2 DEF Entered, Interrupts
<1>5. NoFeed(screen, Len(screen)) => rec.pending = NothingPending
  BY <1>1, <1>4 DEF Queued
<1>6. PICK t, u : Typing(rec, keys, shell, t, u)
  BY DEF Live, TypingInv
<1>7. rec.typed = u /\ t = <<>> /\ TypedBy(t, keys, u)
  BY <1>2, <1>4, <1>6 DEF Typing, Agrees, Echoes
<1>8. u = <<>>
  <2>1. CASE Len(keys) = 0
    <3>1. keys = <<>> /\ <<>> \in Seq(Text)
      BY <1>0, <2>1, EmptySeq
    <3> QED
      BY <1>7, <3>1, TypedNothing
  <2>2. CASE Len(keys) # 0
    <3>1. Len(keys) > 0 /\ keys[Len(keys)] = "intr"
      BY <1>0, <1>2, <2>2 DEF Interrupts
    <3> QED
      BY <1>0, <1>7, <3>1, TypedInterrupted
  <2> QED
    BY <2>1, <2>2
<1> QED
  BY <1>0, <1>2, <1>3, <1>5, <1>7, <1>8 DEF Idle

(* And the shell stands on an empty line.                                   *)
LEMMA RunningShowsNothing ==
    ASSUME TypeInv, shell.mode = "running",
           NEW g, Tells(rec, screen, shell, recorded \o emitting, submitted, g)
    PROVE  g[Len(screen)] = Nothing
<1>1. g[Len(screen)] \in Displays /\ g[Len(screen)].line = <<>>
  <2>1. screen \in Seq(Outputs)
    BY DEF TypeInv, RemoteType
  <2>2. Len(screen) \in 0..Len(screen)
    BY <2>1
  <2> QED
    BY <2>2 DEF Tells, Shows, Stands
<1> QED
  BY <1>1, NothingShown

(* A question that is answered without echo is such a prompt.               *)
LEMMA CommandAsksFaith ==
    ASSUME TypeInv, Live, CommandAsks
    PROVE  Live'
<1>0. screen \in Seq(Outputs) /\ shell \in Shells
  BY DEF TypeInv, RemoteType
<1>1. /\ shell.mode = "running" /\ shell' = [shell EXCEPT !.mode = "secret"]
      /\ screen' = Append(screen, "ask") /\ UNCHANGED <<relay, keys, submitted>>
  BY DEF CommandAsks
<1>2. Idle /\ shell.buffer = <<>>
  BY <1>1, RunningIsIdle
<1>3. PICK g : Tells(rec, screen, shell, recorded \o emitting, submitted, g)
  BY DEF Live, ScreenInv
<1>4. PICK d : d = g[Len(screen)] /\ d = Nothing
  BY <1>1, <1>3, RunningShowsNothing
<1>5. shell'.mode = "secret" /\ shell'.buffer = <<>>
  BY <1>0, <1>1, <1>2 DEF Shells
<1>6. <<>> \in Seq(Outputs) /\ Leads(Nothing, <<>>, Nothing)
  BY NothingShown, LeadsNowhere
<1>7. Leads(Nothing, <<>> \o <<"ask">>, Behind(<<"ask">>))
  BY <1>6, LeadsToPrompt, CellsAreOutput
<1>8. screen \o <<>> = screen /\ "ask" \in Prompts
  BY <1>0 DEF Prompts
<1>9. <<"ask">> \in Seq(Cells) /\ <<"ask">> # <<>> /\ <<"ask">>[1] # "prompt"
  <2>1. "ask" \in Cells
    BY CellsAreOutput
  <2> QED
    BY <2>1
<1>10. Appears(<<>>, "ask", <<"ask">>, d)
  BY <1>1, <1>4, <1>5, <1>6, <1>7, <1>8, <1>9 DEF Appears, Echoes
<1> QED
  BY <1>2, <1>3, <1>4, <1>10, PromptFaith

(* The prompt after what a command has written.                             *)
AfterCommand == {<<>>, <<"out", "cr", "lf">>, <<"out">>, <<"bs">>}

(* Lines of one cell and of two.                                            *)
LEMMA ShortLines ==
    /\ \A x \in Cells : <<x>> \in Seq(Cells) /\ <<x>> # <<>> /\ <<x>>[1] = x
    /\ \A x, y \in Cells : <<x, y>> \in Seq(Cells) /\ <<x, y>> # <<>> /\ <<x, y>>[1] = x
OBVIOUS

(* The first cell of a line.                                                *)
LEMMA FirstCell ==
    ASSUME NEW cell \in Cells
    PROVE  Leads(Nothing, <<cell>>, Behind(<<cell>>))
<1>1. <<>> \in Seq(Cells) /\ Behind(<<>>) = Nothing /\ Append(<<>>, cell) = <<cell>>
  BY DEF Behind, Nothing
<1> QED
  BY <1>1, LeadsPrompt

(* What a command prints leads to an empty line, unless it leaves the       *)
(* cursor behind its output.                                                *)
LEMMA LeadsAfterCommand ==
    ASSUME NEW output \in AfterCommand, output # <<"out">>
    PROVE  Leads(Nothing, output, Nothing) /\ output \in Seq(Outputs)
<1>0. Nothing \in Displays
  BY NothingShown
<1>1. CASE output = <<>>
  BY <1>0, <1>1, LeadsNowhere
<1>2. CASE output = <<"out", "cr", "lf">>
  <2>1. "out" \in Outputs
    BY CellsAreOutput
  <2> QED
    BY <1>0, <1>2, <2>1, LeadsEnd
<1>3. CASE output = <<"bs">>
  <2>1. "bs" \in Outputs /\ <<"bs">> \in Seq(Outputs)
    BY CellsAreOutput, ShortOutputs
  <2>2. Show(Nothing, "bs") = [line |-> Nothing.line, col |-> IF Nothing.col > 0 THEN Nothing.col - 1 ELSE 0]
    BY <1>0, ShowIs
  <2>3. Show(Nothing, "bs") = Nothing
    BY <2>2, NothingShown DEF Nothing
  <2>4. Leads(Nothing, <<"bs">>, Show(Nothing, "bs"))
    BY <1>0, <2>1, LeadsOneCell
  <2> QED
    BY <1>3, <2>1, <2>3, <2>4
<1> QED
  BY <1>1, <1>2, <1>3 DEF AfterCommand

(* The shell after PromptAfter.                                             *)
LEMMA ShellPrompts ==
    ASSUME shell \in Shells, NEW output, NEW prompt, PromptAfter(output, prompt)
    PROVE  /\ shell'.mode = "prompt" /\ shell'.buffer = <<>>
           /\ shell'.parsed <=> prompt = "prompt" /\ output \in {<<>>, <<"bs">>, <<"out", "cr", "lf">>, <<"^C", "cr", "lf">>}
           /\ screen' = (screen \o output) \o <<prompt>>
<1> DEFINE p == prompt = "prompt" /\ output \in {<<>>, <<"bs">>} \cup {<<"out", "cr", "lf">>, <<"^C", "cr", "lf">>}
<1>1. shell' = [shell EXCEPT !.mode = "prompt", !.buffer = <<>>, !.recalled = FALSE,
                  !.prompt = prompt, !.parsed = p]
  BY DEF PromptAfter
<1>2. screen' = (screen \o output) \o <<prompt>>
  BY DEF PromptAfter
<1>3. p <=> prompt = "prompt" /\ output \in {<<>>, <<"bs">>, <<"out", "cr", "lf">>, <<"^C", "cr", "lf">>}
  BY Zenon
<1> HIDE DEF p
<1>4. shell'.mode = "prompt" /\ shell'.buffer = <<>> /\ shell'.parsed = p
  BY <1>1 DEF Shells
<1> QED
  BY <1>2, <1>3, <1>4

(* A command that finishes, wherever it leaves the cursor, and whatever it  *)
(* makes of PS1: only the plain prompt alone on its line is parsed.         *)
LEMMA CommandFinishesFaith ==
    ASSUME TypeInv, Live, CommandFinishes
    PROVE  Live'
<1>0. screen \in Seq(Outputs) /\ shell \in Shells
  BY DEF TypeInv, RemoteType
<1>1. /\ shell.mode = "running" /\ UNCHANGED <<relay, keys, submitted>>
  BY DEF CommandFinishes
<1>2. PICK output \in AfterCommand, prompt \in {shell.prompt, "other prompt"} : PromptAfter(output, prompt)
  BY DEF CommandFinishes, AfterCommand
<1>3. prompt \in {"prompt", "other prompt"}
  BY <1>0 DEF Shells
<1>4. prompt \in Prompts /\ prompt \in Cells
  BY <1>3, CellsAreOutput DEF Prompts
<1>5. Idle
  BY <1>1, RunningIsIdle
<1>6. PICK g : Tells(rec, screen, shell, recorded \o emitting, submitted, g)
  BY DEF Live, ScreenInv
<1>7. PICK d : d = g[Len(screen)] /\ d = Nothing
  BY <1>1, <1>6, RunningShowsNothing
<1>8. /\ shell'.mode = "prompt" /\ shell'.buffer = <<>>
      /\ shell'.parsed <=> prompt = "prompt" /\ output \in {<<>>, <<"bs">>, <<"out", "cr", "lf">>, <<"^C", "cr", "lf">>}
      /\ screen' = (screen \o output) \o <<prompt>>
  BY <1>0, <1>2, ShellPrompts
<1>9. output \in Seq(Outputs) /\ screen' = Append(screen \o output, prompt)
  <2>1. output \in Seq(Outputs)
    <3>1. "out" \in Outputs
      BY CellsAreOutput
    <3>2. <<"out">> \in Seq(Outputs)
      BY <3>1, ShortOutputs
    <3> QED
      BY <3>2, LeadsAfterCommand
  <2>2. screen \o output \in Seq(Outputs) /\ prompt \in Outputs
    BY <1>0, <1>4, <2>1, ConcatProperties, CellsAreOutput
  <2> QED
    BY <1>8, <2>1, <2>2, AppendIsConcat
<1>10. CASE output = <<"out">>
  <2>1. ~shell'.parsed
    BY <1>8, <1>10
  <2> DEFINE base == <<"out", prompt>>
  <2>2. base \in Seq(Cells) /\ base # <<>> /\ base[1] = "out"
    <3>1. "out" \in Cells
      BY CellsAreOutput
    <3> QED
      BY <1>4, <3>1, ShortLines
  <2>3. Leads(d, output \o <<prompt>>, Behind(base))
    <3>1. "out" \in Cells /\ <<"out">> \in Seq(Cells) /\ <<"out">> \in Seq(Outputs) /\ <<prompt>> \in Seq(Outputs)
      <4>1. "out" \in Cells /\ "out" \in Outputs /\ prompt \in Outputs
        BY <1>4, CellsAreOutput
      <4> QED
        BY <4>1, ShortLines, ShortOutputs
    <3>3. Leads(Nothing, <<"out">>, Behind(<<"out">>))
      BY <3>1, FirstCell
    <3>4. Append(<<"out">>, prompt) = base
      <4>1. Append(<<"out">>, prompt) = <<"out">> \o <<prompt>>
        BY <1>4, <3>1, AppendIsConcat
      <4> QED
        BY <1>4, <3>1, <4>1, Joined
    <3>5. Leads(Behind(<<"out">>), <<prompt>>, Behind(base))
      BY <1>4, <3>1, <3>4, LeadsPrompt
    <3> HIDE DEF base
    <3> QED
      BY <1>7, <1>10, <3>1, <3>3, <3>5, LeadsOn
  <2> HIDE DEF base
  <2>4. Appears(output, prompt, base, d)
    BY <1>4, <1>8, <1>9, <2>1, <2>2, <2>3 DEF Appears, Echoes
  <2> QED
    BY <1>5, <1>6, <1>7, <2>4, PromptFaith
<1>11. CASE output # <<"out">>
  <2> DEFINE base == <<prompt>>
  <2>1. output \in {<<>>, <<"bs">>, <<"out", "cr", "lf">>, <<"^C", "cr", "lf">>}
    BY <1>11, Zenon DEF AfterCommand
  <2>2. shell'.parsed <=> prompt = "prompt"
    BY <1>8, <2>1
  <2>3. base \in Seq(Cells) /\ base # <<>> /\ base[1] = prompt
    BY <1>4, ShortLines
  <2>4. Leads(d, output \o <<prompt>>, Behind(base))
    BY <1>4, <1>7, <1>11, LeadsAfterCommand, LeadsToPrompt
  <2>5. shell'.parsed => base = <<"prompt">>
    BY <2>2
  <2>6. ~shell'.parsed => base[1] # "prompt"
    BY <2>2, <2>3
  <2> HIDE DEF base
  <2>7. Appears(output, prompt, base, d)
    BY <1>4, <1>8, <1>9, <2>3, <2>4, <2>5, <2>6 DEF Appears, Echoes
  <2> QED
    BY <1>5, <1>6, <1>7, <2>7, PromptFaith
<1> QED
  BY <1>10, <1>11

(* An interrupted line is on no record, and neither is what was typed.      *)
LEMMA ShellInterruptedFaith ==
    ASSUME TypeInv, Live, ShellInterrupted
    PROVE  Live'
<1>0. screen \in Seq(Outputs) /\ shell \in Shells /\ keys \in Seq(Keys)
  BY DEF TypeInv, RemoteType
<1>1. UNCHANGED <<relay, submitted>> /\ PromptAfter(<<"^C", "cr", "lf">>, shell.prompt)
  BY DEF ShellInterrupted
<1>2. PICK i \in DOMAIN keys : keys[i] = "intr" /\ keys' = SubSeq(keys, i + 1, Len(keys))
  BY DEF ShellInterrupted
<1>3. PICK n \in Nat : n = Len(keys) /\ i \in 1..n
  BY <1>0
<1>4. Queued(rec, keys, screen, shell)
  BY DEF Live, KeysInv
<1>5. rec.pending = NothingPending /\ ~rec.escaping /\ ~Entered(keys)
  BY <1>2, <1>3, <1>4 DEF Queued, Entered
<1>6. \A k \in 1..n : k > i => keys[k] = "intr"
  BY <1>2, <1>3, <1>4 DEF Queued
<1>7. keys' \in Seq(Keys) /\ Interrupts(keys')
  <2>1. i + 1 \in Nat \ {0} /\ n \in 0..Len(keys)
    BY <1>3
  <2>2. keys' \in Seq(Keys)
    BY <1>0, <1>2, <1>3, <2>1, PartTyped
  <2>3. Len(keys') = n - i /\ \A k \in 1..(n - i) : keys'[k] = keys[i + k]
    BY <1>0, <1>2, <1>3
  <2>4. \A k \in 1..(n - i) : i + k \in 1..n /\ i + k > i
    BY <1>3
  <2> QED
    BY <1>6, <2>2, <2>3, <2>4 DEF Interrupts
<1>8. rec.typed = <<>>
  <2>1. PICK t, u : Typing(rec, keys, shell, t, u)
    BY DEF Live, TypingInv
  <2>2. rec.typed = u /\ TypedBy(t, keys, u)
    BY <1>5, <2>1 DEF Typing
  <2>3. Len(keys) > 0 /\ keys[Len(keys)] = "intr"
    <3>1. n \in 1..n /\ (i = n \/ n > i)
      BY <1>3
    <3> QED
      BY <1>2, <1>3, <1>6, <3>1
  <2> QED
    BY <1>0, <2>2, <2>3, TypedInterrupted
<1>9. Idle
  BY <1>1, <1>5, <1>7, <1>8 DEF Idle
<1>10. PICK g : Tells(rec, screen, shell, recorded \o emitting, submitted, g)
  BY DEF Live, ScreenInv
<1>11. PICK d \in Displays : d = g[Len(screen)]
  <2>1. Len(screen) \in 0..Len(screen)
    BY <1>0
  <2> QED
    BY <1>10, <2>1 DEF Tells, Shows
<1> DEFINE output == <<"^C", "cr", "lf">>
           base == <<shell.prompt>>
<1>12. shell.prompt \in Prompts /\ shell.prompt \in Cells
  <2>1. shell.prompt \in {"prompt", "other prompt"}
    BY <1>0 DEF Shells
  <2> QED
    BY <2>1, CellsAreOutput DEF Prompts
<1>13. Leads(d, output, Nothing) /\ output \in Seq(Outputs)
  <2>1. "^C" \in Outputs
    BY CellsAreOutput
  <2> QED
    BY <2>1, LeadsEnd
<1>14. base \in Seq(Cells) /\ base # <<>> /\ base[1] = shell.prompt
  BY <1>12, ShortLines
<1>15. Leads(d, output \o <<shell.prompt>>, Behind(base))
  BY <1>12, <1>13, LeadsToPrompt
<1>16. /\ shell'.mode = "prompt" /\ shell'.buffer = <<>>
       /\ shell'.parsed <=> shell.prompt = "prompt"
       /\ screen' = (screen \o output) \o <<shell.prompt>>
  BY <1>0, <1>1, ShellPrompts
<1>17. shell'.parsed => base = <<"prompt">>
  BY <1>16
<1> HIDE DEF output, base
<1>18. screen' = Append(screen \o output, shell.prompt)
  <2>1. screen \o output \in Seq(Outputs) /\ shell.prompt \in Outputs
    BY <1>0, <1>12, <1>13, ConcatProperties, CellsAreOutput
  <2> QED
    BY <1>16, <2>1, AppendIsConcat
<1>19. Appears(output, shell.prompt, base, d)
  BY <1>12, <1>13, <1>14, <1>15, <1>16, <1>17, <1>18 DEF Appears, Echoes
<1> QED
  BY <1>9, <1>10, <1>11, <1>19, PromptFaith

-----------------------------------------------------------------------------
(* Redrawing a line ends none.                                              *)
LEMMA NoFeedBoth ==
    ASSUME NEW s \in Seq(Outputs), NEW more \in Seq(Outputs),
           NoFeed(s, Len(s)), NoFeed(more, Len(more))
    PROVE  s \o more \in Seq(Outputs) /\ NoFeed(s \o more, Len(s \o more))
BY NoFeedOn, ConcatProperties

(* Copies of a cell are no line feeds.                                      *)
LEMMA NoFeedReplicate ==
    ASSUME NEW n \in Nat, NEW cell \in Outputs, cell # "lf"
    PROVE  Replicate(n, cell) \in Seq(Outputs) /\ NoFeed(Replicate(n, cell), Len(Replicate(n, cell)))
<1>1. Replicate(n, cell) = [i \in 1..n |-> cell]
  BY DEF Replicate
<1>2. Replicate(n, cell) \in Seq(Outputs) /\ Len(Replicate(n, cell)) = n
  BY <1>1
<1>3. \A i \in 1..n : Replicate(n, cell)[i] # "lf"
  BY <1>1
<1> QED
  BY <1>2, <1>3 DEF NoFeed

(* Text holds no line feed.                                                 *)
LEMMA NoFeedText ==
    ASSUME NEW s \in Seq(Text)
    PROVE  s \in Seq(Outputs) /\ NoFeed(s, Len(s))
<1>1. "lf" \notin Text
  BY DEF Text, Letter, Space, Completion
<1>2. \A i \in 1..Len(s) : s[i] \in Text
  OBVIOUS
<1> QED
  BY <1>1, <1>2, TextIsOutput DEF NoFeed

(* The line editor writes no line feed.                                     *)
LEMMA NoFeedRedraw ==
    ASSUME NEW old \in Seq(Text), NEW new \in Seq(Text), NEW clearing
    PROVE  Redraw(old, new, clearing) \in Seq(Outputs)
           /\ NoFeed(Redraw(old, new, clearing), Len(Redraw(old, new, clearing)))
<1> DEFINE least == Min({Len(old), Len(new)})
           same == {n \in 0..least : SubSeq(old, 1, n) = SubSeq(new, 1, n)}
           kept == Max(same)
           over == Len(old) - Len(new)
<1>0. Len(old) \in Nat /\ Len(new) \in Nat
  OBVIOUS
<1>1. least \in Nat /\ least <= Len(old) /\ least <= Len(new)
  <2>1. {Len(old), Len(new)} \subseteq Nat /\ {Len(old), Len(new)} # {}
    BY <1>0
  <2>2. \A x \in {Len(old), Len(new)} : least <= x
    BY <2>1, MinOfSome
  <2>3. least \in {Len(old), Len(new)}
    BY <2>1, MinOfSome
  <2> QED
    BY <1>0, <2>2, <2>3
<1> HIDE DEF least
<1>2. same \subseteq 0..least /\ same # {}
  <2>1. SubSeq(old, 1, 0) = <<>> /\ SubSeq(new, 1, 0) = <<>>
    BY SubSeqEmpty
  <2>2. 0 \in same
    BY <1>1, <2>1
  <2> QED
    BY <2>2
<1>3. kept \in Nat /\ kept <= Len(old) /\ kept <= Len(new)
  <2>1. kept \in 0..least
    <3> HIDE DEF same
    <3> QED
      BY <1>1, <1>2, MaxOfSome
  <2> HIDE DEF kept
  <2> QED
    BY <1>0, <1>1, <2>1
<1> HIDE DEF kept, same
<1> DEFINE back == Replicate(Len(old) - kept, "bs")
           w == SubSeq(new, kept + 1, Len(new))
           end == IF over <= 0 THEN <<>>
             ELSE IF clearing = "blanks" THEN Replicate(over, Space) \o Replicate(over, "bs")
             ELSE <<"el">>
<1>4. Redraw(old, new, clearing) = (back \o w) \o end
  BY DEF Redraw, kept, same, least
<1>5. "bs" \in Outputs /\ "el" \in Outputs /\ Space \in Outputs /\ Space # "lf"
  BY DEF Outputs, Cells, Text, Space
<1>6. back \in Seq(Outputs) /\ NoFeed(back, Len(back))
  <2>1. Len(old) - kept \in Nat
    BY <1>0, <1>3
  <2> QED
    BY <1>5, <2>1, NoFeedReplicate
<1>7. w \in Seq(Outputs) /\ NoFeed(w, Len(w))
  <2>1. kept + 1 \in Nat \ {0} /\ Len(new) \in 0..Len(new)
    BY <1>0, <1>3
  <2>2. w \in Seq(Text)
    BY <2>1, PartTyped
  <2> HIDE DEF w
  <2> QED
    BY <2>2, NoFeedText
<1>8. end \in Seq(Outputs) /\ NoFeed(end, Len(end))
  <2>1. CASE over <= 0
    <3>1. end = <<>>
      BY <2>1
    <3>2. <<>> \in Seq(Outputs) /\ Len(<<>>) = 0 /\ 1..0 = {}
      OBVIOUS
    <3> QED
      BY <3>1, <3>2 DEF NoFeed
  <2>2. CASE ~(over <= 0) /\ clearing = "blanks"
    <3>1. over \in Nat
      BY <1>0, <2>2
    <3>2. end = Replicate(over, Space) \o Replicate(over, "bs")
      BY <2>2
    <3> HIDE DEF over, end
    <3>3. /\ Replicate(over, Space) \in Seq(Outputs) /\ NoFeed(Replicate(over, Space), Len(Replicate(over, Space)))
          /\ Replicate(over, "bs") \in Seq(Outputs) /\ NoFeed(Replicate(over, "bs"), Len(Replicate(over, "bs")))
      BY <1>5, <3>1, NoFeedReplicate
    <3> QED
      BY <3>2, <3>3, NoFeedBoth
  <2>3. CASE ~(over <= 0) /\ clearing # "blanks"
    <3>1. end = <<"el">>
      BY <2>3
    <3>2. <<"el">> \in Seq(Outputs) /\ Len(<<"el">>) = 1 /\ <<"el">>[1] # "lf"
      BY <1>5
    <3>3. NoFeed(<<"el">>, 1)
      BY <3>2 DEF NoFeed
    <3> HIDE DEF end
    <3> QED
      BY <3>1, <3>2, <3>3
  <2> QED
    BY <2>1, <2>2, <2>3
<1> HIDE DEF back, w, end
<1>9. back \o w \in Seq(Outputs) /\ NoFeed(back \o w, Len(back \o w))
  BY <1>6, <1>7, NoFeedBoth
<1>10. (back \o w) \o end \in Seq(Outputs) /\ NoFeed((back \o w) \o end, Len((back \o w) \o end))
  BY <1>8, <1>9, NoFeedBoth
<1> QED
  BY <1>4, <1>10

(* The rest of the keys.                                                    *)
LEMMA KeysRest ==
    ASSUME keys \in Seq(Keys), keys # <<>>, NEW rest, rest = Tail(keys)
    PROVE  /\ rest \in Seq(Keys) /\ Len(keys) > 0 /\ Head(keys) = keys[1]
           /\ Len(rest) = Len(keys) - 1
           /\ \A i \in 1..Len(rest) : i + 1 \in 1..Len(keys) /\ rest[i] = keys[i + 1]
           /\ \A i \in 1..Len(keys) : i # 1 => (i - 1 \in 1..Len(rest) /\ keys[i] = rest[i - 1])
<1>1. Len(keys) \in Nat /\ Len(keys) # 0
  BY EmptySeq
<1>2. /\ rest \in Seq(Keys) /\ Len(rest) = Len(keys) - 1
      /\ \A i \in 1..Len(rest) : rest[i] = keys[i + 1]
  BY HeadTailProperties
<1>3. Head(keys) = keys[1]
  OBVIOUS
<1>4. \A i \in 1..Len(rest) : i + 1 \in 1..Len(keys)
  BY <1>1, <1>2
<1>5. ASSUME NEW i \in 1..Len(keys), i # 1
      PROVE  i - 1 \in 1..Len(rest) /\ keys[i] = rest[i - 1]
  <2>1. i - 1 \in 1..Len(rest) /\ (i - 1) + 1 = i
    BY <1>1, <1>2, <1>5
  <2> QED
    BY <1>2, <2>1
<1>6. \A i \in 1..Len(keys) : i # 1 => (i - 1 \in 1..Len(rest) /\ keys[i] = rest[i - 1])
  BY <1>5
<1>7. Len(keys) > 0
  BY <1>1
<1> QED
  BY <1>2, <1>3, <1>4, <1>6, <1>7

(* A key that edits is read, and an Enter behind it stays.                  *)
LEMMA EditQueued ==
    ASSUME keys \in Seq(Keys), keys # <<>>, Head(keys) \in Editing, NEW rest, rest = Tail(keys),
           NEW s \in Seq(Outputs), NEW to \in Seq(Outputs), NoFeed(s, Len(s)) <=> NoFeed(to, Len(to)),
           NEW r, NEW sh, sh.mode # "running", Queued(r, keys, s, sh),
           NEW next, next.mode # "running"
    PROVE  Queued(r, rest, to, next) /\ (Entered(rest) <=> Entered(keys))
<1>1. /\ rest \in Seq(Keys) /\ Len(keys) > 0 /\ Head(keys) = keys[1] /\ Len(rest) = Len(keys) - 1
      /\ \A i \in 1..Len(rest) : i + 1 \in 1..Len(keys) /\ rest[i] = keys[i + 1]
      /\ \A i \in 1..Len(keys) : i # 1 => (i - 1 \in 1..Len(rest) /\ keys[i] = rest[i - 1])
  BY KeysRest
<1>2. keys[1] # "enter" /\ keys[1] # "intr"
  BY <1>1 DEF Editing, Letter, Space
<1>3. Entered(rest) <=> Entered(keys)
  <2>1. Entered(rest) => Entered(keys)
    BY <1>1 DEF Entered
  <2>2. Entered(keys) => Entered(rest)
    <3> SUFFICES ASSUME NEW i \in 1..Len(keys), keys[i] = "enter" PROVE Entered(rest)
      BY DEF Entered
    <3>1. i # 1
      BY <1>2
    <3> QED
      BY <1>1, <3>1 DEF Entered
  <2> QED
    BY <2>1, <2>2
<1>4. PICK n \in Nat : Len(keys) = n + 1 /\ Len(rest) = n
  <2>1. Len(rest) \in Nat /\ Len(keys) = Len(rest) + 1
    BY <1>1
  <2> QED
    BY <2>1
<1>5. \A i, j \in 1..n : j < i /\ rest[j] = "intr" => rest[i] = "intr"
  <2> SUFFICES ASSUME NEW i \in 1..n, NEW j \in 1..n, j < i, rest[j] = "intr" PROVE rest[i] = "intr"
    OBVIOUS
  <2>1. i + 1 \in 1..Len(keys) /\ j + 1 \in 1..Len(keys) /\ j + 1 < i + 1
        /\ rest[i] = keys[i + 1] /\ rest[j] = keys[j + 1]
    BY <1>1, <1>4
  <2> QED
    BY <2>1 DEF Queued
<1>6. ASSUME NEW i \in 1..n, rest[i] = "enter"
      PROVE  i = n /\ r.pending # NothingPending /\ NoFeed(to, Len(to))
  <2>1. i + 1 \in 1..Len(keys) /\ keys[i + 1] = "enter"
    BY <1>1, <1>4, <1>6
  <2>2. i + 1 = Len(keys) /\ r.pending # NothingPending /\ NoFeed(s, Len(s))
    BY <2>1 DEF Queued
  <2> QED
    BY <1>4, <2>2
<1>7. ASSUME NEW i \in 1..n, rest[i] = "intr"
      PROVE  r.pending = NothingPending
  <2>1. i + 1 \in 1..Len(keys) /\ keys[i + 1] = "intr"
    BY <1>1, <1>4, <1>7
  <2> QED
    BY <2>1 DEF Queued
<1>8. r.pending # NothingPending /\ NoFeed(to, Len(to)) => Entered(rest)
  BY <1>3 DEF Queued
<1>9. ~r.escaping
  BY DEF Queued
<1>10. Queued(r, rest, to, next)
  BY <1>4, <1>5, <1>6, <1>7, <1>8, <1>9 DEF Queued
<1> QED
  BY <1>3, <1>10

(* The shell edits its line and redraws it: the line on the screen is the   *)
(* shell's, and what the keys typed is inside it.                           *)
LEMMA ShellEditsFaith ==
    ASSUME TypeInv, Live, ShellEdits, doubt' = {}
    PROVE  Live'
<1> DEFINE key == Head(keys)
           line == Edited(key, shell)
<1>0. /\ screen \in Seq(Outputs) /\ shell \in Shells /\ keys \in Seq(Keys)
      /\ recorded \in Seq(Commands) /\ emitting \in Seq(Commands) /\ shell.buffer \in Seq(Text)
  BY DEF TypeInv, RelayType, RemoteType, Shells
<1>1. PICK clearing \in {"blanks", "sequence"} :
         /\ shell' = [shell EXCEPT !.buffer = line, !.recalled = shell.recalled \/ key = "up"]
         /\ screen' = IF shell.mode = "secret" THEN screen
                      ELSE screen \o Redraw(shell.buffer, line, clearing)
         /\ doubt' = doubt
              \cup (IF Guessed(key) THEN {"guess"} ELSE {})
              \cup (IF clearing = "sequence" /\ Len(line) < Len(shell.buffer) /\ shell.mode = "prompt"
                    THEN {"tail"} ELSE {})
  BY DEF ShellEdits
<1>2. /\ keys # <<>> /\ key \in Editing /\ shell.mode \in {"prompt", "secret"}
      /\ keys' = Tail(keys) /\ UNCHANGED <<rec, emitting, recorded, submitted>>
  BY DEF ShellEdits, relay
<1>3. line \in Seq(Text)
  BY <1>0, <1>2, EditedTyped
<1>4. ~Guessed(key) /\ ~(clearing = "sequence" /\ Len(line) < Len(shell.buffer) /\ shell.mode = "prompt")
  BY <1>1
<1>5. /\ shell'.mode = shell.mode /\ shell'.parsed = shell.parsed
      /\ shell'.buffer = line /\ shell'.recalled = (shell.recalled \/ key = "up")
  <2> HIDE DEF line, key
  <2> QED
    BY <1>0, <1>1 DEF Shells
<1> HIDE DEF line, key
<1>6. Echoes(shell') <=> Echoes(shell)
  BY <1>5 DEF Echoes
<1>7. PICK g : Tells(rec, screen, shell, recorded \o emitting, submitted, g)
  BY DEF Live, ScreenInv
<1>8. PICK d \in Displays : d = g[Len(screen)] /\ Stands(d, shell)
  <2>1. Len(screen) \in 0..Len(screen)
    BY <1>0
  <2> QED
    BY <1>7, <2>1 DEF Tells, Shows
<1>9. PICK base \in Seq(Cells) :
        /\ base # <<>>
        /\ Echoes(shell) => base = <<"prompt">>
        /\ ~Echoes(shell) => base[1] # "prompt"
        /\ OnLine(d, base, IF shell.mode = "prompt" THEN shell.buffer ELSE <<>>)
  BY <1>2, <1>8 DEF Stands
<1>10. PICK more \in Seq(Outputs) :
         /\ screen' = screen \o more /\ NoFeed(more, Len(more))
         /\ \E e \in Displays : Leads(d, more, e) /\ Stands(e, shell')
  <2>1. CASE shell.mode = "secret"
    <3>1. <<>> \in Seq(Outputs) /\ screen' = screen \o <<>> /\ Leads(d, <<>>, d)
      BY <1>0, <1>1, <2>1, LeadsNowhere
    <3>2. NoFeed(<<>>, Len(<<>>))
      <4>1. Len(<<>>) = 0 /\ 1..0 = {}
        OBVIOUS
      <4> QED
        BY <4>1 DEF NoFeed
    <3>3. Stands(d, shell')
      BY <1>5, <1>6, <1>8, <2>1 DEF Stands
    <3> QED
      BY <3>1, <3>2, <3>3
  <2>2. CASE shell.mode = "prompt"
    <3> DEFINE more == Redraw(shell.buffer, line, clearing)
    <3>1. more \in Seq(Outputs) /\ NoFeed(more, Len(more)) /\ screen' = screen \o more
      BY <1>0, <1>1, <1>3, <2>2, NoFeedRedraw
    <3>2. OnLine(d, base, shell.buffer)
      BY <1>9, <2>2
    <3>3. clearing = "blanks" \/ Len(line) >= Len(shell.buffer)
      BY <1>0, <1>1, <1>3, <1>4, <2>2
    <3>4. PICK e \in Displays : Leads(d, more, e) /\ OnLine(e, base, line)
      BY <1>0, <1>3, <3>2, <3>3, LineRedrawn
    <3> HIDE DEF more
    <3>5. Stands(e, shell')
      <4>1. OnLine(e, base, IF shell'.mode = "prompt" THEN shell'.buffer ELSE <<>>)
        BY <1>5, <2>2, <3>4
      <4>2. shell'.mode # "running"
        BY <1>5, <2>2
      <4> QED
        BY <1>6, <1>9, <4>1, <4>2 DEF Stands
    <3> QED
      BY <3>1, <3>4, <3>5
  <2> QED
    BY <1>2, <2>1, <2>2
<1>11. recorded \o emitting \in Seq(Commands)
  BY <1>0, ConcatProperties
<1>12. ScreenInv'
  <2>1. PICK e \in Displays : Leads(d, more, e) /\ Stands(e, shell')
    BY <1>10
  <2>2. PICK h : Tells(rec, screen \o more, shell', recorded \o emitting, submitted, h)
    BY <1>0, <1>7, <1>8, <1>10, <1>11, <2>1, ScreenOn
  <2>3. Tells(rec', screen', shell', recorded' \o emitting', submitted', h)
    BY <1>2, <1>10, <2>2
  <2> QED
    BY <2>3 DEF ScreenInv
<1>13. shell.mode # "running" /\ shell'.mode # "running"
  BY <1>2, <1>5
<1>14. Queued(rec, keys', screen', shell') /\ (Entered(keys') <=> Entered(keys))
  <2>1. screen' \in Seq(Outputs) /\ (NoFeed(screen', Len(screen')) <=> NoFeed(screen, Len(screen)))
    BY <1>0, <1>10, NoFeedOn, ConcatProperties
  <2>2. Queued(rec, keys, screen, shell) /\ Head(keys) \in Editing
    BY <1>2 DEF Live, KeysInv, key
  <2> QED
    BY <1>0, <1>2, <1>13, <2>1, <2>2, EditQueued
<1>15. KeysInv'
  BY <1>2, <1>14 DEF KeysInv
<1>16. PromptInv'
  <2>1. Prompted(screen \o more, shell')
    BY <1>0, <1>10, <1>13, PromptedOn DEF Live, PromptInv
  <2> QED
    BY <1>10, <2>1 DEF PromptInv
<1>17. TypingInv'
  <2>1. PICK t, u : Typing(rec, keys, shell, t, u)
    BY DEF Live, TypingInv
  <2>2. t \in Seq(Text) /\ u \in Seq(Text) /\ Agrees(t, shell) /\ TypedBy(t, keys, u)
    BY <2>1 DEF Typing
  <2>3. TypedKey(t, key) \in Seq(Text)
    BY <1>2, <2>2, TypedKeyTyped DEF Keys
  <2>4. TypedBy(TypedKey(t, key), Tail(keys), u)
    BY <1>0, <1>2, <2>2, TypedFirst DEF key
  <2>5. Agrees(TypedKey(t, key), shell')
    <3>1. CASE Echoes(shell)
      <4>1. CASE shell.recalled \/ key = "up"
        BY <1>5, <1>6, <3>1, <4>1 DEF Agrees
      <4>2. CASE ~(shell.recalled \/ key = "up")
        <5>1. Embedded(t, shell.buffer) /\ shell.mode = "prompt"
          BY <2>2, <3>1, <4>2 DEF Agrees, Echoes
        <5>2. Embedded(TypedKey(t, key), line)
          BY <1>0, <1>2, <2>2, <4>2, <5>1, KeyEmbedded DEF line
        <5> QED
          BY <1>5, <1>6, <3>1, <5>2 DEF Agrees
      <4> QED
        BY <4>1, <4>2
    <3>2. CASE ~Echoes(shell)
      <4>1. t = shell.buffer /\ key \notin {"tab", "up"}
        BY <1>4, <2>2, <3>2 DEF Agrees, Echoes, Guessed
      <4>2. TypedKey(t, key) = line
        BY <1>0, <1>2, <4>1, KeySame DEF line
      <4> QED
        BY <1>5, <1>6, <3>2, <4>2 DEF Agrees
    <3> QED
      BY <3>1, <3>2
  <2>6. Typing(rec, keys', shell', TypedKey(t, key), u)
    BY <1>2, <1>14, <2>1, <2>2, <2>3, <2>4, <2>5 DEF Typing
  <2> QED
    BY <1>2, <2>6 DEF TypingInv
<1> QED
  BY <1>12, <1>15, <1>16, <1>17 DEF Live

(* The echo behind a prompt, or what was typed.                             *)
Echoed(line) == IF line # <<>> /\ line[1] = "prompt" THEN Strip(Tail(line)) ELSE <<>>

(* What is resolved is the echo, or what is pending without one.            *)
LEMMA CommandIsEither ==
    ASSUME NEW line, NEW pending, pending # NothingPending
    PROVE  /\ Echoed(line) # <<>> => Command(line, pending) = Reported(Echoed(line))
           /\ Echoed(line) = <<>> => Command(line, pending) = Reported(pending)
<1>1. PICK r : r = [line |-> line, pending |-> pending]
  OBVIOUS
<1>2. r.line = line /\ r.pending = pending /\ Command(line, pending) = CommandOf(r)
  BY <1>1 DEF Command
<1>3. CASE Echoed(line) # <<>>
  BY <1>2, <1>3 DEF CommandOf, Echoed
<1>4. CASE Echoed(line) = <<>>
  BY <1>2, <1>4 DEF CommandOf, Echoed
<1> QED
  BY <1>3, <1>4

(* Behind a prompt that is parsed, the echo is the shell's line.            *)
LEMMA EchoIsLine ==
    ASSUME NEW d \in Displays, NEW text \in Seq(Text), OnLine(d, <<"prompt">>, text)
    PROVE  Echoed(d.line) = Strip(text)
<1>1. PICK n, l \in Nat : n = Len(text) /\ l = Len(d.line)
  BY DEF Displays
<1>2. Len(<<"prompt">>) = 1 /\ <<"prompt">>[1] = "prompt"
  OBVIOUS
<1>3. /\ d.line \in Seq(Cells) /\ 1 + n <= l /\ d.col = 1 + n
      /\ d.line[1] = "prompt"
      /\ \A i \in 1..n : d.line[1 + i] = text[i]
      /\ \A i \in 1..l : i > 1 + n => d.line[i] = Space
  <2>1. d.line \in Seq(Cells) /\ d.col <= Len(d.line) /\ d.col = 1 + n
    BY <1>1, <1>2 DEF Displays, OnLine
  <2>2. 1 \in 1..1
    OBVIOUS
  <2>3. d.line[1] = "prompt"
    BY <1>2, <2>2 DEF OnLine
  <2>4. \A i \in 1..n : d.line[1 + i] = text[i]
    BY <1>1, <1>2 DEF OnLine
  <2>5. \A i \in 1..l : i > 1 + n => d.line[i] = Space
    BY <1>1, <2>1 DEF OnLine
  <2> QED
    BY <1>1, <2>1, <2>3, <2>4, <2>5
<1>4. PICK line : line = d.line
  OBVIOUS
<1>5. line \in Seq(Cells) /\ Len(line) = l /\ line # <<>>
  <2>1. line \in Seq(Cells) /\ Len(line) = l /\ Len(line) # 0
    BY <1>1, <1>3, <1>4
  <2> QED
    BY <2>1, EmptySeq
<1> DEFINE rest == Tail(line)
<1>6. /\ rest \in Seq(Cells) /\ Len(rest) = l - 1
      /\ \A i \in 1..Len(rest) : rest[i] = line[i + 1]
  BY <1>5, HeadTailProperties
<1> HIDE DEF rest
<1>7. Extends(rest, text)
  <2>1. n <= l - 1
    BY <1>3
  <2>2. \A i \in 1..n : i \in 1..(l - 1) /\ i + 1 = 1 + i
    BY <2>1
  <2>3. \A i \in 1..n : rest[i] = text[i]
    BY <1>3, <1>4, <1>6, <2>2
  <2>4. ASSUME NEW i \in 1..(l - 1), i > n PROVE rest[i] = Space
    <3>1. i + 1 \in 1..l /\ i + 1 > 1 + n
      BY <1>1, <2>4
    <3> QED
      BY <1>3, <1>4, <1>6, <2>4, <3>1
  <2> QED
    BY <1>1, <1>6, <2>1, <2>3, <2>4 DEF Extends
<1>8. Strip(rest) = Strip(text)
  BY <1>6, <1>7, TextIsCells, StripExtended
<1> QED
  BY <1>3, <1>4, <1>5, <1>8 DEF Echoed, rest

(* Behind any other prompt nothing is an echo.                              *)
LEMMA EchoIsNone ==
    ASSUME NEW d \in Displays, NEW base \in Seq(Cells), base # <<>>, base[1] # "prompt",
           NEW text, OnLine(d, base, text)
    PROVE  Echoed(d.line) = <<>>
<1>1. 1 \in 1..Len(base)
  BY EmptySeq
<1>2. d.line[1] = base[1]
  BY <1>1 DEF OnLine
<1> QED
  BY <1>2 DEF Echoed

(* What is reported of a line is what the shell takes.                      *)
LEMMA LineIsReported ==
    ASSUME shell \in Shells, shell.mode # "running", NEW d \in Displays, Stands(d, shell),
           NEW t \in Seq(Text), Agrees(t, shell), NEW pending, pending = Strip(t),
           ~(Strip(shell.buffer) = <<>> /\ shell.recalled)
    PROVE  Command(d.line, pending) = Reported(Strip(shell.buffer))
<1>0. shell.buffer \in Seq(Text)
  BY DEF Shells
<1>1. pending # NothingPending
  BY StripTyped, PendingIsNothing
<1>2. PICK base \in Seq(Cells) :
        /\ base # <<>>
        /\ Echoes(shell) => base = <<"prompt">>
        /\ ~Echoes(shell) => base[1] # "prompt"
        /\ OnLine(d, base, IF shell.mode = "prompt" THEN shell.buffer ELSE <<>>)
  BY DEF Stands
<1>3. CASE Echoes(shell)
  <2>1. OnLine(d, <<"prompt">>, shell.buffer)
    BY <1>2, <1>3 DEF Echoes
  <2>2. Echoed(d.line) = Strip(shell.buffer)
    BY <1>0, <2>1, EchoIsLine
  <2>3. CASE Strip(shell.buffer) # <<>>
    BY <1>1, <2>2, <2>3, CommandIsEither
  <2>4. CASE Strip(shell.buffer) = <<>>
    <3>1. Embedded(t, shell.buffer)
      BY <1>3, <2>4 DEF Agrees
    <3>2. Blank(shell.buffer)
      BY <1>0, <2>4, StripInk
    <3>3. Blank(t)
      BY <1>0, <3>1, <3>2, EmbedsBlank
    <3>4. pending = <<>>
      BY <3>3, StripBlank
    <3>5. Command(d.line, pending) = Reported(pending)
      BY <1>1, <2>2, <2>4, CommandIsEither
    <3> QED
      BY <2>4, <3>4, <3>5
  <2> QED
    BY <2>3, <2>4
<1>4. CASE ~Echoes(shell)
  <2>1. Echoed(d.line) = <<>>
    BY <1>2, <1>4, EchoIsNone
  <2>2. t = shell.buffer
    BY <1>4 DEF Agrees
  <2>3. Command(d.line, pending) = Reported(pending)
    BY <1>1, <2>1, CommandIsEither
  <2> QED
    BY <2>2, <2>3
<1> QED
  BY <1>3, <1>4

(* The first line feed takes the line that is shown.                        *)
LEMMA LineIsTaken ==
    ASSUME NEW r, NEW s \in Seq(Outputs), NoFeed(s, Len(s)), NEW sh,
           NEW sofar \in Seq(Commands), NEW taken, NEW g, Tells(r, s, sh, sofar, taken, g),
           NEW d \in Displays, d = g[Len(s)], NEW to, Stands(Nothing, to)
    PROVE  \E h : Tells(r, s \o <<"cr", "lf">>, to, sofar, taken \o Command(d.line, r.pending), h)
<1>0. "cr" \in Outputs /\ "lf" \in Outputs
  BY CellsAreOutput
<1>1. <<"cr">> \in Seq(Outputs) /\ <<"lf">> \in Seq(Outputs)
  BY <1>0, ShortOutputs
<1>2. PICK n \in Nat : n = Len(s)
  OBVIOUS
<1>3. PICK mid : mid = s \o <<"cr">>
  OBVIOUS
<1>4. PICK all : all = mid \o <<"lf">>
  OBVIOUS
<1>5. /\ mid \in Seq(Outputs) /\ Len(mid) = n + 1
      /\ \A k \in 1..n : mid[k] = s[k]
      /\ mid[n + 1] = "cr"
  BY <1>1, <1>2, <1>3
<1>6. /\ all \in Seq(Outputs) /\ Len(all) = n + 2
      /\ \A k \in 1..(n + 1) : all[k] = mid[k]
      /\ all[n + 2] = "lf"
  BY <1>1, <1>4, <1>5
<1>7. all = s \o <<"cr", "lf">>
  <2>1. <<"cr">> \o <<"lf">> = <<"cr", "lf">>
    BY <1>0, Joined
  <2>2. (s \o <<"cr">>) \o <<"lf">> = s \o (<<"cr">> \o <<"lf">>)
    BY <1>1, ConcatAssociative
  <2> QED
    BY <1>3, <1>4, <2>1, <2>2
<1>8. PICK e : e = Show(d, "cr")
  OBVIOUS
<1>9. e \in Displays /\ e.line = d.line /\ Leads(d, <<"cr">>, e)
  <2>1. e \in Displays /\ Leads(d, <<"cr">>, e)
    BY <1>0, <1>8, ShowTyped, LeadsOneCell
  <2>2. e = [line |-> d.line, col |-> 0]
    BY <1>8, ShowIs
  <2> QED
    BY <2>1, <2>2
<1>10. ShowsTo(Display(r), s, g, d)
  BY DEF Tells, ShowsTo
<1>11. PICK h : ShowsTo(Display(r), mid, h, e)
  BY <1>1, <1>3, <1>9, <1>10, ShowsOn
<1>12. PICK i : ShowsTo(Display(r), all, i, Nothing) /\ Continues(h, i, Len(mid))
  BY <1>1, <1>4, <1>5, <1>9, <1>11, LeadsFeed, ShowsOn
<1>13. i[n + 1] = e
  <2>1. n + 1 \in 0..(n + 1)
    OBVIOUS
  <2> QED
    BY <1>5, <1>11, <1>12, <2>1 DEF Continues, ShowsTo
<1>14. sofar = taken
  BY DEF Tells, Balanced
<1>15. PICK pending : pending = r.pending
  OBVIOUS
<1>16. Balanced(all, i, pending, sofar, taken \o Command(d.line, pending))
  <2>1. n + 2 \in 1..(n + 2)
    OBVIOUS
  <2>2. ~NoFeed(all, Len(all))
    BY <1>6, <2>1 DEF NoFeed
  <2>3. ASSUME NEW p, FirstFeed(all, p)
        PROVE  p = n + 2
    <3>1. p \in 1..(n + 2) /\ all[p] = "lf"
      BY <1>6, <2>3 DEF FirstFeed
    <3>2. CASE p \in 1..n
      <4>1. p \in 1..(n + 1)
        BY <3>2
      <4>2. all[p] = s[p]
        BY <1>5, <1>6, <3>2, <4>1
      <4> QED
        BY <1>2, <3>1, <3>2, <4>2 DEF NoFeed
    <3>3. CASE p = n + 1
      <4>1. n + 1 \in 1..(n + 1)
        OBVIOUS
      <4>2. all[p] = "cr"
        BY <1>5, <1>6, <3>3, <4>1
      <4> QED
        BY <3>1, <4>2
    <3> QED
      BY <3>1, <3>2, <3>3
  <2>4. ASSUME NEW p, FirstFeed(all, p)
        PROVE  sofar \o Command(i[p - 1].line, pending) = taken \o Command(d.line, pending)
    <3>1. p - 1 = n + 1
      BY <2>3, <2>4
    <3> QED
      BY <1>9, <1>13, <1>14, <3>1
  <2> QED
    BY <2>2, <2>4 DEF Balanced
<1>17. Tells(r, all, to, sofar, taken \o Command(d.line, pending), i)
  <2>1. Shows(Display(r), all, i) /\ i[Len(all)] = Nothing
    BY <1>12 DEF ShowsTo
  <2> QED
    BY <1>15, <1>16, <2>1 DEF Tells
<1> QED
  BY <1>7, <1>15, <1>17

(* The shell takes its line: the line feed it echoes resolves that line.    *)
LEMMA ShellTakesLineFaith ==
    ASSUME TypeInv, Live, ShellTakesLine, doubt' = {}
    PROVE  Live'
<1> DEFINE line == Strip(shell.buffer)
<1>0. /\ screen \in Seq(Outputs) /\ shell \in Shells /\ keys \in Seq(Keys)
      /\ recorded \in Seq(Commands) /\ emitting \in Seq(Commands) /\ shell.buffer \in Seq(Text)
  BY DEF TypeInv, RelayType, RemoteType, Shells
<1>1. /\ keys # <<>> /\ Head(keys) = "enter" /\ shell.mode \in {"prompt", "secret"}
      /\ submitted' = submitted \o Reported(line)
      /\ screen' = screen \o <<"cr", "lf">> /\ keys' = Tail(keys)
      /\ UNCHANGED <<rec, emitting, recorded>>
  BY DEF ShellTakesLine, relay
<1>2. ~(line = <<>> /\ shell.recalled)
  BY DEF ShellTakesLine
<1>3. shell'.mode = "running" /\ shell'.buffer = <<>>
  <2>1. shell' = [shell EXCEPT !.mode = "running", !.buffer = <<>>, !.recalled = FALSE,
                    !.last = IF shell.mode = "prompt" /\ line # <<>> THEN line ELSE shell.last]
    BY DEF ShellTakesLine
  <2> HIDE DEF line
  <2> QED
    BY <1>0, <2>1 DEF Shells
<1>4. PICK rest : rest = Tail(keys)
  OBVIOUS
<1>5. keys[1] = "enter" /\ 1 \in 1..Len(keys) /\ Len(rest) = Len(keys) - 1 /\ rest \in Seq(Keys)
  <2>1. Len(keys) \in Nat
    BY <1>0
  <2> QED
    BY <1>0, <1>1, <1>4, <2>1, KeysRest
<1>6. Len(keys) = 1 /\ rec.pending # NothingPending /\ NoFeed(screen, Len(screen)) /\ ~rec.escaping
  BY <1>5 DEF Live, KeysInv, Queued
<1>7. rest = <<>> /\ keys' = <<>>
  BY <1>1, <1>4, <1>5, <1>6, EmptySeq
<1>8. Entered(keys)
  BY <1>5 DEF Entered
<1>9. PICK t, u : Typing(rec, keys, shell, t, u)
  BY DEF Live, TypingInv
<1>10. t \in Seq(Text) /\ Agrees(t, shell) /\ TypedBy(t, keys, u)
       /\ rec.typed = <<>> /\ rec.pending = Strip(u)
  BY <1>8, <1>9 DEF Typing
<1>11. u = t
  <2>1. TypedBy(TypedKey(t, "enter"), Tail(keys), u)
    BY <1>0, <1>1, <1>10, TypedFirst
  <2>2. TypedBy(t, <<>>, u)
    BY <1>4, <1>7, <2>1, TypedKeyIs
  <2> QED
    BY <1>10, <2>2, TypedNothing
<1>12. PICK g : Tells(rec, screen, shell, recorded \o emitting, submitted, g)
  BY DEF Live, ScreenInv
<1>13. PICK d \in Displays : d = g[Len(screen)] /\ Stands(d, shell)
  <2>1. Len(screen) \in 0..Len(screen)
    BY <1>0
  <2> QED
    BY <1>12, <2>1 DEF Tells, Shows
<1>14. Command(d.line, rec.pending) = Reported(line)
  <2>1. shell.mode # "running"
    BY <1>1
  <2>2. PICK pending : pending = rec.pending
    OBVIOUS
  <2>3. pending = Strip(t)
    BY <1>10, <1>11, <2>2
  <2> QED
    BY <1>0, <1>2, <1>10, <1>13, <2>1, <2>2, <2>3, LineIsReported
<1>15. Stands(Nothing, shell')
  BY <1>3, NothingShown DEF Stands
<1>16. ScreenInv'
  <2>1. recorded \o emitting \in Seq(Commands)
    BY <1>0, ConcatProperties
  <2>2. PICK h : Tells(rec, screen \o <<"cr", "lf">>, shell', recorded \o emitting,
                       submitted \o Command(d.line, rec.pending), h)
    BY <1>0, <1>6, <1>12, <1>13, <1>15, <2>1, LineIsTaken
  <2> HIDE DEF line
  <2>3. Tells(rec', screen', shell', recorded' \o emitting', submitted', h)
    BY <1>1, <1>14, <2>2
  <2> QED
    BY <2>3 DEF ScreenInv
<1>17. KeysInv'
  <2>1. ~NoFeed(screen', Len(screen'))
    <3>1. PICK n \in Nat : n = Len(screen)
      BY <1>0
    <3>2. Len(screen') = n + 2 /\ screen'[n + 2] = "lf"
      <4>0. "cr" \in Outputs /\ "lf" \in Outputs
        BY CellsAreOutput
      <4>1. <<"cr", "lf">> \in Seq(Outputs)
        BY <4>0
      <4> QED
        BY <1>0, <1>1, <3>1, <4>1
    <3>3. n + 2 \in 1..(n + 2)
      OBVIOUS
    <3> QED
      BY <3>2, <3>3 DEF NoFeed
  <2>2. Len(keys') = 0 /\ 1..Len(keys') = {}
    BY <1>7
  <2>3. Interrupts(keys')
    BY <2>2 DEF Interrupts
  <2>4. Queued(rec, keys', screen', shell')
    BY <1>3, <1>6, <2>1, <2>2, <2>3 DEF Queued
  <2> QED
    BY <1>1, <2>4 DEF KeysInv
<1>18. PromptInv'
  BY <1>3 DEF PromptInv, Prompted
<1>19. TypingInv'
  <2>1. <<>> \in Seq(Text)
    OBVIOUS
  <2>2. TypedBy(<<>>, keys', <<>>)
    BY <1>7, <2>1, TypedNothing
  <2>3. ~Entered(keys')
    BY <1>7 DEF Entered
  <2>4. Agrees(<<>>, shell')
    BY <1>3 DEF Agrees, Echoes
  <2>5. Typing(rec, keys', shell', <<>>, <<>>)
    BY <1>10, <2>1, <2>2, <2>3, <2>4 DEF Typing
  <2> QED
    BY <1>1, <2>5 DEF TypingInv
<1> QED
  BY <1>16, <1>17, <1>18, <1>19 DEF Live

(* It holds at the first prompt.                                            *)
LEMMA FaithInitial == Init => FaithInv
<1> SUFFICES ASSUME Init PROVE FaithInv
  OBVIOUS
<1>1. /\ rec = NewRecorder /\ emitting = <<>> /\ recorded = <<>> /\ ended = FALSE
      /\ keys = <<>> /\ screen = <<"prompt">> /\ shell = NewShell /\ submitted = <<>>
  BY DEF Init
<1>2. /\ rec.typed = <<>> /\ rec.pending = NothingPending /\ ~rec.escaping
      /\ rec.line = <<>> /\ rec.col = 0
  BY <1>1 DEF NewRecorder
<1>3. shell.mode = "prompt" /\ shell.buffer = <<>> /\ shell.parsed /\ ~shell.recalled
  BY <1>1 DEF NewShell
<1>4. "prompt" \in Cells /\ <<"prompt">> \in Seq(Cells) /\ <<"prompt">> # <<>>
  BY CellsAreOutput, ShortLines
<1>5. Len(screen) = 1 /\ screen[1] = "prompt"
  BY <1>1
<1>6. NoFeed(screen, Len(screen))
  BY <1>5 DEF NoFeed
<1>7. PICK g : ShowsTo(Display(rec), screen, g, Behind(<<"prompt">>))
  <2>1. Display(rec) = Nothing
    BY <1>2 DEF Display, Nothing
  <2> QED
    BY <1>1, <1>4, <2>1, FirstCell DEF Leads
<1>8. ScreenInv
  <2>1. Echoes(shell)
    BY <1>3 DEF Echoes
  <2>2. Stands(Behind(<<"prompt">>), shell)
    <3>1. PICK base : base = <<"prompt">>
      OBVIOUS
    <3> QED
      BY <1>3, <1>4, <2>1, <3>1, StandsBehind
  <2>3. Balanced(screen, g, rec.pending, recorded \o emitting, submitted)
    <3>1. recorded \o emitting = <<>>
      BY <1>1
    <3>2. \A p : ~FirstFeed(screen, p)
      <4>1. DOMAIN screen = 1..1
        BY <1>1
      <4> QED
        BY <1>5, <4>1 DEF FirstFeed
    <3> QED
      BY <1>1, <3>1, <3>2 DEF Balanced
  <2>4. Shows(Display(rec), screen, g) /\ g[Len(screen)] = Behind(<<"prompt">>)
    BY <1>7 DEF ShowsTo
  <2>5. Tells(rec, screen, shell, recorded \o emitting, submitted, g)
    BY <2>2, <2>3, <2>4 DEF Tells
  <2> QED
    BY <2>5 DEF ScreenInv
<1>9. Len(keys) = 0 /\ 1..Len(keys) = {}
  BY <1>1
<1>10. ~Entered(keys)
  BY <1>9 DEF Entered
<1>11. KeysInv
  BY <1>2, <1>3, <1>9 DEF KeysInv, Queued
<1>12. PromptInv
  BY <1>5 DEF PromptInv, Prompted
<1>13. TypingInv
  <2>1. <<>> \in Seq(Text)
    OBVIOUS
  <2>2. TypedBy(<<>>, keys, <<>>)
    BY <1>1, <2>1, TypedNothing
  <2>3. Agrees(<<>>, shell)
    BY <1>3, <2>1, NothingEmbeds DEF Agrees, Echoes
  <2>4. Typing(rec, keys, shell, <<>>, <<>>)
    BY <1>2, <1>10, <2>1, <2>2, <2>3 DEF Typing
  <2> QED
    BY <2>4 DEF TypingInv
<1>14. ended = FALSE
  BY <1>1
<1>15. Live
  BY <1>8, <1>11, <1>12, <1>13 DEF Live
<1> QED
  BY <1>14, <1>15 DEF FaithInv

(* Every step that leaves no doubt keeps it.                                *)
LEMMA FaithNext == RecorderInv /\ RecorderInv' /\ FaithInv /\ [Next]_vars => FaithInv'
<1> SUFFICES ASSUME RecorderInv, RecorderInv', FaithInv, [Next]_vars, doubt' = {}
             PROVE  IF ended' THEN recorded' = submitted' ELSE Live'
  BY DEF FaithInv
<1>0. TypeInv /\ TypeInv'
  BY DEF RecorderInv
<1>1. ASSUME NEW key \in Keys, Press(key)
      PROVE  IF ended' THEN recorded' = submitted' ELSE Live'
  <2>1. ~ended /\ ~ended' /\ doubt = {}
    BY <1>1 DEF Press
  <2> QED
    BY <1>0, <1>1, <2>1, PressFaith DEF FaithInv
<1>2. ASSUME NEW n \in ChunkEnds, ReadOutput(n)
      PROVE  IF ended' THEN recorded' = submitted' ELSE Live'
  <2>1. ~ended /\ ~ended' /\ doubt = {}
    BY <1>2 DEF ReadOutput, Record
  <2> QED
    BY <1>0, <1>2, <2>1, ReadOutputFaith DEF FaithInv
<1>t. ASSUME NEW n \in DOMAIN screen, ReadTorn(n)
      PROVE  IF ended' THEN recorded' = submitted' ELSE Live'
  BY <1>t DEF ReadTorn
<1>3. ASSUME EmitCommand
      PROVE  IF ended' THEN recorded' = submitted' ELSE Live'
  <2>1. ~ended /\ ~ended' /\ doubt = {}
    BY <1>3 DEF EmitCommand
  <2> QED
    BY <1>0, <1>3, <2>1, EmitCommandFaith DEF FaithInv
<1>4. ASSUME AttackerLeaves
      PROVE  IF ended' THEN recorded' = submitted' ELSE Live'
  <2>1. ~ended /\ ended' /\ doubt = {}
    BY <1>4 DEF AttackerLeaves, Teardown
  <2> QED
    BY <1>0, <1>4, <2>1, AttackerLeavesFaith DEF FaithInv
<1>5. ASSUME ShellExits
      PROVE  IF ended' THEN recorded' = submitted' ELSE Live'
  <2>1. ~ended /\ ended' /\ doubt = {}
    BY <1>5 DEF ShellExits, Teardown
  <2> QED
    BY <1>0, <1>5, <2>1, ShellExitsFaith DEF FaithInv
<1>6. ASSUME ~ended, ShellEdits
      PROVE  IF ended' THEN recorded' = submitted' ELSE Live'
  <2>1. ~ended' /\ doubt = {}
    BY <1>6 DEF ShellEdits, relay
  <2> QED
    BY <1>0, <1>6, <2>1, ShellEditsFaith DEF FaithInv
<1>7. ASSUME ~ended, ShellTakesLine
      PROVE  IF ended' THEN recorded' = submitted' ELSE Live'
  <2>1. ~ended' /\ doubt = {}
    BY <1>7 DEF ShellTakesLine, relay
  <2> QED
    BY <1>0, <1>7, <2>1, ShellTakesLineFaith DEF FaithInv
<1>8. ASSUME ~ended, ShellInterrupted
      PROVE  IF ended' THEN recorded' = submitted' ELSE Live'
  <2>1. ~ended' /\ doubt = {}
    BY <1>8 DEF ShellInterrupted, relay
  <2> QED
    BY <1>0, <1>8, <2>1, ShellInterruptedFaith DEF FaithInv
<1>9. ASSUME ~ended, CommandFinishes
      PROVE  IF ended' THEN recorded' = submitted' ELSE Live'
  <2>1. ~ended' /\ doubt = {}
    BY <1>9 DEF CommandFinishes, relay
  <2> QED
    BY <1>0, <1>9, <2>1, CommandFinishesFaith DEF FaithInv
<1>10. ASSUME ~ended, CommandAsks
      PROVE  IF ended' THEN recorded' = submitted' ELSE Live'
  <2>1. ~ended' /\ doubt = {}
    BY <1>10 DEF CommandAsks, relay
  <2> QED
    BY <1>0, <1>10, <2>1, CommandAsksFaith DEF FaithInv
<1>11. ASSUME UNCHANGED vars
       PROVE  IF ended' THEN recorded' = submitted' ELSE Live'
  <2>1. UNCHANGED <<rec, emitting, recorded, ended, keys, screen, shell, submitted, doubt>>
    BY <1>11 DEF vars
  <2>2. Live => Live'
    BY <2>1 DEF Live, ScreenInv, KeysInv, PromptInv, TypingInv
  <2> QED
    BY <2>1, <2>2 DEF FaithInv
<1> QED
  BY <1>1, <1>2, <1>t, <1>3, <1>4, <1>5, <1>6, <1>7, <1>8, <1>9, <1>10, <1>11 DEF Next

(* So it always holds.                                                      *)
LEMMA FaithInductive == Spec => []FaithInv
BY FaithInitial, FaithNext, RecorderInductive, PTL DEF Spec

(* A record is a prefix of the record with more behind it.                  *)
LEMMA PrefixOf ==
    ASSUME NEW S, NEW s \in Seq(S), NEW more \in Seq(S)
    PROVE  IsPrefix(s, s \o more)
<1> DEFINE all == s \o more
<1>1. PICK n \in Nat : n = Len(s)
  OBVIOUS
<1>2. all \in Seq(S) /\ Len(all) >= n /\ \A k \in 1..n : all[k] = s[k]
  BY <1>1
<1> HIDE DEF all
<1>3. SubSeq(s, 1, n) \in Seq(S) /\ Len(SubSeq(s, 1, n)) = n
      /\ \A k \in 1..n : SubSeq(s, 1, n)[k] = s[k]
  BY <1>1
<1>4. SubSeq(all, 1, n) \in Seq(S) /\ Len(SubSeq(all, 1, n)) = n
      /\ \A k \in 1..n : SubSeq(all, 1, n)[k] = all[k]
  BY <1>2
<1>5. SubSeq(s, 1, n) = SubSeq(all, 1, n)
  <2>1. \A k \in 1..n : SubSeq(s, 1, n)[k] = SubSeq(all, 1, n)[k]
    BY <1>2, <1>3, <1>4
  <2> QED
    BY <1>3, <1>4, <2>1, SeqEqual
<1> QED
  BY <1>1, <1>2, <1>5 DEF IsPrefix, all

(* What a line and what is pending resolve to are commands.                 *)
LEMMA CommandTyped ==
    ASSUME NEW d \in Displays, NEW pending \in Seq(Text) \cup {NothingPending}
    PROVE  Command(d.line, pending) \in Seq(Commands)
<1>1. PICK r : r = [typed |-> <<>>, pending |-> pending, unreliable |-> FALSE,
                    escaping |-> FALSE, escape |-> <<>>, line |-> d.line, col |-> d.col]
  OBVIOUS
<1>2. r \in Recorders
  BY <1>1 DEF Recorders, Displays
<1>3. r.line = d.line /\ r.pending = pending
  BY <1>1
<1>4. CommandOf(r) = Command(d.line, pending)
  BY <1>2, <1>3, CommandIs
<1> QED
  BY <1>2, <1>4, CommandOfTyped

(* The record is a prefix of what the shell took, because what is resolved  *)
(* and what the first line feed resolves make it complete; at a prompt      *)
(* there is neither.                                                        *)
LEMMA FaithIsKept == TypeInv /\ FaithInv => RecordIsFaithful
<1> SUFFICES ASSUME TypeInv, FaithInv, doubt = {}
             PROVE  IsPrefix(recorded, submitted) /\ (Ready \/ ended => recorded = submitted)
  BY DEF RecordIsFaithful
<1>0. /\ recorded \in Seq(Commands) /\ emitting \in Seq(Commands) /\ screen \in Seq(Outputs)
      /\ rec \in Recorders /\ <<>> \in Seq(Commands)
  BY DEF TypeInv, RelayType, RemoteType
<1>1. CASE ended
  <2>1. recorded = submitted /\ recorded \o <<>> = recorded
    BY <1>0, <1>1 DEF FaithInv
  <2>2. IsPrefix(recorded, recorded \o <<>>)
    BY <1>0, PrefixOf
  <2> QED
    BY <2>1, <2>2
<1>2. CASE ~ended
  <2>0. Live
    BY <1>2 DEF FaithInv
  <2>1. PICK g : Tells(rec, screen, shell, recorded \o emitting, submitted, g)
    BY <2>0 DEF Live, ScreenInv
  <2>2. IsPrefix(recorded, submitted)
    <3>1. PICK sofar : sofar = recorded \o emitting
      OBVIOUS
    <3>2. Balanced(screen, g, rec.pending, sofar, submitted)
      BY <2>1, <3>1 DEF Tells
    <3>3. CASE NoFeed(screen, Len(screen))
      BY <1>0, <3>1, <3>2, <3>3, PrefixOf DEF Balanced
    <3>4. CASE ~NoFeed(screen, Len(screen))
      <4>1. PICK p : FirstFeed(screen, p)
        BY <1>0, <3>4, FeedOrNone
      <4>2. PICK more : more = Command(g[p - 1].line, rec.pending)
        OBVIOUS
      <4>3. sofar \o more = submitted
        BY <3>2, <4>1, <4>2 DEF Balanced
      <4>4. more \in Seq(Commands)
        <5>1. p - 1 \in 0..Len(screen)
          BY <1>0, <4>1 DEF FirstFeed
        <5>2. g[p - 1] \in Displays
          BY <2>1, <5>1 DEF Tells, Shows
        <5>3. rec.pending \in Seq(Text) \cup {NothingPending}
          BY <1>0 DEF Recorders
        <5> QED
          BY <4>2, <5>2, <5>3, CommandTyped
      <4>5. (recorded \o emitting) \o more = recorded \o (emitting \o more)
        BY <1>0, <4>4, ConcatAssociative
      <4>6. emitting \o more \in Seq(Commands)
        BY <1>0, <4>4, ConcatProperties
      <4> QED
        BY <1>0, <3>1, <4>3, <4>5, <4>6, PrefixOf
    <3> QED
      BY <3>3, <3>4
  <2>3. Ready => recorded = submitted
    <3> SUFFICES ASSUME Ready PROVE recorded = submitted
      OBVIOUS
    <3>1. NoFeed(screen, Len(screen)) /\ emitting = <<>>
      BY <2>0, ReadyIsQuiet
    <3>2. recorded \o emitting = submitted
      BY <2>1, <3>1 DEF Tells, Balanced
    <3> QED
      BY <1>0, <3>1, <3>2
  <2> QED
    BY <1>2, <2>2, <2>3
<1> QED
  BY <1>1, <1>2

(* RecordIsFaithful holds for sessions of any length and commands of any    *)
(* size. As long as none of the six known doubts arises, what is emitted    *)
(* is, in its order, what the shell took, whatever keys edit, complete,     *)
(* recall or interrupt a line and wherever a read ends outside an escape    *)
(* sequence (one that ends inside is the doubt "torn"); nothing is missing  *)
(* when a prompt waits for a line, nor when the session is over.            *)
THEOREM RecordIsKept == Spec => []RecordIsFaithful
<1>1. RecorderInv => TypeInv
  BY DEF RecorderInv
<1> QED
  BY <1>1, FaithInductive, RecorderInductive, FaithIsKept, PTL
=============================================================================
