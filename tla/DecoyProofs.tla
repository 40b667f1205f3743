---------------------------- MODULE DecoyProofs ----------------------------
(***************************************************************************)
(* Proofs about a build of the content generator, for every draft a model  *)
(* may return, every request and any number of retries.                    *)
(***************************************************************************)
EXTENDS DecoyBuild, FoldProofs, FiniteSetTheorems, SequenceTheorems, TLAPS

-----------------------------------------------------------------------------
(* Lines at positions.                                                     *)

(* Among the positions kept there is one up to which there are n.          *)
LEMMA PositionExists ==
    ASSUME NEW len \in Nat, NEW kept \in SUBSET (1..len), NEW n \in 1..Cardinality(kept)
    PROVE  \E i \in kept : Cardinality({j \in kept : j <= i}) = n
<1> DEFINE Upto(i) == {j \in kept : j <= i}
           T == {i \in Nat : n <= Cardinality(Upto(i))}
<1>0. IsFiniteSet(kept)
  <2>1. IsFiniteSet(1..len)
    BY FS_Interval
  <2> QED
    BY <2>1, FS_Subset
<1>k. \A j \in kept : j \in Nat /\ 0 < j /\ j <= len
  OBVIOUS
<1>1. \A i \in Nat : IsFiniteSet(Upto(i)) /\ Cardinality(Upto(i)) \in Nat
  <2> SUFFICES ASSUME NEW i \in Nat
               PROVE  IsFiniteSet(Upto(i)) /\ Cardinality(Upto(i)) \in Nat
    OBVIOUS
  <2>1. IsFiniteSet(Upto(i))
    BY <1>0, FS_Subset
  <2> QED
    BY <2>1, FS_CardinalityType
<1>2. Cardinality(kept) \in Nat
  BY <1>0, FS_CardinalityType
<1>3. len \in T
  <2>1. Upto(len) = kept
    BY <1>k
  <2> QED
    BY <1>2, <2>1
<1>4. PICK i \in T : \A m \in T : i <= m
  BY <1>3, LeastElement
<1>5. i # 0
  <2>1. Upto(0) = {}
    <3>1. \A j \in kept : ~(j <= 0)
      BY <1>k
    <3> QED
      BY <3>1
  <2>2. Cardinality(Upto(0)) = 0
    BY <2>1, FS_EmptySet
  <2> QED
    BY <1>2, <2>2
<1>6. i - 1 \in Nat /\ Cardinality(Upto(i - 1)) < n
  <2>1. i \in Nat
    BY <1>4
  <2>2. i - 1 \in Nat /\ ~(i <= i - 1)
    BY <1>5, <2>1
  <2>3. i - 1 \notin T
    BY <1>4, <2>2
  <2>4. ~(n <= Cardinality(Upto(i - 1)))
    BY <2>2, <2>3
  <2>5. Cardinality(Upto(i - 1)) \in Nat
    BY <1>1, <2>2
  <2> HIDE DEF Upto, T
  <2> QED
    BY <1>2, <2>2, <2>4, <2>5
<1>7. i \in kept
  <2>1. CASE i \notin kept
    <3>1. Upto(i) = Upto(i - 1)
      <4>1. \A j \in kept : j <= i <=> j <= i - 1
        BY <1>4, <1>6, <1>k, <2>1
      <4> QED
        BY <4>1
    <3> QED
      BY <1>1, <1>2, <1>4, <1>6, <3>1
  <2> QED
    BY <2>1
<1>8. Upto(i) = Upto(i - 1) \cup {i} /\ i \notin Upto(i - 1)
  <2>1. \A j \in kept : j <= i <=> (j <= i - 1 \/ j = i)
    BY <1>4, <1>6, <1>k
  <2>2. ~(i <= i - 1) /\ i <= i
    BY <1>4
  <2> QED
    BY <1>7, <2>1, <2>2
<1>9. Cardinality(Upto(i)) = Cardinality(Upto(i - 1)) + 1
  BY <1>1, <1>6, <1>8, FS_AddElement
<1>10. Cardinality(Upto(i)) = n
  <2>1. n <= Cardinality(Upto(i))
    BY <1>4
  <2> HIDE DEF Upto
  <2> QED
    BY <1>1, <1>2, <1>6, <1>9, <2>1
<1> QED
  BY <1>7, <1>10

LEMMA LinesAtTyped ==
    ASSUME NEW S, NEW text \in Seq(S), NEW kept \in SUBSET DOMAIN text
    PROVE  /\ LinesAt(text, kept) \in Seq(S)
           /\ \A n \in DOMAIN LinesAt(text, kept) :
                \E i \in kept : LinesAt(text, kept)[n] = text[i]
<1> DEFINE place == [n \in 1..Cardinality(kept) |->
                       CHOOSE i \in kept : Cardinality({j \in kept : j <= i}) = n]
<1>0. DOMAIN text = 1..Len(text) /\ Len(text) \in Nat
  OBVIOUS
<1>1. Cardinality(kept) \in Nat
  <2>1. IsFiniteSet(1..Len(text))
    BY <1>0, FS_Interval
  <2>2. IsFiniteSet(kept)
    BY <1>0, <2>1, FS_Subset
  <2> QED
    BY <2>2, FS_CardinalityType
<1>2. \A n \in 1..Cardinality(kept) : place[n] \in kept
  <2> SUFFICES ASSUME NEW n \in 1..Cardinality(kept) PROVE place[n] \in kept
    OBVIOUS
  <2>1. \E i \in kept : Cardinality({j \in kept : j <= i}) = n
    BY <1>0, PositionExists
  <2> QED
    BY <2>1
<1>3. LinesAt(text, kept) = [n \in 1..Cardinality(kept) |-> text[place[n]]]
  BY DEF LinesAt
<1> HIDE DEF place
<1>4. \A i \in kept : text[i] \in S
  BY <1>0
<1> QED
  BY <1>1, <1>2, <1>3, <1>4

LEMMA FirstOf ==
    ASSUME NEW S, S \subseteq Nat, S # {}
    PROVE  Min(S) \in S /\ \A x \in S : Min(S) <= x
<1>1. \E n \in S : \A m \in S : n =< m
  BY LeastElement
<1> QED
  BY <1>1 DEF Min

LEMMA LastOf ==
    ASSUME NEW n \in Nat, NEW S, S \subseteq 0..n, S # {}
    PROVE  Max(S) \in S /\ \A x \in S : x <= Max(S)
<1> DEFINE T == {n - x : x \in S}
<1>1. T \subseteq Nat /\ T # {}
  <2>1. \A x \in S : n - x \in Nat
    OBVIOUS
  <2>2. PICK x \in S : TRUE
    OBVIOUS
  <2>3. n - x \in T
    BY <2>2
  <2> QED
    BY <2>1, <2>3
<1>2. PICK t \in T : \A m \in T : t <= m
  BY <1>1, LeastElement
<1>3. PICK x \in S : t = n - x
  BY <1>2
<1>4. \A y \in S : x >= y
  <2> SUFFICES ASSUME NEW y \in S PROVE x >= y
    OBVIOUS
  <2>1. n - y \in T
    OBVIOUS
  <2>2. n - x <= n - y
    BY <1>2, <1>3, <2>1
  <2> QED
    BY <2>2
<1>5. \A y \in S : Max(S) >= y
  BY <1>4 DEF Max
<1>6. Max(S) \in S
  BY <1>4 DEF Max
<1> QED
  BY <1>5, <1>6

LEMMA PartOf ==
    ASSUME NEW S, NEW s \in Seq(S), NEW m \in Nat \ {0}, NEW n \in 0..Len(s)
    PROVE  SubSeq(s, m, n) \in Seq(S)
<1>1. \A i \in m .. n : s[i] \in S
  OBVIOUS
<1> QED
  BY <1>1, SubSeqProperties

-----------------------------------------------------------------------------
(* Cleaning takes lines away and adds none.                                *)

LEMMA LeadingTyped ==
    ASSUME NEW S, NEW text \in Seq(S), NEW kind
    PROVE  Leading(text, kind) \in 0..Len(text)
<1> DEFINE others == {i \in DOMAIN text : text[i].is # kind}
<1>1. others \subseteq 1..Len(text) /\ Len(text) \in Nat
  OBVIOUS
<1>2. CASE others = {}
  BY <1>1, <1>2 DEF Leading
<1>3. CASE others # {}
  <2>1. Min(others) \in 1..Len(text)
    <3> HIDE DEF others
    <3>1. others \subseteq Nat
      BY <1>1
    <3>2. Min(others) \in others
      BY <1>3, <3>1, FirstOf
    <3> QED
      BY <1>1, <3>2
  <2>2. Leading(text, kind) = Min(others) - 1
    BY <1>3 DEF Leading
  <2> HIDE DEF others
  <2> QED
    BY <1>1, <2>1, <2>2
<1> QED
  BY <1>2, <1>3

LEMMA WithoutTrailerTyped ==
    ASSUME NEW S, NEW text \in Seq(S)
    PROVE  WithoutTrailer(text) \in Seq(S)
<1> DEFINE notes == {i \in 2 .. Len(text) : text[i].is = "note"}
           cut   == IF notes = {} THEN text ELSE SubSeq(text, 1, Min(notes) - 1)
           kept  == {i \in DOMAIN cut :
                       i = 1 \/ cut[i].is # "trailer" \/ i <= Len(cut) - MaxIterations}
<1>0. Len(text) \in Nat
  OBVIOUS
<1>1. cut \in Seq(S)
  <2>1. CASE notes = {}
    BY <2>1
  <2>2. CASE notes # {}
    <3>1. notes \subseteq 2..Len(text)
      OBVIOUS
    <3> HIDE DEF notes
    <3>2. Min(notes) \in 2..Len(text)
      <4>1. notes \subseteq Nat
        BY <1>0, <3>1
      <4>2. Min(notes) \in notes
        BY <2>2, <4>1, FirstOf
      <4> QED
        BY <3>1, <4>2
    <3>3. Min(notes) - 1 \in 0..Len(text)
      BY <1>0, <3>2
    <3>4. SubSeq(text, 1, Min(notes) - 1) \in Seq(S)
      BY <3>3, PartOf
    <3> QED
      BY <2>2, <3>4
  <2> QED
    BY <2>1, <2>2
<1>2. WithoutTrailer(text) = IF kept = {} THEN cut ELSE SubSeq(cut, 1, Max(kept))
  BY DEF WithoutTrailer
<1> HIDE DEF cut
<1>3. CASE kept = {}
  BY <1>1, <1>2, <1>3
<1>4. CASE kept # {}
  <2>1. kept \subseteq 0..Len(cut) /\ Len(cut) \in Nat
    BY <1>1
  <2> HIDE DEF kept
  <2>2. Max(kept) \in 0..Len(cut)
    <3>1. Max(kept) \in kept
      BY <1>4, <2>1, LastOf
    <3> QED
      BY <2>1, <3>1
  <2>3. SubSeq(cut, 1, Max(kept)) \in Seq(S)
    BY <1>1, <2>2, PartOf
  <2> QED
    BY <1>2, <1>4, <2>3
<1> QED
  BY <1>3, <1>4

LEMMA SanitizedTyped ==
    ASSUME NEW S, NEW text \in Seq(S), NEW contentType
    PROVE  Sanitized(text, contentType) \in Seq(S)
<1> DEFINE bare   == WithoutFences(WithoutPreamble(text))
           opened == IF contentType = "document" THEN bare ELSE WithoutHeadings(bare)
           ended  == WithoutTrailer(opened)
<1>1. WithoutPreamble(text) \in Seq(S)
  <2> DEFINE kept == {i \in DOMAIN text :
                i > Leading(text, "preamble") \/ i > MaxIterations \/ i = Len(text)}
  <2>1. kept \in SUBSET DOMAIN text
    OBVIOUS
  <2>2. WithoutPreamble(text) = LinesAt(text, kept)
    BY DEF WithoutPreamble
  <2> HIDE DEF kept
  <2> QED
    BY <2>1, <2>2, LinesAtTyped
<1>2. \A t \in Seq(S) : WithoutFences(t) \in Seq(S)
  <2> SUFFICES ASSUME NEW t \in Seq(S) PROVE WithoutFences(t) \in Seq(S)
    OBVIOUS
  <2> DEFINE kept == {i \in DOMAIN t : t[i].is # "fence"}
  <2>1. kept \in SUBSET DOMAIN t
    OBVIOUS
  <2>2. WithoutFences(t) = LinesAt(t, kept)
    BY DEF WithoutFences
  <2> HIDE DEF kept
  <2> QED
    BY <2>1, <2>2, LinesAtTyped
<1>3. bare \in Seq(S)
  BY <1>1, <1>2
<1> HIDE DEF bare
<1>4. WithoutHeadings(bare) \in Seq(S)
  <2>1. Leading(bare, "heading") \in 0..Len(bare) /\ Len(bare) \in Nat
    BY <1>3, LeadingTyped
  <2>2. Leading(bare, "heading") + 1 \in Nat \ {0} /\ Len(bare) \in 0..Len(bare)
    BY <2>1
  <2> QED
    BY <1>3, <2>2, PartOf DEF WithoutHeadings
<1>5. opened \in Seq(S)
  BY <1>3, <1>4
<1> HIDE DEF opened
<1>6. ended \in Seq(S)
  BY <1>5, WithoutTrailerTyped
<1> HIDE DEF ended
<1>7. WithoutNarration(ended) \in Seq(S)
  <2> DEFINE kept == {i \in DOMAIN ended : ~Verbose(ended, i)}
  <2>1. kept \in SUBSET DOMAIN ended
    OBVIOUS
  <2>2. WithoutNarration(ended) = LinesAt(ended, kept)
    BY DEF WithoutNarration
  <2> HIDE DEF kept
  <2> QED
    BY <1>6, <2>1, <2>2, LinesAtTyped
<1>8. Sanitized(text, contentType) =
        IF contentType \in {"source_code", "config"} THEN WithoutNarration(ended) ELSE ended
  BY DEF Sanitized, ended, opened, bare
<1> QED
  BY <1>6, <1>7, <1>8

-----------------------------------------------------------------------------
(* What an attempt is made of.                                             *)

Secrets == [of : STRING, bytes : {"model", "mask", "code"},
            shape : {"real", "checksum", "broken"}]

(* A line all of whose model credentials are shadowed, and still found, or *)
(* the body of a private key.                                              *)
Safe(line) ==
    \A i \in DOMAIN line.secrets : line.secrets[i].bytes = "model" =>
        \/ KeyBody(line.secrets[i])
        \/ Shadowed(line.secrets, i) /\ Found(line.secrets[i])

SafeLines == {line \in [is : Kinds, secrets : Seq(Secrets)] : Safe(line)}

LEMMA LineRegenerated ==
    ASSUME NEW line \in ModelLines, NEW again \in BOOLEAN
    PROVE  [line EXCEPT !.secrets =
              [i \in DOMAIN @ |-> IF Reached(@, i) THEN Regenerated(@[i], again) ELSE @[i]]]
             \in SafeLines
<1> DEFINE old == line.secrets
           new == [i \in DOMAIN old |->
                     IF Reached(old, i) THEN Regenerated(old[i], again) ELSE old[i]]
           result == [line EXCEPT !.secrets =
              [i \in DOMAIN @ |-> IF Reached(@, i) THEN Regenerated(@[i], again) ELSE @[i]]]
<1>0. /\ line.is \in Kinds
      /\ old \in Seq([of : STRING, bytes : {"model"}, shape : {"real", "checksum"}])
      /\ result = [is |-> line.is, secrets |-> new]
  BY DEF ModelLines
<1> HIDE DEF result, old
<1>1. \A i \in DOMAIN old : /\ old[i].of \in STRING /\ old[i].bytes = "model"
                            /\ old[i].shape \in {"real", "checksum"}
                            /\ old[i] \in Secrets
  <2> DEFINE Own == [of : STRING, bytes : {"model"}, shape : {"real", "checksum"}]
  <2>0. old \in Seq(Own)
    BY <1>0
  <2>2. \A s \in Own : /\ s.of \in STRING /\ s.bytes = "model"
                        /\ s.shape \in {"real", "checksum"} /\ s \in Secrets
    BY DEF Secrets
  <2> HIDE DEF Own
  <2>1. \A i \in DOMAIN old : old[i] \in Own
    BY <2>0
  <2> QED
    BY <2>1, <2>2
<1>2. \A i \in DOMAIN old : /\ Regenerated(old[i], again) \in Secrets
                            /\ Regenerated(old[i], again).of = old[i].of
                            /\ Regenerated(old[i], again).bytes = "model" =>
                                    KeyBody(Regenerated(old[i], again))
  BY <1>1 DEF Regenerated, Secrets, Secret, KeyBody, Found, Masked, GitHub
<1>3. DOMAIN new = 1..Len(old) /\ Len(old) \in Nat /\ DOMAIN old = 1..Len(old)
  BY <1>0
<1>4. \A i \in DOMAIN old : new[i] \in Secrets /\ new[i].of = old[i].of
  BY <1>1, <1>2
<1>5. new \in Seq(Secrets) /\ Len(new) = Len(old)
  <2> HIDE DEF new
  <2>1. new = [i \in 1..Len(old) |-> new[i]]
    BY <1>3 DEF new
  <2> QED
    BY <1>3, <1>4, <2>1
<1>6. ASSUME NEW i \in DOMAIN old, new[i].bytes = "model"
      PROVE  KeyBody(new[i]) \/ (Shadowed(new, i) /\ Found(new[i]))
  <2>0. CASE Reached(old, i)
    BY <1>2, <1>6, <2>0
  <2> SUFFICES ASSUME ~Reached(old, i) PROVE Shadowed(new, i) /\ Found(new[i])
    BY <2>0
  <2>1. ~Reached(old, i) /\ new[i] = old[i]
    OBVIOUS
  <2>2. Found(old[i])
    BY <1>1 DEF Found
  <2>3. /\ old[i].of = "aws_secret_key"
        /\ \E j \in (i + 1)..Len(old) : old[j].of = "aws_secret_key"
    BY <2>1, <2>2 DEF Reached
  <2>4. \A j \in (i + 1)..Len(old) : j \in DOMAIN old
    BY <1>3
  <2> HIDE DEF new
  <2> QED
    BY <1>4, <1>5, <2>1, <2>2, <2>3, <2>4 DEF Shadowed
<1>7. DOMAIN new = DOMAIN old
  OBVIOUS
<1> HIDE DEF new
<1> QED
  BY <1>0, <1>5, <1>6, <1>7 DEF SafeLines, Safe, result, old

LEMMA AttemptSafe ==
    ASSUME NEW draft, draft.lines \in Seq(ModelLines), NEW contentType, NEW again
    PROVE  Attempt(draft, contentType, again) \in Seq(SafeLines)
<1> DEFINE text == Sanitized(draft.lines, contentType)
<1>1. text \in Seq(ModelLines)
  BY SanitizedTyped
<1>2. Attempt(draft, contentType, again) = RegenerateSecrets(text, again)
  BY DEF Attempt
<1> HIDE DEF text
<1>3. DOMAIN text = 1..Len(text) /\ Len(text) \in Nat /\ \A n \in 1..Len(text) : text[n] \in ModelLines
  BY <1>1
<1> DEFINE result == RegenerateSecrets(text, again)
<1>4. \A n \in 1..Len(text) : result[n] \in SafeLines
  <2> SUFFICES ASSUME NEW n \in 1..Len(text) PROVE result[n] \in SafeLines
    OBVIOUS
  <2>1. text[n] \in ModelLines /\ n \in DOMAIN text
    BY <1>3
  <2>2. CASE n \in again
    <3>1. result[n] = [text[n] EXCEPT !.secrets =
              [i \in DOMAIN @ |-> IF Reached(@, i) THEN Regenerated(@[i], TRUE) ELSE @[i]]]
      BY <2>1, <2>2 DEF RegenerateSecrets
    <3> QED
      BY <2>1, <3>1, LineRegenerated
  <2>3. CASE n \notin again
    <3>1. result[n] = [text[n] EXCEPT !.secrets =
              [i \in DOMAIN @ |-> IF Reached(@, i) THEN Regenerated(@[i], FALSE) ELSE @[i]]]
      <4>1. result[n] = [text[n] EXCEPT !.secrets =
              [i \in DOMAIN @ |-> IF Reached(@, i) THEN Regenerated(@[i], n \in again) ELSE @[i]]]
        BY <2>1 DEF RegenerateSecrets
      <4>2. (n \in again) = FALSE
        BY <2>3
      <4> QED
        BY <4>1, <4>2, Zenon
    <3> QED
      BY <2>1, <3>1, LineRegenerated
  <2> QED
    BY <2>2, <2>3
<1>5. result = [n \in 1..Len(text) |-> result[n]]
  BY <1>3 DEF RegenerateSecrets
<1> HIDE DEF result
<1>6. result \in Seq(SafeLines)
  BY <1>3, <1>4, <1>5
<1> QED
  BY <1>2, <1>6 DEF result

LEMMA ScrubbedSafe ==
    ASSUME NEW text \in Seq(SafeLines)
    PROVE  /\ Scrubbed(text) \in Seq(SafeLines)
           /\ \A n \in DOMAIN Scrubbed(text) : Scrubbed(text)[n].is # "term"
<1> DEFINE kept == {i \in DOMAIN text : text[i].is \notin {"term", "nearterm"}}
           bare == LinesAt(text, kept)
<1>1. kept \in SUBSET DOMAIN text
  OBVIOUS
<1>2. /\ bare \in Seq(SafeLines)
      /\ \A n \in DOMAIN bare : \E i \in kept : bare[n] = text[i]
  <2> HIDE DEF kept
  <2> QED
    BY <1>1, LinesAtTyped
<1>3. \A n \in DOMAIN bare : bare[n].is # "term"
  <2> HIDE DEF bare
  <2> QED
    BY <1>2
<1>4. Scrubbed(text) = WithoutFences(bare)
  BY DEF Scrubbed, ScrubTerms
<1> HIDE DEF bare
<1> DEFINE left == {i \in DOMAIN bare : bare[i].is # "fence"}
<1>5. left \in SUBSET DOMAIN bare
  OBVIOUS
<1>6. WithoutFences(bare) = LinesAt(bare, left)
  BY DEF WithoutFences
<1> HIDE DEF left
<1>7. /\ LinesAt(bare, left) \in Seq(SafeLines)
      /\ \A n \in DOMAIN LinesAt(bare, left) : \E i \in left : LinesAt(bare, left)[n] = bare[i]
  BY <1>2, <1>5, LinesAtTyped
<1> QED
  BY <1>3, <1>4, <1>5, <1>6, <1>7

-----------------------------------------------------------------------------
(* Profiles.                                                               *)

Feeds(step) == step.do \in {"write", "token"}
Makes(step) == step.do \in {"write", "bundle", "sheet", "fixed"}

(* No two steps make the same file and, but for the export, no two have the *)
(* same label.                                                             *)
Apart(steps) ==
    /\ \A i, j \in DOMAIN steps :
        Makes(steps[i]) /\ Makes(steps[j]) /\ i < j => steps[i].path # steps[j].path
    /\ \A i, j \in DOMAIN steps :
        (Feeds(steps[i]) /\ Feeds(steps[j]) /\ i < j /\ steps[i].what = steps[j].what)
          => steps[i].path = Export /\ steps[j].path = Export

(* A bundle comes after the tokens it is made from, which are all that is   *)
(* generated for its path.                                                 *)
Bundled(steps) ==
    /\ \A j \in DOMAIN steps : (steps[j].do = "token" /\ steps[j].path # Export) =>
        \E b \in DOMAIN steps :
            /\ steps[b].do = "bundle" /\ steps[b].path = steps[j].path
            /\ \E type \in steps[b].types : steps[j].what = <<"honeytoken", type>>
    /\ \A b \in DOMAIN steps : steps[b].do = "bundle" =>
        \A type \in steps[b].types :
            /\ type \in TokenTypes
            /\ \E j \in DOMAIN steps :
                /\ j < b /\ steps[j].do = "token" /\ steps[j].path = steps[b].path
                /\ steps[j].what = <<"honeytoken", type>>

(* The export: rows of two tokens each, and the sheet at the end.          *)
Exporting(steps) ==
    /\ Len(steps) = 6 + 3 * ExportRows
    /\ \A m \in 1..ExportRows :
        /\ steps[3 + 3 * m] = Token("ssn", Export)
        /\ steps[4 + 3 * m] = Token("credit_card", Export)
        /\ steps[5 + 3 * m] = Row(Export)
    /\ steps[6 + 3 * ExportRows] = Sheet(Export)
    /\ \A i \in 1..5 : steps[i].path # Export /\ steps[i].do \in {"write", "token", "bundle"}

NotExporting(steps) ==
    \A i \in DOMAIN steps :
        steps[i].path # Export /\ steps[i].do \in {"write", "token", "bundle", "fixed"}

WellPlanned(steps) ==
    /\ Len(steps) \in Nat /\ DOMAIN steps = 1..Len(steps)
    /\ Apart(steps) /\ Bundled(steps)
    /\ NotExporting(steps) \/ Exporting(steps)

Writes(step, path, what) == step.do = "write" /\ step.path = path /\ step.what = what
Generates(step, type, path) ==
    step.do = "token" /\ step.path = path /\ step.what = <<"honeytoken", type>>
Bundles(step, path, types) == step.do = "bundle" /\ step.path = path /\ step.types = types

LEMMA DeveloperSteps ==
    LET s == Developer IN
    /\ Len(s) = 13 /\ DOMAIN s = 1..13
    /\ Writes(s[1], <<"projects", "app/src/main.py">>, <<"source", "python">>)
    /\ Writes(s[2], <<"projects", "app/src/main.ja">>, <<"source", "javascript">>)
    /\ Writes(s[3], <<".bashrc">>, <<"config", "bashrc">>)
    /\ Writes(s[4], <<".ssh", "config">>, <<"config", "ssh_config">>)
    /\ Writes(s[5], <<"projects", "app/.env">>, <<"config", "env">>)
    /\ Writes(s[6], <<"Documents", "dev-notes.txt">>, <<"doc", "notes">>)
    /\ Writes(s[7], <<"projects", "app/README.md">>, <<"doc", "readme">>)
    /\ Writes(s[8], <<".bash_history">>, <<"log", "bash_history">>)
    /\ Generates(s[9], "aws_access_key", <<".aws", "credentials">>)
    /\ Generates(s[10], "aws_secret_key", <<".aws", "credentials">>)
    /\ Generates(s[11], "github_token", <<".config", "gh/hosts.yml">>)
    /\ Bundles(s[12], <<".aws", "credentials">>, {"aws_access_key", "aws_secret_key"})
    /\ Bundles(s[13], <<".config", "gh/hosts.yml">>, {"github_token"})
BY DEF Developer, AwsPair, AwsFile, Code, Config, Document, Log, Token, Bundle, Write,
       AwsCredentials, GitHubHosts, Writes, Generates, Bundles

LEMMA DeveloperPlanned == WellPlanned(Developer)
<1> DEFINE s == Developer
<1>1. \A i \in DOMAIN s : i \in {1, 2, 3, 4, 5, 6, 7, 8, 9, 10, 11, 12, 13}
  BY DeveloperSteps
<1>2. Len(s) = 13 /\ DOMAIN s = 1..13
  BY DeveloperSteps
<1> USE DEF Writes, Generates, Bundles
<1>3. Apart(s)
  BY <1>1, DeveloperSteps DEF Apart, Feeds, Makes
<1>4. Bundled(s)
  <2>1. \A j \in DOMAIN s : /\ s[j].do = "token" => j \in {9, 10, 11}
                            /\ s[j].do = "bundle" => j \in {12, 13}
    BY <1>1, DeveloperSteps
  <2>2. {9, 10, 11, 12, 13} \subseteq DOMAIN s
    BY <1>2
  <2>3. ASSUME NEW j \in {9, 10, 11}
        PROVE  \E b \in {12, 13} :
            /\ s[b].do = "bundle" /\ s[b].path = s[j].path
            /\ \E type \in s[b].types : s[j].what = <<"honeytoken", type>>
    <3>1. CASE j = 9
      BY <3>1, DeveloperSteps
    <3>2. CASE j = 10
      BY <3>2, DeveloperSteps
    <3>3. CASE j = 11
      BY <3>3, DeveloperSteps
    <3> QED
      BY <3>1, <3>2, <3>3
  <2>4. ASSUME NEW b \in {12, 13}, NEW type \in s[b].types
        PROVE  /\ type \in TokenTypes
               /\ \E j \in {9, 10, 11} :
                    /\ j < b /\ s[j].do = "token" /\ s[j].path = s[b].path
                    /\ s[j].what = <<"honeytoken", type>>
    <3>1. CASE b = 12
      BY <3>1, DeveloperSteps DEF TokenTypes
    <3>2. CASE b = 13
      BY <3>2, DeveloperSteps DEF TokenTypes
    <3> QED
      BY <3>1, <3>2
  <2> QED
    BY <2>1, <2>2, <2>3, <2>4 DEF Bundled
<1>5. NotExporting(s)
  BY <1>1, DeveloperSteps DEF NotExporting, Export
<1> QED
  BY <1>2, <1>3, <1>4, <1>5 DEF WellPlanned

LEMMA MinimalSteps ==
    LET s == DeveloperMinimal IN
    /\ Len(s) = 5 /\ DOMAIN s = 1..5
    /\ Writes(s[1], <<"scripts", "util.py">>, <<"source", "python">>)
    /\ Writes(s[2], <<".bashrc">>, <<"config", "bashrc">>)
    /\ Generates(s[3], "aws_access_key", <<".aws", "credentials">>)
    /\ Generates(s[4], "aws_secret_key", <<".aws", "credentials">>)
    /\ Bundles(s[5], <<".aws", "credentials">>, {"aws_access_key", "aws_secret_key"})
BY DEF DeveloperMinimal, AwsPair, AwsFile, Code, Config, Token, Bundle, Write,
       AwsCredentials, Writes, Generates, Bundles

LEMMA MinimalPlanned == WellPlanned(DeveloperMinimal)
<1> DEFINE s == DeveloperMinimal
<1>1. \A i \in DOMAIN s : i \in {1, 2, 3, 4, 5}
  BY MinimalSteps
<1>2. Len(s) = 5 /\ DOMAIN s = 1..5
  BY MinimalSteps
<1> USE DEF Writes, Generates, Bundles
<1>3. Apart(s)
  BY <1>1, MinimalSteps DEF Apart, Feeds, Makes
<1>4. Bundled(s)
  <2>1. \A j \in DOMAIN s : /\ s[j].do = "token" => j \in {3, 4}
                            /\ s[j].do = "bundle" => j = 5
    BY <1>1, MinimalSteps
  <2>2. {3, 4, 5} \subseteq DOMAIN s
    BY <1>2
  <2>3. ASSUME NEW j \in {3, 4}
        PROVE  /\ s[5].do = "bundle" /\ s[5].path = s[j].path
               /\ \E type \in s[5].types : s[j].what = <<"honeytoken", type>>
    BY MinimalSteps
  <2>4. ASSUME NEW type \in s[5].types
        PROVE  /\ type \in TokenTypes
               /\ \E j \in {3, 4} :
                    /\ j < 5 /\ s[j].do = "token" /\ s[j].path = s[5].path
                    /\ s[j].what = <<"honeytoken", type>>
    BY MinimalSteps DEF TokenTypes
  <2> QED
    BY <2>1, <2>2, <2>3, <2>4 DEF Bundled
<1>5. NotExporting(s)
  BY <1>1, MinimalSteps DEF NotExporting, Export
<1> QED
  BY <1>2, <1>3, <1>4, <1>5 DEF WellPlanned

LEMMA WebServerSteps ==
    LET s == WebServer IN
    /\ Len(s) = 5 /\ DOMAIN s = 1..5
    /\ Writes(s[1], <<"app", "main.py">>, <<"source", "webapp">>)
    /\ Writes(s[2], <<"nginx.conf">>, <<"config", "nginx">>)
    /\ Writes(s[3], <<"logs", "access.log">>, <<"log", "apache_access">>)
    /\ Generates(s[4], "api_token", <<"app", "config.py">>)
    /\ Bundles(s[5], <<"app", "config.py">>, {"api_token"})
BY DEF WebServer, Code, Config, Log, Token, Bundle, Write, Writes, Generates, Bundles

LEMMA WebServerPlanned == WellPlanned(WebServer)
<1> DEFINE s == WebServer
<1>1. \A i \in DOMAIN s : i \in {1, 2, 3, 4, 5}
  BY WebServerSteps
<1>2. Len(s) = 5 /\ DOMAIN s = 1..5
  BY WebServerSteps
<1> USE DEF Writes, Generates, Bundles
<1>3. Apart(s)
  BY <1>1, WebServerSteps DEF Apart, Feeds, Makes
<1>4. Bundled(s)
  <2>1. \A j \in DOMAIN s : /\ s[j].do = "token" => j = 4
                            /\ s[j].do = "bundle" => j = 5
    BY <1>1, WebServerSteps
  <2>2. {4, 5} \subseteq DOMAIN s
    BY <1>2
  <2>3. /\ s[5].do = "bundle" /\ s[5].path = s[4].path
        /\ \E type \in s[5].types : s[4].what = <<"honeytoken", type>>
    BY WebServerSteps
  <2>4. ASSUME NEW type \in s[5].types
        PROVE  /\ type \in TokenTypes
               /\ 4 < 5 /\ s[4].do = "token" /\ s[4].path = s[5].path
               /\ s[4].what = <<"honeytoken", type>>
    BY WebServerSteps DEF TokenTypes
  <2> QED
    BY <2>1, <2>2, <2>3, <2>4 DEF Bundled
<1>5. NotExporting(s)
  BY <1>1, WebServerSteps DEF NotExporting, Export
<1> QED
  BY <1>2, <1>3, <1>4, <1>5 DEF WellPlanned

LEMMA ProductionSteps ==
    ASSUME NEW action
    PROVE  LET s == Production(action) IN
    /\ Writes(s[1], <<"etc", "nginx/sites-available/app.conf">>, <<"config", "nginx">>)
    /\ Writes(s[2], <<"app", "docker-compose.yml">>, <<"config", "docker_compose">>)
    /\ Writes(s[3], <<"var", "log/auth.log">>, <<"log", "auth">>)
    /\ Writes(s[4], <<"var", "log/syslog">>, <<"log", "syslog">>)
    /\ Writes(s[5], <<"var", "log/nginx/access.log">>, <<"log", "nginx_access">>)
    /\ Writes(s[6], <<"scripts", "deploy.sh">>, <<"source", "deploy">>)
    /\ Generates(s[7], "api_token", <<"app", ".env.production">>)
    /\ Generates(s[8], "jwt_secret", <<"app", ".env.production">>)
    /\ Bundles(s[9], <<"app", ".env.production">>, {"api_token", "jwt_secret"})
    /\ action # "simulate_cron_jobs" => Len(s) = 9 /\ DOMAIN s = 1..9
    /\ action = "simulate_cron_jobs" =>
        /\ Len(s) = 11 /\ DOMAIN s = 1..11
        /\ Writes(s[10], <<"opt", "scripts/nightly_backup.sh">>, <<"source", "backup">>)
        /\ s[11].do = "fixed" /\ s[11].path = <<"etc", "crontab">>
<1> USE DEF Production, Code, Config, Log, Token, Bundle, Fixed, Write, ProductionEnv,
            Writes, Generates, Bundles
<1>1. CASE action # "simulate_cron_jobs"
  BY <1>1
<1>2. CASE action = "simulate_cron_jobs"
  BY <1>2
<1> QED
  BY <1>1, <1>2

LEMMA ProductionPlanned == ASSUME NEW action PROVE WellPlanned(Production(action))
<1> DEFINE s == Production(action)
<1>1. Len(s) \in {9, 11} /\ DOMAIN s = 1..Len(s)
  BY ProductionSteps
<1>2. \A i \in DOMAIN s : /\ i \in {1, 2, 3, 4, 5, 6, 7, 8, 9, 10, 11}
                          /\ i \in {10, 11} => action = "simulate_cron_jobs"
  BY ProductionSteps
<1>3. /\ Writes(s[1], <<"etc", "nginx/sites-available/app.conf">>, <<"config", "nginx">>)
      /\ Writes(s[2], <<"app", "docker-compose.yml">>, <<"config", "docker_compose">>)
      /\ Writes(s[3], <<"var", "log/auth.log">>, <<"log", "auth">>)
      /\ Writes(s[4], <<"var", "log/syslog">>, <<"log", "syslog">>)
      /\ Writes(s[5], <<"var", "log/nginx/access.log">>, <<"log", "nginx_access">>)
      /\ Writes(s[6], <<"scripts", "deploy.sh">>, <<"source", "deploy">>)
      /\ Generates(s[7], "api_token", <<"app", ".env.production">>)
      /\ Generates(s[8], "jwt_secret", <<"app", ".env.production">>)
      /\ Bundles(s[9], <<"app", ".env.production">>, {"api_token", "jwt_secret"})
      /\ 10 \in DOMAIN s =>
          Writes(s[10], <<"opt", "scripts/nightly_backup.sh">>, <<"source", "backup">>)
      /\ 11 \in DOMAIN s => s[11].do = "fixed" /\ s[11].path = <<"etc", "crontab">>
  BY <1>2, ProductionSteps
<1> HIDE DEF s
<1> USE DEF Writes, Generates, Bundles
<1>4. Apart(s)
  <2>1. CASE Len(s) = 9
    <3>1. \A i \in DOMAIN s : i \in {1, 2, 3, 4, 5, 6, 7, 8, 9}
      BY <1>1, <2>1
    <3>2. ASSUME NEW i \in DOMAIN s, NEW j \in DOMAIN s, i < j, Makes(s[i]), Makes(s[j])
          PROVE  s[i].path # s[j].path
      BY <3>1, <3>2, <1>3 DEF Makes
    <3>3. ASSUME NEW i \in DOMAIN s, NEW j \in DOMAIN s, i < j, Feeds(s[i]), Feeds(s[j])
          PROVE  s[i].what # s[j].what
      BY <3>1, <3>3, <1>3 DEF Feeds
    <3> QED
      BY <3>2, <3>3 DEF Apart
  <2>2. CASE Len(s) = 11
    <3>1. 10 \in DOMAIN s /\ 11 \in DOMAIN s
      BY <1>1, <2>2
    <3>2. \A i \in DOMAIN s : i \in {1, 2, 3, 4, 5, 6, 7, 8, 9, 10, 11}
      BY <1>2
    <3>3. Writes(s[10], <<"opt", "scripts/nightly_backup.sh">>, <<"source", "backup">>)
      BY <1>3, <3>1
    <3>4. s[11].do = "fixed" /\ s[11].path = <<"etc", "crontab">>
      BY <1>3, <3>1
    <3>5. ASSUME NEW i \in DOMAIN s, NEW j \in DOMAIN s, i < j, Makes(s[i]), Makes(s[j])
          PROVE  s[i].path # s[j].path
      BY <3>2, <3>3, <3>4, <3>5, <1>3 DEF Makes
    <3>6. ASSUME NEW i \in DOMAIN s, NEW j \in DOMAIN s, i < j, Feeds(s[i]), Feeds(s[j])
          PROVE  s[i].what # s[j].what
      BY <3>2, <3>3, <3>4, <3>6, <1>3 DEF Feeds
    <3> QED
      BY <3>5, <3>6 DEF Apart
  <2> QED
    BY <1>1, <2>1, <2>2
<1>5. Bundled(s)
  <2>1. \A j \in DOMAIN s : /\ s[j].do = "token" => j \in {7, 8}
                            /\ s[j].do = "bundle" => j = 9
    BY <1>2, <1>3
  <2>2. {7, 8, 9} \subseteq DOMAIN s
    BY <1>1
  <2>3. ASSUME NEW j \in {7, 8}
        PROVE  /\ s[9].do = "bundle" /\ s[9].path = s[j].path
               /\ \E type \in s[9].types : s[j].what = <<"honeytoken", type>>
    BY <1>3
  <2>4. ASSUME NEW type \in s[9].types
        PROVE  /\ type \in TokenTypes
               /\ \E j \in {7, 8} :
                    /\ j < 9 /\ s[j].do = "token" /\ s[j].path = s[9].path
                    /\ s[j].what = <<"honeytoken", type>>
    BY <1>3 DEF TokenTypes
  <2> QED
    BY <2>1, <2>2, <2>3, <2>4 DEF Bundled
<1>6. NotExporting(s)
  BY <1>2, <1>3 DEF NotExporting, Export
<1> QED
  BY <1>1, <1>4, <1>5, <1>6 DEF WellPlanned, s

(* The five steps every database server has.                               *)
DatabaseBase(s) ==
    /\ Writes(s[1], <<"scripts", "backup_db.py">>, <<"source", "db_backup">>)
    /\ Writes(s[2], <<".env">>, <<"config", "env">>)
    /\ Writes(s[3], <<"var", "log/auth.log">>, <<"log", "auth">>)
    /\ Generates(s[4], "database_password", <<".pgpass">>)
    /\ Bundles(s[5], <<".pgpass">>, {"database_password"})

LEMMA TupleTyped ==
    ASSUME NEW S, NEW n \in Nat, NEW s, s = [i \in 1..n |-> s[i]],
           \A i \in 1..n : s[i] \in S
    PROVE  s \in Seq(S) /\ Len(s) = n
<1>1. [i \in 1..n |-> s[i]] \in Seq(S) /\ Len([i \in 1..n |-> s[i]]) = n
  OBVIOUS
<1> QED
  BY <1>1

LEMMA Joined ==
    ASSUME NEW S, NEW s \in Seq(S), NEW t \in Seq(S)
    PROVE  /\ s \o t \in Seq(S) /\ Len(s \o t) = Len(s) + Len(t)
           /\ \A n \in 1..Len(s) : (s \o t)[n] = s[n]
           /\ \A n \in 1..Len(t) : (s \o t)[Len(s) + n] = t[n]
<1>1. Len(s) \in Nat /\ Len(t) \in Nat
  OBVIOUS
<1>2. s \o t \in Seq(S) /\ Len(s \o t) = Len(s) + Len(t)
  BY ConcatProperties
<1>3. \A n \in 1..Len(s) + Len(t) :
        (s \o t)[n] = IF n <= Len(s) THEN s[n] ELSE t[n - Len(s)]
  BY ConcatProperties
<1>4. ASSUME NEW n \in 1..Len(t) PROVE (s \o t)[Len(s) + n] = t[n]
  <2>1. Len(s) + n \in 1..Len(s) + Len(t) /\ ~(Len(s) + n <= Len(s)) /\ (Len(s) + n) - Len(s) = n
    BY <1>1
  <2> QED
    BY <1>3, <2>1
<1> QED
  BY <1>1, <1>2, <1>3, <1>4

LEMMA DatabaseSteps ==
    ASSUME NEW action
    PROVE  LET s == Database(action) IN
    /\ DatabaseBase(s)
    /\ Len(s) \in {5, 6 + 3 * ExportRows} /\ DOMAIN s = 1..Len(s)
    /\ Len(s) # 5 => Exporting(s)
<1> USE DEF Code, Config, Log, Token, Bundle, Write, Writes, Generates, Bundles
<1>1. CASE action # "serve_fake_sensitive_files"
  BY <1>1 DEF Database, DatabaseBase
<1>2. CASE action = "serve_fake_sensitive_files"
  <2> DEFINE base ==
         << Code(<<"scripts", "backup_db.py">>, "db_backup", "python"),
            Config(<<".env">>, "env"),
            Log(<<"var", "log/auth.log">>, "auth"),
            Token("database_password", <<".pgpass">>),
            Bundle(<<".pgpass">>, {"database_password"}) >>
         rows == [n \in 1 .. 3 * ExportRows |-> ExportRow[1 + ((n - 1) % 3)]]
         S == {base[i] : i \in 1..5} \cup {rows[n] : n \in 1..3 * ExportRows}
                \cup {Sheet(Export)}
  <2>1. Database(action) = base \o (rows \o << Sheet(Export) >>)
    BY <1>2 DEF Database
  <2>2. ExportRows \in Nat /\ 3 * ExportRows \in Nat /\ ExportRows > 0
    BY BoundsAssumption
  <2>3. Len(base) = 5 /\ DatabaseBase(base)
    BY DEF DatabaseBase
  <2>4. base = [i \in 1..5 |-> base[i]]
    OBVIOUS
  <2>7. \A m \in 1..ExportRows :
          /\ 3 * m - 2 \in 1..3 * ExportRows /\ rows[3 * m - 2] = Token("ssn", Export)
          /\ 3 * m - 1 \in 1..3 * ExportRows /\ rows[3 * m - 1] = Token("credit_card", Export)
          /\ 3 * m \in 1..3 * ExportRows /\ rows[3 * m] = Row(Export)
    <3> SUFFICES ASSUME NEW m \in 1..ExportRows
                 PROVE  /\ 3 * m - 2 \in 1..3 * ExportRows /\ rows[3 * m - 2] = Token("ssn", Export)
                        /\ 3 * m - 1 \in 1..3 * ExportRows /\ rows[3 * m - 1] = Token("credit_card", Export)
                        /\ 3 * m \in 1..3 * ExportRows /\ rows[3 * m] = Row(Export)
      OBVIOUS
    <3>1. 3 * m - 2 \in 1..3 * ExportRows /\ 3 * m - 1 \in 1..3 * ExportRows /\ 3 * m \in 1..3 * ExportRows
      BY <2>2
    <3>2. (3 * m - 2 - 1) % 3 = 0 /\ (3 * m - 1 - 1) % 3 = 1 /\ (3 * m - 1) % 3 = 2
      BY <2>2
    <3>3. /\ ExportRow[1] = Token("ssn", Export) /\ ExportRow[2] = Token("credit_card", Export)
          /\ ExportRow[3] = Row(Export)
      BY DEF ExportRow
    <3> QED
      BY <3>1, <3>2, <3>3
  <2>5. rows = [n \in 1..3 * ExportRows |-> rows[n]]
    OBVIOUS
  <2> DEFINE sheet == Sheet(Export)
  <2> HIDE DEF base, rows, sheet
  <2>6. <<sheet>> \in Seq(S) /\ Len(<<sheet>>) = 1 /\ <<sheet>>[1] = sheet
    <3>1. sheet \in S
      BY DEF sheet
    <3> HIDE DEF S
    <3> QED
      BY <3>1
  <2>a. base \in Seq(S) /\ Len(base) = 5
    <3>1. \A i \in 1..5 : base[i] \in S
      OBVIOUS
    <3> HIDE DEF S
    <3> QED
      BY <2>4, <3>1, TupleTyped
  <2>b. rows \in Seq(S) /\ Len(rows) = 3 * ExportRows
    <3>1. \A n \in 1..3 * ExportRows : rows[n] \in S
      OBVIOUS
    <3> HIDE DEF S
    <3> QED
      BY <2>2, <2>5, <3>1, TupleTyped
  <2> HIDE DEF S
  <2> DEFINE tail == rows \o << sheet >>
  <2>8. /\ tail \in Seq(S) /\ Len(tail) = 3 * ExportRows + 1
        /\ \A n \in 1..3 * ExportRows : tail[n] = rows[n]
        /\ tail[3 * ExportRows + 1] = sheet
    <3>1. /\ tail \in Seq(S) /\ Len(tail) = Len(rows) + Len(<<sheet>>)
          /\ \A n \in 1..Len(rows) : tail[n] = rows[n]
          /\ \A n \in 1..Len(<<sheet>>) : tail[Len(rows) + n] = <<sheet>>[n]
      <4>1. rows \in Seq(S)
        BY <2>b
      <4>2. <<sheet>> \in Seq(S)
        BY <2>6
      <4> QED
        BY <4>1, <4>2, Joined
    <3> HIDE DEF tail
    <3> QED
      BY <2>2, <2>b, <2>6, <3>1
  <2> HIDE DEF tail
  <2> DEFINE all == base \o tail
  <2>9. /\ all \in Seq(S) /\ Len(all) = 6 + 3 * ExportRows
        /\ \A n \in 1..5 : all[n] = base[n]
        /\ \A n \in 1..3 * ExportRows + 1 : all[5 + n] = tail[n]
    <3>0. tail \in Seq(S)
      BY <2>8
    <3>1. /\ all \in Seq(S) /\ Len(all) = Len(base) + Len(tail)
          /\ \A n \in 1..Len(base) : all[n] = base[n]
          /\ \A n \in 1..Len(tail) : all[Len(base) + n] = tail[n]
      <4>1. base \in Seq(S)
        BY <2>a
      <4> HIDE DEF sheet, S, rows, tail, base
      <4> QED
        BY <3>0, <4>1, Joined
    <3> HIDE DEF all
    <3> QED
      BY <2>2, <2>a, <2>8, <3>1
  <2>10. Database(action) = all
    BY <2>1 DEF tail, sheet
  <2> HIDE DEF all
  <2>11. DatabaseBase(all)
    BY <2>3, <2>9 DEF DatabaseBase
  <2>12. \A m \in 1..ExportRows :
           /\ all[3 + 3 * m] = Token("ssn", Export)
           /\ all[4 + 3 * m] = Token("credit_card", Export)
           /\ all[5 + 3 * m] = Row(Export)
    <3> SUFFICES ASSUME NEW m \in 1..ExportRows
                 PROVE  /\ all[3 + 3 * m] = Token("ssn", Export)
                        /\ all[4 + 3 * m] = Token("credit_card", Export)
                        /\ all[5 + 3 * m] = Row(Export)
      OBVIOUS
    <3>0. \A n \in 1..3 * ExportRows : all[5 + n] = rows[n]
      BY <2>2, <2>8, <2>9
    <3>1. /\ all[5 + (3 * m - 2)] = rows[3 * m - 2] /\ all[5 + (3 * m - 1)] = rows[3 * m - 1]
          /\ all[5 + 3 * m] = rows[3 * m]
      BY <2>7, <3>0
    <3>2. 5 + (3 * m - 2) = 3 + 3 * m /\ 5 + (3 * m - 1) = 4 + 3 * m
      OBVIOUS
    <3> QED
      BY <2>7, <3>1, <3>2
  <2>13. all[6 + 3 * ExportRows] = Sheet(Export)
    <3>1. 5 + (3 * ExportRows + 1) = 6 + 3 * ExportRows /\ 3 * ExportRows + 1 \in 1..3 * ExportRows + 1
      BY <2>2
    <3> QED
      BY <2>8, <2>9, <3>1 DEF sheet
  <2>14. \A i \in 1..5 : all[i].path # Export /\ all[i].do \in {"write", "token", "bundle"}
    BY <2>11 DEF DatabaseBase, Export
  <2>15. Exporting(all)
    BY <2>9, <2>12, <2>13, <2>14 DEF Exporting
  <2> QED
    BY <2>9, <2>10, <2>11, <2>15
<1> QED
  BY <1>1, <1>2

(* In an export, what follows the five steps is for the export.            *)
LEMMA ExportPlaces ==
    ASSUME NEW s, DOMAIN s = 1..Len(s), Exporting(s), NEW i \in DOMAIN s, i \notin 1..5
    PROVE  /\ i \in Nat /\ 5 < i /\ i <= 6 + 3 * ExportRows
           /\ s[i].path = Export
           /\ i = 6 + 3 * ExportRows => s[i].do = "sheet"
           /\ i # 6 + 3 * ExportRows => s[i].do \in {"token", "row"}
           /\ s[i].do = "token" =>
                s[i].what \in {<<"honeytoken", "ssn">>, <<"honeytoken", "credit_card">>}
<1>1. ExportRows \in Nat /\ i \in Nat /\ 5 < i /\ i <= 6 + 3 * ExportRows
  BY BoundsAssumption DEF Exporting
<1>2. CASE i = 6 + 3 * ExportRows
  BY <1>1, <1>2 DEF Exporting, Sheet
<1>3. CASE i # 6 + 3 * ExportRows
  <2> DEFINE m == (i - 3) \div 3
  <2>1. m \in 1..ExportRows /\ (i = 3 + 3 * m \/ i = 4 + 3 * m \/ i = 5 + 3 * m)
    BY <1>1, <1>3
  <2> HIDE DEF m
  <2>2. s[i] \in {Token("ssn", Export), Token("credit_card", Export), Row(Export)}
    BY <2>1 DEF Exporting
  <2> QED
    BY <1>1, <1>3, <2>2 DEF Token, Row
<1> QED
  BY <1>2, <1>3

LEMMA DatabasePlanned == ASSUME NEW action PROVE WellPlanned(Database(action))
<1> DEFINE s == Database(action)
<1>1. /\ DatabaseBase(s) /\ DOMAIN s = 1..Len(s)
      /\ Len(s) = 5 \/ (Len(s) = 6 + 3 * ExportRows /\ Exporting(s))
  BY DatabaseSteps
<1> HIDE DEF s
<1>2. ExportRows \in Nat
  BY BoundsAssumption
<1>3. Len(s) \in Nat /\ 5 <= Len(s) /\ \A i \in 1..5 : i \in DOMAIN s
  <2>1. Len(s) = 5 \/ Len(s) = 6 + 3 * ExportRows
    BY <1>1
  <2>2. Len(s) \in Nat /\ 5 <= Len(s)
    BY <1>2, <2>1
  <2>3. DOMAIN s = 1..Len(s)
    BY <1>1
  <2> QED
    BY <2>2, <2>3
<1>4. \A i \in DOMAIN s : i \in Nat /\ 0 < i /\ (i \in 1..5 => i \in {1, 2, 3, 4, 5})
  BY <1>1, <1>3
<1> USE DEF Writes, Generates, Bundles
<1>5. \A i \in DOMAIN s : i \in 1..5 =>
        /\ s[i].path # Export
        /\ s[i].do \in {"write", "token", "bundle"}
        /\ s[i].do = "token" => i = 4
        /\ s[i].do = "bundle" => i = 5
        /\ Feeds(s[i]) => s[i].what \notin {<<"honeytoken", "ssn">>, <<"honeytoken", "credit_card">>}
  BY <1>1, <1>4 DEF DatabaseBase, Export, Feeds
<1>6. \A i \in DOMAIN s : i \notin 1..5 =>
        /\ Exporting(s) /\ s[i].path = Export
        /\ s[i].do \in {"token", "row", "sheet"}
        /\ Makes(s[i]) => i = Len(s)
        /\ Feeds(s[i]) => s[i].what \in {<<"honeytoken", "ssn">>, <<"honeytoken", "credit_card">>}
  <2> SUFFICES ASSUME NEW i \in DOMAIN s, i \notin 1..5
               PROVE  /\ Exporting(s) /\ s[i].path = Export
                      /\ s[i].do \in {"token", "row", "sheet"}
                      /\ Makes(s[i]) => i = Len(s)
                      /\ Feeds(s[i]) => s[i].what \in {<<"honeytoken", "ssn">>, <<"honeytoken", "credit_card">>}
    OBVIOUS
  <2>1. Exporting(s) /\ Len(s) = 6 + 3 * ExportRows
    BY <1>1
  <2>2. /\ s[i].path = Export
        /\ i = 6 + 3 * ExportRows => s[i].do = "sheet"
        /\ i # 6 + 3 * ExportRows => s[i].do \in {"token", "row"}
        /\ s[i].do = "token" =>
             s[i].what \in {<<"honeytoken", "ssn">>, <<"honeytoken", "credit_card">>}
    BY <1>1, <2>1, ExportPlaces
  <2> QED
    BY <2>1, <2>2 DEF Makes, Feeds
<1>7. Apart(s)
  <2>1. ASSUME NEW i \in DOMAIN s, NEW j \in DOMAIN s, i < j, Makes(s[i]), Makes(s[j])
        PROVE  s[i].path # s[j].path
    <3>1. CASE j \in 1..5
      <4>1. i \in 1..5 /\ i \in {1, 2, 3, 4, 5} /\ j \in {1, 2, 3, 4, 5}
        BY <1>4, <2>1, <3>1
      <4> QED
        BY <1>1, <2>1, <4>1 DEF DatabaseBase, Makes
    <3>2. CASE j \notin 1..5
      <4>1. j = Len(s) /\ s[j].path = Export
        BY <1>6, <2>1, <3>2
      <4>2. i \in 1..5
        BY <1>3, <1>4, <1>6, <2>1, <4>1
      <4> QED
        BY <1>5, <4>1, <4>2
    <3> QED
      BY <3>1, <3>2
  <2>2. ASSUME NEW i \in DOMAIN s, NEW j \in DOMAIN s, i < j, Feeds(s[i]), Feeds(s[j]),
               s[i].what = s[j].what
        PROVE  s[i].path = Export /\ s[j].path = Export
    <3>1. CASE j \in 1..5
      <4>1. i \in 1..5 /\ i \in {1, 2, 3, 4, 5} /\ j \in {1, 2, 3, 4, 5}
        BY <1>4, <2>2, <3>1
      <4>2. s[i].what # s[j].what
        BY <1>1, <2>2, <4>1 DEF DatabaseBase, Feeds
      <4> QED
        BY <2>2, <4>2
    <3>2. CASE j \notin 1..5
      <4>1. /\ s[j].path = Export
            /\ s[j].what \in {<<"honeytoken", "ssn">>, <<"honeytoken", "credit_card">>}
        BY <1>6, <2>2, <3>2
      <4>2. i \notin 1..5
        BY <1>5, <2>2, <4>1
      <4> QED
        BY <1>6, <4>1, <4>2
    <3> QED
      BY <3>1, <3>2
  <2> QED
    BY <2>1, <2>2 DEF Apart
<1>8. Bundled(s)
  <2>1. ASSUME NEW j \in DOMAIN s, s[j].do = "token", s[j].path # Export
        PROVE  \E b \in DOMAIN s :
            /\ s[b].do = "bundle" /\ s[b].path = s[j].path
            /\ \E type \in s[b].types : s[j].what = <<"honeytoken", type>>
    <3>1. j = 4
      BY <1>5, <1>6, <2>1
    <3>2. 5 \in DOMAIN s
      BY <1>3
    <3>3. /\ s[5].do = "bundle" /\ s[5].path = s[4].path
          /\ \E type \in s[5].types : s[4].what = <<"honeytoken", type>>
      BY <1>1 DEF DatabaseBase
    <3> QED
      BY <3>1, <3>2, <3>3
  <2>2. ASSUME NEW b \in DOMAIN s, s[b].do = "bundle", NEW type \in s[b].types
        PROVE  /\ type \in TokenTypes
               /\ \E j \in DOMAIN s :
                    /\ j < b /\ s[j].do = "token" /\ s[j].path = s[b].path
                    /\ s[j].what = <<"honeytoken", type>>
    <3>1. b = 5
      BY <1>5, <1>6, <2>2
    <3>2. 4 \in DOMAIN s /\ 4 < 5
      BY <1>3
    <3>3. type = "database_password"
      BY <1>1, <2>2, <3>1 DEF DatabaseBase
    <3>4. /\ s[4].do = "token" /\ s[4].path = s[5].path
          /\ s[4].what = <<"honeytoken", type>>
      BY <1>1, <3>3 DEF DatabaseBase
    <3> QED
      BY <3>1, <3>2, <3>3, <3>4 DEF TokenTypes
  <2> QED
    BY <2>1, <2>2 DEF Bundled
<1>9. NotExporting(s) \/ Exporting(s)
  <2>1. CASE Exporting(s)
    BY <2>1
  <2>2. CASE ~Exporting(s)
    BY <1>5, <1>6, <2>2 DEF NotExporting
  <2> QED
    BY <2>1, <2>2
<1> QED
  BY <1>1, <1>3, <1>7, <1>8, <1>9 DEF WellPlanned, s

LEMMA PlansPlanned == ASSUME NEW profile, NEW action PROVE WellPlanned(Plan(profile, action))
<1>1. CASE profile = "production_server"
  BY <1>1, ProductionPlanned DEF Plan
<1>2. CASE profile = "database_server"
  BY <1>2, DatabasePlanned DEF Plan
<1>3. CASE profile = "web_server"
  BY <1>3, WebServerPlanned DEF Plan
<1>4. CASE profile \notin {"production_server", "database_server", "web_server"}
  BY <1>4, DeveloperPlanned, MinimalPlanned DEF Plan
<1> QED
  BY <1>1, <1>2, <1>3, <1>4

-----------------------------------------------------------------------------
(* What a well-planned profile says of the feeders of a file.              *)

FeedersOf(steps, path) ==
    {steps[i].what : i \in {n \in DOMAIN steps :
        steps[n].do \in {"write", "token"} /\ steps[n].path = path}}

LEMMA FeedersAre ==
    ASSUME NEW steps, NEW path, NEW label
    PROVE  label \in FeedersOf(steps, path) <=>
             \E i \in DOMAIN steps :
                Feeds(steps[i]) /\ steps[i].path = path /\ steps[i].what = label
BY DEF FeedersOf, Feeds

LEMMA StepsTyped ==
    ASSUME NEW steps, WellPlanned(steps)
    PROVE  /\ Len(steps) \in Nat /\ DOMAIN steps = 1..Len(steps)
           /\ \A i \in DOMAIN steps : i \in Nat
BY DEF WellPlanned

LEMMA KindsOfSteps ==
    ASSUME NEW steps, WellPlanned(steps), NEW i \in DOMAIN steps
    PROVE  /\ steps[i].do \in {"write", "token", "bundle", "fixed", "row", "sheet"}
           /\ steps[i].path = Export \/ steps[i].do \in {"row", "sheet"} =>
                /\ Exporting(steps) /\ i \notin 1..5 /\ steps[i].path = Export
                /\ steps[i].do \in {"token", "row", "sheet"}
<1>1. CASE NotExporting(steps)
  BY <1>1 DEF NotExporting
<1>2. CASE Exporting(steps)
  <2>1. DOMAIN steps = 1..Len(steps)
    BY DEF WellPlanned
  <2>2. CASE i \in 1..5
    BY <1>2, <2>2 DEF Exporting
  <2>3. CASE i \notin 1..5
    BY <1>2, <2>1, <2>3, ExportPlaces
  <2> QED
    BY <2>2, <2>3
<1> QED
  BY <1>1, <1>2 DEF WellPlanned

LEMMA TokenLabels ==
    ASSUME NEW steps, WellPlanned(steps), NEW j \in DOMAIN steps, steps[j].do = "token"
    PROVE  \E type \in TokenTypes : steps[j].what = <<"honeytoken", type>>
<1>1. CASE steps[j].path # Export
  <2>1. PICK b \in DOMAIN steps :
            /\ steps[b].do = "bundle" /\ steps[b].path = steps[j].path
            /\ \E type \in steps[b].types : steps[j].what = <<"honeytoken", type>>
    BY <1>1 DEF WellPlanned, Bundled
  <2>2. \A type \in steps[b].types : type \in TokenTypes
    BY <2>1 DEF WellPlanned, Bundled
  <2> QED
    BY <2>1, <2>2
<1>2. CASE steps[j].path = Export
  <2>1. Exporting(steps) /\ j \notin 1..5 /\ DOMAIN steps = 1..Len(steps)
    BY <1>2, KindsOfSteps, StepsTyped
  <2>2. steps[j].what \in {<<"honeytoken", "ssn">>, <<"honeytoken", "credit_card">>}
    BY <2>1, ExportPlaces
  <2> QED
    BY <2>2 DEF TokenTypes
<1> QED
  BY <1>1, <1>2

(* Nothing feeds a file after the step that makes it.                      *)
LEMMA FeedersComeFirst ==
    ASSUME NEW steps, WellPlanned(steps), NEW i \in DOMAIN steps, Makes(steps[i]),
           steps[i].path # Export, NEW k \in DOMAIN steps, Feeds(steps[k]),
           steps[k].path = steps[i].path
    PROVE  /\ k <= i
           /\ steps[k].do = "write" => k = i
           /\ steps[k].do = "token" => steps[i].do = "bundle"
           /\ steps[i].do = "bundle" =>
                \E type \in steps[i].types : steps[k].what = <<"honeytoken", type>>
<1>0. i \in Nat /\ k \in Nat
  BY StepsTyped
<1>m. ASSUME NEW b \in DOMAIN steps, Makes(steps[b]), steps[b].path = steps[i].path
      PROVE  b = i
  <2>1. b \in Nat
    BY StepsTyped
  <2>2. ~(b < i) /\ ~(i < b)
    BY <1>m DEF WellPlanned, Apart
  <2> QED
    BY <1>0, <2>1, <2>2
<1>1. CASE steps[k].do = "write"
  <2>1. k = i
    BY <1>1, <1>m DEF Makes
  <2> QED
    BY <1>0, <1>1, <2>1
<1>2. CASE steps[k].do = "token"
  <2>1. PICK b \in DOMAIN steps :
            /\ steps[b].do = "bundle" /\ steps[b].path = steps[k].path
            /\ \E type \in steps[b].types : steps[k].what = <<"honeytoken", type>>
    BY <1>2 DEF WellPlanned, Bundled
  <2>2. b = i
    BY <2>1, <1>m DEF Makes
  <2>3. PICK type \in steps[i].types : steps[k].what = <<"honeytoken", type>>
    BY <2>1, <2>2
  <2>4. PICK j \in DOMAIN steps : /\ j < i /\ steps[j].do = "token" /\ steps[j].path = steps[i].path
                                  /\ steps[j].what = <<"honeytoken", type>>
    BY <2>1, <2>2 DEF WellPlanned, Bundled
  <2>5. ~(j < k) /\ ~(k < j)
    BY <1>2, <2>3, <2>4 DEF WellPlanned, Apart, Feeds
  <2>6. j \in Nat
    BY StepsTyped
  <2> QED
    BY <1>0, <1>2, <2>1, <2>2, <2>3, <2>4, <2>5, <2>6
<1> QED
  BY <1>1, <1>2 DEF Feeds

LEMMA FeedersOfWritten ==
    ASSUME NEW steps, WellPlanned(steps), NEW i \in DOMAIN steps, steps[i].do = "write"
    PROVE  /\ steps[i].path # Export
           /\ FeedersOf(steps, steps[i].path) = {steps[i].what}
<1>1. steps[i].path # Export
  BY KindsOfSteps
<1>2. ASSUME NEW k \in DOMAIN steps, Feeds(steps[k]), steps[k].path = steps[i].path
      PROVE  k = i
  BY <1>1, <1>2, FeedersComeFirst DEF Makes, Feeds
<1> QED
  BY <1>1, <1>2 DEF FeedersOf, Feeds

LEMMA FeedersOfFixed ==
    ASSUME NEW steps, WellPlanned(steps), NEW i \in DOMAIN steps, steps[i].do = "fixed"
    PROVE  FeedersOf(steps, steps[i].path) = {}
<1>1. steps[i].path # Export
  BY KindsOfSteps
<1>2. ASSUME NEW k \in DOMAIN steps, Feeds(steps[k]), steps[k].path = steps[i].path
      PROVE  FALSE
  BY <1>1, <1>2, FeedersComeFirst DEF Makes, Feeds
<1> QED
  BY <1>2 DEF FeedersOf, Feeds

LEMMA FeedersOfBundled ==
    ASSUME NEW steps, WellPlanned(steps), NEW i \in DOMAIN steps, steps[i].do = "bundle"
    PROVE  /\ steps[i].path # Export /\ steps[i].types \subseteq TokenTypes
           /\ \A type \in steps[i].types : \E j \in DOMAIN steps :
                /\ j < i /\ steps[j].do = "token" /\ steps[j].path = steps[i].path
                /\ steps[j].what = <<"honeytoken", type>>
           /\ \A label : label \in FeedersOf(steps, steps[i].path) <=>
                \E type \in steps[i].types : label = <<"honeytoken", type>>
<1>1. steps[i].path # Export
  BY KindsOfSteps
<1>2. /\ steps[i].types \subseteq TokenTypes
      /\ \A type \in steps[i].types : \E j \in DOMAIN steps :
            /\ j < i /\ steps[j].do = "token" /\ steps[j].path = steps[i].path
            /\ steps[j].what = <<"honeytoken", type>>
  BY DEF WellPlanned, Bundled
<1>3. ASSUME NEW k \in DOMAIN steps, Feeds(steps[k]), steps[k].path = steps[i].path
      PROVE  \E type \in steps[i].types : steps[k].what = <<"honeytoken", type>>
  BY <1>1, <1>3, FeedersComeFirst DEF Makes
<1>4. ASSUME NEW label
      PROVE  label \in FeedersOf(steps, steps[i].path) <=>
                \E type \in steps[i].types : label = <<"honeytoken", type>>
  <2>1. ASSUME label \in FeedersOf(steps, steps[i].path)
        PROVE  \E type \in steps[i].types : label = <<"honeytoken", type>>
    <3>1. PICK k \in DOMAIN steps : Feeds(steps[k]) /\ steps[k].path = steps[i].path /\ steps[k].what = label
      BY <2>1, FeedersAre
    <3> QED
      BY <1>3, <3>1
  <2>2. ASSUME NEW type \in steps[i].types, label = <<"honeytoken", type>>
        PROVE  label \in FeedersOf(steps, steps[i].path)
    BY <1>2, <2>2, FeedersAre DEF Feeds
  <2> QED
    BY <2>1, <2>2
<1> QED
  BY <1>1, <1>2, <1>4

(* A step's label feeds no file made before it.                            *)
LEMMA FreshLabel ==
    ASSUME NEW steps, WellPlanned(steps), NEW i \in DOMAIN steps, Makes(steps[i]),
           steps[i].path # Export, NEW n \in DOMAIN steps, i < n, Feeds(steps[n])
    PROVE  steps[n].what \notin FeedersOf(steps, steps[i].path)
<1> SUFFICES ASSUME steps[n].what \in FeedersOf(steps, steps[i].path) PROVE FALSE
  OBVIOUS
<1>1. PICK k \in DOMAIN steps : /\ Feeds(steps[k]) /\ steps[k].path = steps[i].path
                                /\ steps[k].what = steps[n].what
  BY FeedersAre
<1>2. k <= i
  BY <1>1, FeedersComeFirst
<1>3. k < n
  BY <1>2, StepsTyped
<1>4. steps[k].path = Export
  BY <1>1, <1>3 DEF WellPlanned, Apart
<1> QED
  BY <1>1, <1>4

-----------------------------------------------------------------------------
(* The job.                                                                *)

LabelsOf(request) == {StepsOf(request)[i].what : i \in DOMAIN StepsOf(request)}
PathsOf(request) == {StepsOf(request)[i].path : i \in DOMAIN StepsOf(request)}

CleanLines == {line \in SafeLines : line.is # "term"}

FilesOf(request) == [path : PathsOf(request), text : Seq(CleanLines), values : SUBSET Values]

Jobs(request) ==
    [request : {request}, at : Nat, calls : 0 .. LlmRetries - 1, tries : 0 .. MaxRetries,
     held : [TokenTypes -> Values \cup {None}], export : SUBSET Values, exported : Nat,
     files : Seq(FilesOf(request)), embedded : SUBSET Values,
     failures : Seq(LabelsOf(request)), sent : Nat, lost : Nat]

(* The export has at most one row for each that was passed.                *)
RowsPassed(j) ==
    j.exported = 0 \/ (Exporting(StepsOf(j.request)) /\ 3 * j.exported + 6 <= j.at)

JobOK(j) ==
    /\ j.request \in Requests /\ j \in Jobs(j.request)
    /\ j.at \in 1 .. Len(StepsOf(j.request)) + 1
    /\ j.request.route # "generate" => RowsPassed(j)
    /\ j.request.route = "generate" => j.exported = 0

LEMMA RequestPlanned ==
    ASSUME NEW request \in Requests
    PROVE  LET steps == StepsOf(request) IN
           /\ Len(steps) \in Nat /\ DOMAIN steps = 1..Len(steps)
           /\ request.route # "generate" =>
                WellPlanned(steps) /\ LayerOf(request) = "system"
           /\ request.route = "generate" =>
                Len(steps) = 1 /\ steps[1].do = "write"
<1>1. CASE request.route = "generate"
  <2>1. StepsOf(request) = << request.artifact >>
    BY <1>1 DEF StepsOf
  <2>2. request.artifact.do = "write"
    BY <1>1, RequestAssumption
  <2> QED
    BY <1>1, <2>1, <2>2
<1>2. CASE request.route # "generate"
  <2>1. request.route \in {"decoys", "populate"}
    BY <1>2, RequestAssumption
  <2>2. WellPlanned(StepsOf(request))
    BY <2>1, PlansPlanned DEF StepsOf
  <2> QED
    BY <1>2, <2>2, StepsTyped DEF LayerOf
<1> QED
  BY <1>1, <1>2

LEMMA NewJobOK ==
    ASSUME NEW request \in Requests
    PROVE  /\ JobOK(NewJob(request)) /\ NewJob(request).request = request
           /\ NewJob(request) # None
<1> DEFINE j == NewJob(request)
<1>1. /\ LlmRetries \in Nat \ {0} /\ MaxRetries \in Nat
  BY BoundsAssumption
<1>2. 0 \in 0 .. LlmRetries - 1 /\ 0 \in 0..MaxRetries
  BY <1>1
<1>3. [type \in TokenTypes |-> None] \in [TokenTypes -> Values \cup {None}]
  OBVIOUS
<1>4. <<>> \in Seq(FilesOf(request)) /\ <<>> \in Seq(LabelsOf(request))
  BY EmptySeq
<1>5. /\ j.request = request /\ j.exported = 0 /\ j.at = 1
  BY DEF NewJob
<1>6. j \in Jobs(request)
  BY <1>2, <1>3, <1>4 DEF NewJob, Jobs
<1>7. 1 \in 1..Len(StepsOf(request)) + 1
  BY RequestPlanned
<1> QED
  BY <1>5, <1>6, <1>7, NoneAssumption DEF JobOK, RowsPassed

(* What is true of a job whatever the step.                                *)
LEMMA JobFields ==
    ASSUME NEW j, JobOK(j)
    PROVE  /\ j.request \in Requests /\ j.at \in Nat \ {0}
           /\ j.held \in [TokenTypes -> Values \cup {None}]
           /\ j.export \subseteq Values /\ j.embedded \subseteq Values /\ j.exported \in Nat
           /\ j.files \in Seq(FilesOf(j.request))
           /\ j.failures \in Seq(LabelsOf(j.request))
           /\ j.sent \in Nat /\ j.lost \in Nat
           /\ j.calls \in 0 .. LlmRetries - 1 /\ j.tries \in 0 .. MaxRetries
<1>1. j \in Jobs(j.request)
  BY DEF JobOK
<1> QED
  BY <1>1 DEF JobOK, Jobs

-----------------------------------------------------------------------------
(* The moves of a job, field by field.                                     *)

LEMMA AdvanceFields ==
    ASSUME NEW j, NEW request, j \in Jobs(request)
    PROVE  /\ Advance(j) \in Jobs(request)
           /\ Advance(j).request = j.request /\ Advance(j).at = j.at + 1
           /\ Advance(j).held = j.held /\ Advance(j).export = j.export
           /\ Advance(j).exported = j.exported /\ Advance(j).files = j.files
           /\ Advance(j).embedded = j.embedded /\ Advance(j).failures = j.failures
           /\ Advance(j).sent = j.sent /\ Advance(j).lost = j.lost
<1>1. LlmRetries \in Nat \ {0} /\ MaxRetries \in Nat
  BY BoundsAssumption
<1>2. 0 \in 0 .. LlmRetries - 1 /\ 0 \in 0..MaxRetries
  BY <1>1
<1>3. j.at + 1 \in Nat
  BY DEF Jobs
<1>4. Advance(j) \in Jobs(request)
  BY <1>2, <1>3 DEF Advance, Jobs
<1> QED
  BY <1>4 DEF Advance, Jobs

-----------------------------------------------------------------------------
(* What a profile's build has done, at any of its steps.                   *)

Delivered(j, path) == \E n \in DOMAIN j.files : j.files[n].path = path
Failed(j, label) == \E n \in DOMAIN j.failures : j.failures[n] = label

(* Each file comes from a step of its own that is past; so does a failure. *)
MadeInOrder(j) ==
    /\ \A n \in DOMAIN j.files : \E i \in DOMAIN StepsOf(j.request) :
        /\ i < j.at /\ Makes(StepsOf(j.request)[i])
        /\ StepsOf(j.request)[i].path = j.files[n].path
    /\ \A m, n \in DOMAIN j.files : m # n => j.files[m].path # j.files[n].path
FailedInOrder(j) ==
    \A n \in DOMAIN j.failures : \E i \in DOMAIN StepsOf(j.request) :
        /\ i < j.at /\ Feeds(StepsOf(j.request)[i])
        /\ StepsOf(j.request)[i].what = j.failures[n]

(* A file is there unless one of its feeders failed.                       *)
Settled(j, path) ==
    Delivered(j, path) <=>
        ~(\E label \in FeedersOf(StepsOf(j.request), path) : Failed(j, label))
FilesTold(j) ==
    \A i \in DOMAIN StepsOf(j.request) :
        (i < j.at /\ Makes(StepsOf(j.request)[i]) /\ StepsOf(j.request)[i].path # Export)
            => Settled(j, StepsOf(j.request)[i].path)

(* A token is held unless it failed.                                       *)
HeldTold(j) ==
    \A i \in DOMAIN StepsOf(j.request) : \A type \in TokenTypes :
        (/\ i < j.at /\ StepsOf(j.request)[i].do = "token"
         /\ StepsOf(j.request)[i].path # Export
         /\ StepsOf(j.request)[i].what = <<"honeytoken", type>>)
            => (j.held[type] = None <=> Failed(j, <<"honeytoken", type>>))

(* Whatever is handed over was registered.                                 *)
ValuesKept(j) ==
    /\ \A type \in TokenTypes : j.held[type] \in j.embedded \cup {None}
    /\ j.export \subseteq j.embedded
    /\ \A n \in DOMAIN j.files : j.files[n].values \subseteq j.embedded

(* One step further: at most a file of that step, at most a failure of it. *)
Progress(j, k) ==
    /\ JobOK(j) /\ JobOK(k) /\ j.request.route # "generate"
    /\ j.at \in DOMAIN StepsOf(j.request)
    /\ k.request = j.request /\ k.at = j.at + 1
    /\ \/ k.files = j.files
       \/ /\ Makes(StepsOf(j.request)[j.at])
          /\ \E file \in FilesOf(j.request) :
                /\ file.path = StepsOf(j.request)[j.at].path
                /\ k.files = Append(j.files, file)
    /\ \/ k.failures = j.failures
       \/ /\ Feeds(StepsOf(j.request)[j.at])
          /\ k.failures = Append(j.failures, StepsOf(j.request)[j.at].what)

LEMMA AppendedTo ==
    ASSUME NEW S, NEW s \in Seq(S), NEW x \in S
    PROVE  /\ Append(s, x) \in Seq(S) /\ Len(Append(s, x)) = Len(s) + 1
           /\ Len(s) + 1 \in DOMAIN Append(s, x) /\ Append(s, x)[Len(s) + 1] = x
           /\ Len(s) + 1 \notin DOMAIN s
           /\ \A n \in DOMAIN s : n \in DOMAIN Append(s, x) /\ Append(s, x)[n] = s[n]
           /\ \A n \in DOMAIN Append(s, x) : n \in DOMAIN s \/ n = Len(s) + 1
<1>1. Len(s) \in Nat /\ DOMAIN s = 1..Len(s)
  OBVIOUS
<1>2. /\ Append(s, x) \in Seq(S) /\ Len(Append(s, x)) = Len(s) + 1
      /\ \A n \in 1..Len(s) : Append(s, x)[n] = s[n]
      /\ Append(s, x)[Len(s) + 1] = x
  BY AppendProperties
<1>3. DOMAIN Append(s, x) = 1..Len(s) + 1
  BY <1>2
<1> QED
  BY <1>1, <1>2, <1>3

LEMMA DeliveredBy ==
    ASSUME NEW j, NEW k, Progress(j, k), NEW path
    PROVE  /\ Delivered(j, path) => Delivered(k, path)
           /\ Delivered(k, path) =>
                Delivered(j, path) \/ path = StepsOf(j.request)[j.at].path
           /\ k.files # j.files => Delivered(k, StepsOf(j.request)[j.at].path)
<1>1. CASE k.files = j.files
  BY <1>1 DEF Delivered
<1>2. CASE k.files # j.files
  <2>1. PICK file \in FilesOf(j.request) :
            /\ file.path = StepsOf(j.request)[j.at].path
            /\ k.files = Append(j.files, file)
    BY <1>2 DEF Progress
  <2>2. j.files \in Seq(FilesOf(j.request))
    BY JobFields DEF Progress
  <2> QED
    BY <2>1, <2>2, AppendedTo DEF Delivered
<1> QED
  BY <1>1, <1>2

LEMMA FailedBy ==
    ASSUME NEW j, NEW k, Progress(j, k), NEW label
    PROVE  /\ Failed(j, label) => Failed(k, label)
           /\ Failed(k, label) =>
                \/ Failed(j, label)
                \/ Feeds(StepsOf(j.request)[j.at]) /\ label = StepsOf(j.request)[j.at].what
           /\ k.failures # j.failures => Failed(k, StepsOf(j.request)[j.at].what)
<1>1. CASE k.failures = j.failures
  BY <1>1 DEF Failed
<1>2. CASE k.failures # j.failures
  <2> DEFINE what == StepsOf(j.request)[j.at].what
  <2>1. Feeds(StepsOf(j.request)[j.at]) /\ k.failures = Append(j.failures, what)
    BY <1>2 DEF Progress
  <2>2. j.failures \in Seq(LabelsOf(j.request)) /\ what \in LabelsOf(j.request)
    BY JobFields DEF Progress, LabelsOf
  <2> HIDE DEF what
  <2>3. /\ Failed(j, label) => Failed(k, label)
        /\ Failed(k, label) => Failed(j, label) \/ label = what
        /\ Failed(k, what)
    BY <2>1, <2>2, AppendedTo DEF Failed
  <2> QED
    BY <2>1, <2>3 DEF what
<1> QED
  BY <1>1, <1>2

LEMMA MadeKept ==
    ASSUME NEW j, NEW k, Progress(j, k), MadeInOrder(j)
    PROVE  MadeInOrder(k)
<1> DEFINE s == StepsOf(j.request)
<1>0. /\ k.request = j.request /\ k.at = j.at + 1 /\ j.at \in DOMAIN s
      /\ WellPlanned(s) /\ j.at \in Nat /\ j.files \in Seq(FilesOf(j.request))
  BY JobFields, RequestPlanned DEF Progress
<1>1. \A i \in DOMAIN s : i \in Nat
  BY <1>0, StepsTyped
<1>2. ASSUME NEW n \in DOMAIN j.files
      PROVE  \E i \in DOMAIN s : i < j.at /\ Makes(s[i]) /\ s[i].path = j.files[n].path
  BY DEF MadeInOrder
<1>3. CASE k.files = j.files
  <2>1. ASSUME NEW n \in DOMAIN k.files
        PROVE  \E i \in DOMAIN s : i < k.at /\ Makes(s[i]) /\ s[i].path = k.files[n].path
    BY <1>0, <1>1, <1>2, <1>3
  <2> QED
    BY <1>0, <1>3, <2>1 DEF MadeInOrder
<1>4. CASE k.files # j.files
  <2>1. PICK file \in FilesOf(j.request) :
            Makes(s[j.at]) /\ file.path = s[j.at].path /\ k.files = Append(j.files, file)
    BY <1>4 DEF Progress
  <2> DEFINE last == Len(j.files) + 1
  <2>2. /\ k.files[last] = file /\ last \notin DOMAIN j.files
        /\ \A n \in DOMAIN j.files : k.files[n] = j.files[n]
        /\ \A n \in DOMAIN k.files : n \in DOMAIN j.files \/ n = last
    BY <1>0, <2>1, AppendedTo
  <2> HIDE DEF last, s
  <2>3. ASSUME NEW n \in DOMAIN k.files
        PROVE  \E i \in DOMAIN s : i < k.at /\ Makes(s[i]) /\ s[i].path = k.files[n].path
    <3>1. CASE n \in DOMAIN j.files
      BY <1>0, <1>1, <1>2, <2>2, <3>1
    <3>2. CASE n = last
      BY <1>0, <1>1, <2>1, <2>2, <3>2
    <3> QED
      BY <2>2, <3>1, <3>2
  <2>4. ASSUME NEW n \in DOMAIN j.files
        PROVE  k.files[n].path # k.files[last].path
    <3>1. PICK i \in DOMAIN s : i < j.at /\ Makes(s[i]) /\ s[i].path = j.files[n].path
      BY <1>2
    <3>2. s[i].path # s[j.at].path
      BY <1>0, <2>1, <3>1 DEF WellPlanned, Apart
    <3> QED
      BY <2>1, <2>2, <3>1, <3>2
  <2>5. \A m, n \in DOMAIN k.files : m # n => k.files[m].path # k.files[n].path
    BY <2>2, <2>4 DEF MadeInOrder
  <2> QED
    BY <1>0, <2>3, <2>5 DEF MadeInOrder, s
<1> QED
  BY <1>3, <1>4

LEMMA FailuresKept ==
    ASSUME NEW j, NEW k, Progress(j, k), FailedInOrder(j)
    PROVE  FailedInOrder(k)
<1> DEFINE s == StepsOf(j.request)
<1>0. /\ k.request = j.request /\ k.at = j.at + 1 /\ j.at \in DOMAIN s
      /\ WellPlanned(s) /\ j.at \in Nat /\ j.failures \in Seq(LabelsOf(j.request))
  BY JobFields, RequestPlanned DEF Progress
<1>1. \A i \in DOMAIN s : i \in Nat
  BY <1>0, StepsTyped
<1>2. ASSUME NEW n \in DOMAIN j.failures
      PROVE  \E i \in DOMAIN s : i < j.at /\ Feeds(s[i]) /\ s[i].what = j.failures[n]
  BY DEF FailedInOrder
<1>3. ASSUME NEW n \in DOMAIN k.failures
      PROVE  \E i \in DOMAIN s : i < k.at /\ Feeds(s[i]) /\ s[i].what = k.failures[n]
  <2>1. CASE Failed(j, k.failures[n])
    <3>1. PICK m \in DOMAIN j.failures : j.failures[m] = k.failures[n]
      BY <2>1 DEF Failed
    <3>2. PICK i \in DOMAIN s : i < j.at /\ Feeds(s[i]) /\ s[i].what = j.failures[m]
      BY <1>2
    <3> QED
      BY <1>0, <1>1, <3>1, <3>2
  <2>2. CASE ~Failed(j, k.failures[n])
    <3>1. Failed(k, k.failures[n])
      BY DEF Failed
    <3>2. Feeds(s[j.at]) /\ k.failures[n] = s[j.at].what
      BY <2>2, <3>1, FailedBy
    <3> QED
      BY <1>0, <3>2
  <2> QED
    BY <2>1, <2>2
<1> QED
  BY <1>0, <1>3 DEF FailedInOrder

LEMMA ProgressTyped ==
    ASSUME NEW j, NEW k, Progress(j, k)
    PROVE  /\ WellPlanned(StepsOf(j.request)) /\ j.at \in DOMAIN StepsOf(j.request)
           /\ j.at \in Nat /\ k.at = j.at + 1 /\ k.request = j.request
           /\ \A i \in DOMAIN StepsOf(j.request) :
                i \in Nat /\ (i < k.at => i < j.at \/ i = j.at)
<1>1. /\ WellPlanned(StepsOf(j.request)) /\ j.at \in DOMAIN StepsOf(j.request)
      /\ j.at \in Nat /\ k.at = j.at + 1 /\ k.request = j.request
  BY JobFields, RequestPlanned DEF Progress
<1>2. \A i \in DOMAIN StepsOf(j.request) : i \in Nat
  BY <1>1, StepsTyped
<1> QED
  BY <1>1, <1>2

(* The label of a step is nobody's failure before it; nor is its file      *)
(* there.                                                                  *)
LEMMA FreshStep ==
    ASSUME NEW j, NEW k, Progress(j, k), MadeInOrder(j), FailedInOrder(j),
           StepsOf(j.request)[j.at].path # Export
    PROVE  /\ Feeds(StepsOf(j.request)[j.at]) => ~Failed(j, StepsOf(j.request)[j.at].what)
           /\ Makes(StepsOf(j.request)[j.at]) => ~Delivered(j, StepsOf(j.request)[j.at].path)
<1> DEFINE s == StepsOf(j.request)
<1>0. WellPlanned(s) /\ j.at \in DOMAIN s
  BY ProgressTyped
<1>1. ASSUME Feeds(s[j.at]), Failed(j, s[j.at].what)
      PROVE  FALSE
  <2>1. PICK i \in DOMAIN s : i < j.at /\ Feeds(s[i]) /\ s[i].what = s[j.at].what
    BY <1>1 DEF Failed, FailedInOrder
  <2>2. s[j.at].path = Export
    BY <1>0, <1>1, <2>1 DEF WellPlanned, Apart
  <2> QED
    BY <2>2
<1>2. ASSUME Makes(s[j.at]), Delivered(j, s[j.at].path)
      PROVE  FALSE
  <2>1. PICK i \in DOMAIN s : i < j.at /\ Makes(s[i]) /\ s[i].path = s[j.at].path
    BY <1>2 DEF Delivered, MadeInOrder
  <2> QED
    BY <1>0, <1>2, <2>1 DEF WellPlanned, Apart
<1> QED
  BY <1>1, <1>2

LEMMA FilesKept ==
    ASSUME NEW j, NEW k, Progress(j, k), FilesTold(j),
           LET step == StepsOf(j.request)[j.at] IN
           Makes(step) /\ step.path # Export => Settled(k, step.path)
    PROVE  FilesTold(k)
<1> DEFINE s == StepsOf(j.request)
<1>0. /\ WellPlanned(s) /\ j.at \in DOMAIN s /\ k.request = j.request
      /\ \A i \in DOMAIN s : i < k.at => i < j.at \/ i = j.at
  BY ProgressTyped
<1>1. ASSUME NEW i \in DOMAIN s, i < j.at, Makes(s[i]), s[i].path # Export
      PROVE  Settled(k, s[i].path)
  <2>1. Settled(j, s[i].path)
    BY <1>1 DEF FilesTold
  <2>2. Delivered(k, s[i].path) <=> Delivered(j, s[i].path)
    <3>1. CASE Makes(s[j.at])
      <4>1. s[i].path # s[j.at].path
        BY <1>0, <1>1, <3>1 DEF WellPlanned, Apart
      <4> QED
        BY <4>1, DeliveredBy
    <3>2. CASE ~Makes(s[j.at])
      <4>1. k.files = j.files
        BY <3>2 DEF Progress
      <4> QED
        BY <4>1 DEF Delivered
    <3> QED
      BY <3>1, <3>2
  <2>3. ASSUME NEW label \in FeedersOf(s, s[i].path)
        PROVE  Failed(k, label) <=> Failed(j, label)
    <3>1. Feeds(s[j.at]) => s[j.at].what # label
      BY <1>0, <1>1, FreshLabel
    <3> QED
      BY <3>1, FailedBy
  <2> QED
    BY <1>0, <2>1, <2>2, <2>3 DEF Settled
<1>2. ASSUME NEW i \in DOMAIN s, i < k.at, Makes(s[i]), s[i].path # Export
      PROVE  Settled(k, s[i].path)
  BY <1>0, <1>1, <1>2
<1> QED
  BY <1>0, <1>2 DEF FilesTold

LEMMA HeldKept ==
    ASSUME NEW j, NEW k, Progress(j, k), MadeInOrder(j), FailedInOrder(j), HeldTold(j),
           LET step == StepsOf(j.request)[j.at] IN
           /\ step.do # "token" => k.held = j.held
           /\ step.do = "token" => \A type \in TokenTypes :
                /\ step.what # <<"honeytoken", type>> => k.held[type] = j.held[type]
                /\ step.what = <<"honeytoken", type>> =>
                    (k.held[type] = None <=> k.failures # j.failures)
    PROVE  HeldTold(k)
<1> DEFINE s == StepsOf(j.request)
<1>0. /\ WellPlanned(s) /\ j.at \in DOMAIN s /\ k.request = j.request
      /\ \A i \in DOMAIN s : i < k.at => i < j.at \/ i = j.at
  BY ProgressTyped
<1>1. ASSUME NEW i \in DOMAIN s, NEW type \in TokenTypes, i < j.at, s[i].do = "token",
             s[i].path # Export, s[i].what = <<"honeytoken", type>>
      PROVE  k.held[type] = None <=> Failed(k, <<"honeytoken", type>>)
  <2>1. j.held[type] = None <=> Failed(j, <<"honeytoken", type>>)
    BY <1>1 DEF HeldTold
  <2>2. Feeds(s[j.at]) => s[j.at].what # <<"honeytoken", type>>
    <3>1. Feeds(s[j.at]) => s[j.at].what # s[i].what
      BY <1>0, <1>1 DEF WellPlanned, Apart, Feeds
    <3> QED
      BY <1>1, <3>1
  <2>3. Failed(k, <<"honeytoken", type>>) <=> Failed(j, <<"honeytoken", type>>)
    BY <2>2, FailedBy
  <2>4. k.held[type] = j.held[type]
    BY <2>2 DEF Feeds
  <2> QED
    BY <2>1, <2>3, <2>4
<1>2. ASSUME NEW type \in TokenTypes, s[j.at].do = "token",
             s[j.at].path # Export, s[j.at].what = <<"honeytoken", type>>
      PROVE  k.held[type] = None <=> Failed(k, <<"honeytoken", type>>)
  <2>1. k.held[type] = None <=> k.failures # j.failures
    BY <1>2
  <2>2. ~Failed(j, <<"honeytoken", type>>)
    BY <1>2, FreshStep DEF Feeds
  <2>3. k.failures # j.failures => Failed(k, <<"honeytoken", type>>)
    BY <1>2, FailedBy
  <2>4. k.failures = j.failures => ~Failed(k, <<"honeytoken", type>>)
    BY <2>2 DEF Failed
  <2> QED
    BY <2>1, <2>3, <2>4
<1>3. ASSUME NEW i \in DOMAIN s, NEW type \in TokenTypes, i < k.at, s[i].do = "token",
             s[i].path # Export, s[i].what = <<"honeytoken", type>>
      PROVE  k.held[type] = None <=> Failed(k, <<"honeytoken", type>>)
  BY <1>0, <1>1, <1>2, <1>3
<1> QED
  BY <1>0, <1>3 DEF HeldTold

(* What a step does to the build beyond Progress.                          *)
Effect(j, k) ==
    LET step == StepsOf(j.request)[j.at] IN
    /\ step.do = "write" => (k.files # j.files <=> k.failures = j.failures)
    /\ step.do = "bundle" =>
        (k.files # j.files <=> None \notin {j.held[type] : type \in step.types})
    /\ step.do = "fixed" => k.files # j.files
    /\ step.do = "sheet" => (k.files # j.files <=> j.exported # 0)
    /\ step.do # "token" => k.held = j.held
    /\ step.do = "token" => \A type \in TokenTypes :
        /\ step.what # <<"honeytoken", type>> => k.held[type] = j.held[type]
        /\ step.what = <<"honeytoken", type>> =>
            (k.held[type] = None <=> k.failures # j.failures)
    /\ step.do # "row" => k.exported = j.exported
    /\ step.do = "row" =>
        k.exported = IF None \in {j.held["ssn"], j.held["credit_card"]}
                     THEN j.exported ELSE j.exported + 1

LEMMA StepSettled ==
    ASSUME NEW j, NEW k, Progress(j, k), Effect(j, k), MadeInOrder(j), FailedInOrder(j),
           HeldTold(j), Makes(StepsOf(j.request)[j.at]),
           StepsOf(j.request)[j.at].path # Export
    PROVE  Settled(k, StepsOf(j.request)[j.at].path)
<1> DEFINE s == StepsOf(j.request)
           step == s[j.at]
<1>0. /\ WellPlanned(s) /\ j.at \in DOMAIN s /\ k.request = j.request
  BY ProgressTyped
<1>1. Delivered(k, step.path) <=> k.files # j.files
  <2>1. ~Delivered(j, step.path)
    BY FreshStep
  <2> QED
    BY <2>1, DeliveredBy DEF Delivered
<1>2. Feeds(step) => (Failed(k, step.what) <=> k.failures # j.failures)
  <2>1. Feeds(step) => ~Failed(j, step.what)
    BY FreshStep
  <2> QED
    BY <2>1, FailedBy DEF Failed
<1>3. CASE step.do = "write"
  <2>1. FeedersOf(s, step.path) = {step.what}
    BY <1>0, <1>3, FeedersOfWritten
  <2>2. k.files # j.files <=> k.failures = j.failures
    BY <1>3 DEF Effect
  <2> QED
    BY <1>0, <1>1, <1>2, <1>3, <2>1, <2>2 DEF Settled, Feeds
<1>4. CASE step.do = "fixed"
  <2>1. FeedersOf(s, step.path) = {}
    BY <1>0, <1>4, FeedersOfFixed
  <2>2. k.files # j.files
    BY <1>4 DEF Effect
  <2> QED
    BY <1>0, <1>1, <2>1, <2>2 DEF Settled
<1>5. CASE step.do = "bundle"
  <2>1. /\ step.types \subseteq TokenTypes
        /\ \A type \in step.types : \E i \in DOMAIN s :
                /\ i < j.at /\ s[i].do = "token" /\ s[i].path = step.path
                /\ s[i].what = <<"honeytoken", type>>
        /\ \A label : label \in FeedersOf(s, step.path) <=>
                \E type \in step.types : label = <<"honeytoken", type>>
    BY <1>0, <1>5, FeedersOfBundled
  <2>2. ASSUME NEW type \in step.types
        PROVE  j.held[type] = None <=> Failed(j, <<"honeytoken", type>>)
    BY <2>1 DEF HeldTold
  <2>3. k.failures = j.failures
    BY <1>5 DEF Progress, Feeds
  <2>4. k.files # j.files <=> \A type \in step.types : j.held[type] # None
    BY <1>5 DEF Effect
  <2>5. ASSUME NEW label PROVE Failed(k, label) <=> Failed(j, label)
    BY <2>3 DEF Failed
  <2>6. (\E label \in FeedersOf(s, step.path) : Failed(k, label))
           <=> \E type \in step.types : Failed(k, <<"honeytoken", type>>)
    <3>1. ASSUME NEW label \in FeedersOf(s, step.path), Failed(k, label)
          PROVE  \E type \in step.types : Failed(k, <<"honeytoken", type>>)
      <4>1. PICK type \in step.types : label = <<"honeytoken", type>>
        BY <2>1
      <4> QED
        BY <3>1, <4>1
    <3>2. ASSUME NEW type \in step.types, Failed(k, <<"honeytoken", type>>)
          PROVE  \E label \in FeedersOf(s, step.path) : Failed(k, label)
      <4>1. <<"honeytoken", type>> \in FeedersOf(s, step.path)
        BY <2>1
      <4> QED
        BY <3>2, <4>1
    <3> QED
      BY <3>1, <3>2
  <2> HIDE DEF step, s
  <2>7. Delivered(k, step.path) <=> ~\E type \in step.types : Failed(k, <<"honeytoken", type>>)
    BY <1>1, <2>2, <2>4, <2>5
  <2> QED
    BY <1>0, <2>6, <2>7 DEF Settled, step, s
<1>6. step.do # "sheet"
  BY <1>0, KindsOfSteps
<1> QED
  BY <1>3, <1>4, <1>5, <1>6 DEF Makes

-----------------------------------------------------------------------------
(* The customer export.                                                    *)

Refusals(j) ==
    {n \in DOMAIN j.failures : j.failures[n] \in FeedersOf(StepsOf(j.request), Export)}
Refused(j) == Cardinality(Refusals(j))

(* Each row that was passed is in the export or lost one of its values.    *)
RowsTold(j) ==
    \A m \in 1 .. ExportRows :
        /\ j.at = 3 + 3 * m => j.exported + Refused(j) >= m - 1
        /\ j.at = 4 + 3 * m =>
            /\ j.exported + Refused(j) >= m - 1
            /\ j.held["ssn"] = None => j.exported + Refused(j) >= m
        /\ j.at = 5 + 3 * m =>
            /\ j.exported + Refused(j) >= m - 1
            /\ j.held["ssn"] = None \/ j.held["credit_card"] = None =>
                j.exported + Refused(j) >= m
SheetTold(j) ==
    /\ j.at >= 6 + 3 * ExportRows => j.exported + Refused(j) >= ExportRows
    /\ j.at > 6 + 3 * ExportRows => (Delivered(j, Export) <=> j.exported > 0)
ExportTold(j) == Exporting(StepsOf(j.request)) => RowsTold(j) /\ SheetTold(j)

LEMMA RefusedTyped ==
    ASSUME NEW j, JobOK(j)
    PROVE  IsFiniteSet(Refusals(j)) /\ Refused(j) \in Nat
<1>1. j.failures \in Seq(LabelsOf(j.request))
  BY JobFields
<1>2. IsFiniteSet(1..Len(j.failures)) /\ DOMAIN j.failures = 1..Len(j.failures)
  BY <1>1, FS_Interval
<1>3. IsFiniteSet(Refusals(j))
  BY <1>2, FS_Subset DEF Refusals
<1> QED
  BY <1>3, FS_CardinalityType DEF Refused

LEMMA RefusedBy ==
    ASSUME NEW j, NEW k, Progress(j, k)
    PROVE  /\ Refused(k) >= Refused(j)
           /\ k.failures # j.failures /\ StepsOf(j.request)[j.at].path = Export
                => Refused(k) = Refused(j) + 1
<1> DEFINE step == StepsOf(j.request)[j.at]
           feeders == FeedersOf(StepsOf(j.request), Export)
           last == Len(j.failures) + 1
<1>0. JobOK(j) /\ JobOK(k) /\ k.request = j.request /\ j.at \in DOMAIN StepsOf(j.request)
  BY DEF Progress
<1>1. IsFiniteSet(Refusals(j)) /\ Refused(j) \in Nat
  BY <1>0, RefusedTyped
<1>2. CASE k.failures = j.failures
  <2>1. Refused(k) = Refused(j)
    BY <1>0, <1>2 DEF Refused, Refusals
  <2> QED
    BY <1>1, <1>2, <2>1
<1>3. CASE k.failures # j.failures
  <2>1. Feeds(step) /\ k.failures = Append(j.failures, step.what)
    BY <1>3 DEF Progress
  <2>2. j.failures \in Seq(LabelsOf(j.request)) /\ step.what \in LabelsOf(j.request)
    <3>1. j.failures \in Seq(LabelsOf(j.request))
      BY <1>0, JobFields
    <3>2. step.what \in LabelsOf(j.request)
      BY <1>0 DEF LabelsOf
    <3> QED
      BY <3>1, <3>2
  <2>3. /\ k.failures[last] = step.what /\ last \notin DOMAIN j.failures
        /\ last \in DOMAIN k.failures
        /\ \A n \in DOMAIN j.failures : n \in DOMAIN k.failures /\ k.failures[n] = j.failures[n]
        /\ \A n \in DOMAIN k.failures : n \in DOMAIN j.failures \/ n = last
    <3> HIDE DEF step
    <3> QED
      BY <2>1, <2>2, AppendedTo
  <2>4. Refusals(k) = {n \in DOMAIN k.failures : k.failures[n] \in feeders}
    BY <1>0 DEF Refusals
  <2>5. Refusals(j) = {n \in DOMAIN j.failures : j.failures[n] \in feeders}
    BY DEF Refusals
  <2>f. step.path = Export => step.what \in feeders
    BY <1>0, <2>1, FeedersAre
  <2> HIDE DEF step, feeders, last
  <2>6. CASE step.what \in feeders
    <3>1. Refusals(k) = Refusals(j) \cup {last} /\ last \notin Refusals(j)
      BY <2>3, <2>4, <2>5, <2>6
    <3>2. Refused(k) = Refused(j) + 1
      BY <1>1, <3>1, FS_AddElement DEF Refused
    <3> QED
      BY <1>1, <3>2
  <2>7. CASE step.what \notin feeders
    <3>1. Refusals(k) = Refusals(j)
      BY <2>3, <2>4, <2>5, <2>7
    <3> QED
      BY <1>1, <2>f, <2>7, <3>1 DEF Refused, step
  <2> QED
    BY <2>6, <2>7
<1> QED
  BY <1>2, <1>3

(* Where the rows are.                                                     *)
LEMMA RowPlaces ==
    ASSUME NEW s, Exporting(s), NEW m \in 1..ExportRows
    PROVE  /\ s[3 + 3 * m].do = "token" /\ s[3 + 3 * m].path = Export
           /\ s[3 + 3 * m].what = <<"honeytoken", "ssn">>
           /\ s[4 + 3 * m].do = "token" /\ s[4 + 3 * m].path = Export
           /\ s[4 + 3 * m].what = <<"honeytoken", "credit_card">>
           /\ s[5 + 3 * m].do = "row" /\ s[5 + 3 * m].path = Export
           /\ s[5 + 3 * m].types = {"ssn", "credit_card"}
BY DEF Exporting, Token, Row

LEMMA RowsKept ==
    ASSUME NEW j, NEW k, Progress(j, k), Effect(j, k), Exporting(StepsOf(j.request)),
           RowsTold(j)
    PROVE  /\ RowsTold(k)
           /\ k.at = 6 + 3 * ExportRows => k.exported + Refused(k) >= ExportRows
<1> DEFINE s == StepsOf(j.request)
<1>0. /\ JobOK(j) /\ JobOK(k) /\ j.at \in Nat /\ k.at = j.at + 1 /\ j.at \in DOMAIN s
      /\ k.request = j.request
  BY ProgressTyped DEF Progress
<1>1. /\ j.exported \in Nat /\ k.exported \in Nat /\ Refused(j) \in Nat /\ Refused(k) \in Nat
  BY <1>0, JobFields, RefusedTyped
<1>2. ExportRows \in Nat \ {0} /\ Refused(k) >= Refused(j)
  BY BoundsAssumption, RefusedBy
<1>3. ASSUME NEW m \in 1..ExportRows, k.at = 4 + 3 * m
      PROVE  /\ k.exported + Refused(k) >= m - 1
             /\ k.held["ssn"] = None => k.exported + Refused(k) >= m
  <2>1. j.at = 3 + 3 * m
    BY <1>0, <1>3
  <2>2. s[j.at].do = "token" /\ s[j.at].path = Export /\ s[j.at].what = <<"honeytoken", "ssn">>
    BY <2>1, RowPlaces
  <2>3. k.exported = j.exported /\ (k.held["ssn"] = None <=> k.failures # j.failures)
    BY <2>2 DEF Effect, TokenTypes
  <2>4. j.exported + Refused(j) >= m - 1
    BY <2>1 DEF RowsTold
  <2>5. k.failures # j.failures => Refused(k) = Refused(j) + 1
    BY <2>2, RefusedBy
  <2> QED
    BY <1>1, <1>2, <2>3, <2>4, <2>5
<1>4. ASSUME NEW m \in 1..ExportRows, k.at = 5 + 3 * m
      PROVE  /\ k.exported + Refused(k) >= m - 1
             /\ k.held["ssn"] = None \/ k.held["credit_card"] = None =>
                  k.exported + Refused(k) >= m
  <2>1. j.at = 4 + 3 * m
    BY <1>0, <1>4
  <2>2. /\ s[j.at].do = "token" /\ s[j.at].path = Export
        /\ s[j.at].what = <<"honeytoken", "credit_card">>
    BY <2>1, RowPlaces
  <2>3. /\ k.exported = j.exported
        /\ (k.held["credit_card"] = None <=> k.failures # j.failures)
    BY <2>2 DEF Effect, TokenTypes
  <2>n. k.held["ssn"] = j.held["ssn"]
    <3>1. s[j.at].what # <<"honeytoken", "ssn">>
      BY <2>2
    <3> QED
      BY <2>2, <3>1 DEF Effect, TokenTypes
  <2>4. /\ j.exported + Refused(j) >= m - 1
        /\ j.held["ssn"] = None => j.exported + Refused(j) >= m
    BY <2>1 DEF RowsTold
  <2>5. k.failures # j.failures => Refused(k) = Refused(j) + 1
    BY <2>2, RefusedBy
  <2> QED
    BY <1>1, <1>2, <2>3, <2>n, <2>4, <2>5
<1>5. ASSUME NEW m \in 1..ExportRows, k.at = 6 + 3 * m
      PROVE  k.exported + Refused(k) >= m
  <2>1. j.at = 5 + 3 * m
    BY <1>0, <1>5
  <2>2. s[j.at].do = "row"
    BY <2>1, RowPlaces
  <2>3. k.exported = IF None \in {j.held["ssn"], j.held["credit_card"]}
                     THEN j.exported ELSE j.exported + 1
    BY <2>2 DEF Effect
  <2>4. /\ j.exported + Refused(j) >= m - 1
        /\ j.held["ssn"] = None \/ j.held["credit_card"] = None =>
             j.exported + Refused(j) >= m
    BY <2>1 DEF RowsTold
  <2>5. CASE j.held["ssn"] = None \/ j.held["credit_card"] = None
    <3>1. k.exported = j.exported
      BY <2>3, <2>5
    <3> QED
      BY <1>1, <1>2, <2>4, <2>5, <3>1
  <2>6. CASE ~(j.held["ssn"] = None \/ j.held["credit_card"] = None)
    <3>1. k.exported = j.exported + 1
      BY <2>3, <2>6
    <3> QED
      BY <1>1, <1>2, <2>4, <3>1
  <2> QED
    BY <2>5, <2>6
<1>6. ASSUME NEW m \in 1..ExportRows, k.at = 3 + 3 * m
      PROVE  k.exported + Refused(k) >= m - 1
  <2>1. CASE m = 1
    BY <1>1, <2>1
  <2>2. CASE m # 1
    <3>1. m - 1 \in 1..ExportRows /\ k.at = 6 + 3 * (m - 1)
      BY <1>2, <1>6, <2>2
    <3> QED
      BY <1>5, <3>1
  <2> QED
    BY <2>1, <2>2
<1>7. k.at = 6 + 3 * ExportRows => k.exported + Refused(k) >= ExportRows
  <2>1. ExportRows \in 1..ExportRows
    BY <1>2
  <2> QED
    BY <1>5, <2>1
<1> QED
  BY <1>3, <1>4, <1>6, <1>7 DEF RowsTold

LEMMA SheetKept ==
    ASSUME NEW j, NEW k, Progress(j, k), Effect(j, k), Exporting(StepsOf(j.request)),
           MadeInOrder(j), RowsTold(j), SheetTold(j)
    PROVE  SheetTold(k)
<1> DEFINE s == StepsOf(j.request)
<1>0. /\ JobOK(j) /\ JobOK(k) /\ j.at \in Nat /\ k.at = j.at + 1 /\ j.at \in DOMAIN s
      /\ k.request = j.request /\ WellPlanned(s)
  BY ProgressTyped DEF Progress
<1>1. /\ j.exported \in Nat /\ k.exported \in Nat /\ Refused(j) \in Nat /\ Refused(k) \in Nat
  BY <1>0, JobFields, RefusedTyped
<1>2. ExportRows \in Nat \ {0} /\ Refused(k) >= Refused(j)
  BY BoundsAssumption, RefusedBy
<1>3. j.at <= 6 + 3 * ExportRows
  <2>1. DOMAIN s = 1..Len(s) /\ Len(s) = 6 + 3 * ExportRows
    BY <1>0, StepsTyped DEF Exporting
  <2> QED
    BY <1>0, <1>2, <2>1
<1>4. k.at = 6 + 3 * ExportRows => k.exported + Refused(k) >= ExportRows
  BY RowsKept
<1>5. CASE j.at = 6 + 3 * ExportRows
  <2>1. s[j.at].do = "sheet" /\ s[j.at].path = Export /\ Makes(s[j.at])
    BY <1>5 DEF Exporting, Sheet, Makes
  <2>2. k.exported = j.exported /\ (k.files # j.files <=> j.exported # 0)
    BY <2>1 DEF Effect
  <2>3. ~Delivered(j, Export)
    <3> SUFFICES ASSUME Delivered(j, Export) PROVE FALSE
      OBVIOUS
    <3>1. PICK i \in DOMAIN s : i < j.at /\ Makes(s[i]) /\ s[i].path = Export
      BY DEF Delivered, MadeInOrder
    <3> QED
      BY <1>0, <2>1, <3>1 DEF WellPlanned, Apart
  <2>4. Delivered(k, Export) <=> k.files # j.files
    BY <2>1, <2>3, DeliveredBy DEF Delivered
  <2>5. j.exported + Refused(j) >= ExportRows
    BY <1>2, <1>5 DEF SheetTold
  <2> QED
    BY <1>0, <1>1, <1>2, <1>5, <2>2, <2>4, <2>5 DEF SheetTold
<1>6. CASE j.at # 6 + 3 * ExportRows
  <2>1. j.at < 6 + 3 * ExportRows
    BY <1>0, <1>2, <1>3, <1>6
  <2>2. k.at <= 6 + 3 * ExportRows
    BY <1>0, <1>2, <2>1
  <2> QED
    BY <1>0, <1>2, <1>4, <2>2 DEF SheetTold
<1> QED
  BY <1>5, <1>6

-----------------------------------------------------------------------------
(* All of it, and the ways a step goes.                                    *)

ProfileOK(j) ==
    /\ MadeInOrder(j) /\ FailedInOrder(j) /\ FilesTold(j) /\ HeldTold(j)
    /\ ValuesKept(j) /\ ExportTold(j)
BuildOK(j) == JobOK(j) /\ (j.request.route # "generate" => ProfileOK(j))

LEMMA BuildKept ==
    ASSUME NEW j, NEW k, Progress(j, k), Effect(j, k), BuildOK(j), ValuesKept(k)
    PROVE  BuildOK(k)
<1>0. j.request.route # "generate" /\ JobOK(k) /\ k.request = j.request
  BY DEF Progress
<1>1. ProfileOK(j)
  BY <1>0 DEF BuildOK
<1>2. MadeInOrder(k) /\ FailedInOrder(k)
  BY <1>1, MadeKept, FailuresKept DEF ProfileOK
<1>3. FilesTold(k)
  <2>1. LET step == StepsOf(j.request)[j.at] IN
        Makes(step) /\ step.path # Export => Settled(k, step.path)
    BY <1>1, StepSettled DEF ProfileOK
  <2> QED
    BY <1>1, <2>1, FilesKept DEF ProfileOK
<1>4. HeldTold(k)
  BY <1>1, HeldKept DEF ProfileOK, Effect
<1>5. ExportTold(k)
  BY <1>0, <1>1, RowsKept, SheetKept DEF ProfileOK, ExportTold
<1> QED
  BY <1>0, <1>2, <1>3, <1>4, <1>5 DEF BuildOK, ProfileOK

LEMMA NewBuildOK ==
    ASSUME NEW request \in Requests
    PROVE  BuildOK(NewJob(request))
<1> DEFINE j == NewJob(request)
<1>1. /\ j.request = request /\ j.at = 1 /\ j.files = <<>> /\ j.failures = <<>>
      /\ j.held = [type \in TokenTypes |-> None] /\ j.export = {} /\ j.exported = 0
  BY DEF NewJob
<1>2. JobOK(j)
  BY NewJobOK
<1> HIDE DEF j
<1>3. ASSUME request.route # "generate" PROVE ProfileOK(j)
  <2>0. WellPlanned(StepsOf(request))
    BY <1>3, RequestPlanned
  <2>1. \A n : n \notin DOMAIN j.files /\ n \notin DOMAIN j.failures
    BY <1>1
  <2>2. \A i \in DOMAIN StepsOf(request) : ~(i < 1)
    BY <2>0, StepsTyped
  <2>3. MadeInOrder(j) /\ FailedInOrder(j) /\ FilesTold(j) /\ HeldTold(j)
    BY <1>1, <2>1, <2>2 DEF MadeInOrder, FailedInOrder, FilesTold, HeldTold
  <2>4. ValuesKept(j)
    BY <1>1, <2>1 DEF ValuesKept
  <2>5. RowsTold(j) /\ SheetTold(j)
    <3>1. ExportRows \in Nat \ {0}
      BY BoundsAssumption
    <3> QED
      BY <1>1, <3>1 DEF RowsTold, SheetTold
  <2> QED
    BY <1>1, <2>3, <2>4, <2>5 DEF ProfileOK, ExportTold
<1>4. BuildOK(j)
  BY <1>1, <1>2, <1>3 DEF BuildOK
<1> QED
  BY <1>4 DEF j

(* The step at hand.                                                       *)
LEMMA AtStep ==
    ASSUME NEW j, BuildOK(j), j.at <= Len(StepsOf(j.request))
    PROVE  /\ j.at \in DOMAIN StepsOf(j.request) /\ j \in Jobs(j.request)
           /\ j.at \in Nat /\ j.at + 1 \in 1 .. Len(StepsOf(j.request)) + 1
           /\ j.request \in Requests
           /\ StepsOf(j.request)[j.at].path \in PathsOf(j.request)
           /\ StepsOf(j.request)[j.at].what \in LabelsOf(j.request)
           /\ j.request.route = "generate" => StepsOf(j.request)[j.at].do = "write"
           /\ j.request.route # "generate" => WellPlanned(StepsOf(j.request)) /\ ProfileOK(j)
<1>1. j.request \in Requests /\ j \in Jobs(j.request) /\ j.at \in Nat \ {0}
  BY JobFields DEF BuildOK, JobOK
<1>2. DOMAIN StepsOf(j.request) = 1..Len(StepsOf(j.request)) /\ Len(StepsOf(j.request)) \in Nat
  BY <1>1, RequestPlanned
<1>3. j.at \in DOMAIN StepsOf(j.request) /\ j.at + 1 \in 1 .. Len(StepsOf(j.request)) + 1
  BY <1>1, <1>2
<1>4. j.request.route = "generate" => StepsOf(j.request)[j.at].do = "write"
  <2>0. j.request.route = "generate" => Len(StepsOf(j.request)) = 1
    BY <1>1, RequestPlanned
  <2>1. ASSUME j.request.route = "generate" PROVE j.at = 1
    <3>1. j.at <= 1 /\ j.at \in Nat /\ j.at # 0
      BY <1>1, <2>0, <2>1
    <3> QED
      BY <3>1
  <2> QED
    BY <1>1, <2>1, RequestPlanned
<1> QED
  BY <1>1, <1>3, <1>4, RequestPlanned DEF PathsOf, LabelsOf, BuildOK

LEMMA RetriedOK ==
    ASSUME NEW j, BuildOK(j), NEW calls \in 0 .. LlmRetries - 1, NEW tries \in 0 .. MaxRetries,
           NEW k, k = [j EXCEPT !.calls = calls, !.tries = tries]
    PROVE  BuildOK(k) /\ k.request = j.request
<1>1. j \in Jobs(j.request)
  BY DEF BuildOK, JobOK
<1>2. k \in Jobs(j.request)
  BY <1>1 DEF Jobs
<1>3. /\ k.request = j.request /\ k.at = j.at /\ k.held = j.held /\ k.export = j.export
      /\ k.exported = j.exported /\ k.files = j.files /\ k.embedded = j.embedded
      /\ k.failures = j.failures
  BY <1>1 DEF Jobs
<1>4. JobOK(k)
  BY <1>2, <1>3 DEF JobOK, RowsPassed, BuildOK
<1>5. ProfileOK(j) => ProfileOK(k)
  <2>1. \A path : Delivered(k, path) <=> Delivered(j, path)
    BY <1>3 DEF Delivered
  <2>2. \A label : Failed(k, label) <=> Failed(j, label)
    BY <1>3 DEF Failed
  <2>3. Refused(k) = Refused(j)
    BY <1>3 DEF Refused, Refusals
  <2>4. MadeInOrder(j) => MadeInOrder(k)
    BY <1>3 DEF MadeInOrder
  <2>5. FailedInOrder(j) => FailedInOrder(k)
    BY <1>3 DEF FailedInOrder
  <2>6. FilesTold(j) => FilesTold(k)
    BY <1>3, <2>1, <2>2 DEF FilesTold, Settled
  <2>7. HeldTold(j) => HeldTold(k)
    BY <1>3, <2>2 DEF HeldTold
  <2>8. ValuesKept(j) => ValuesKept(k)
    BY <1>3 DEF ValuesKept
  <2>9. ExportTold(j) => ExportTold(k)
    BY <1>3, <2>1, <2>3 DEF ExportTold, RowsTold, SheetTold
  <2> QED
    BY <2>4, <2>5, <2>6, <2>7, <2>8, <2>9 DEF ProfileOK
<1> QED
  BY <1>3, <1>4, <1>5 DEF BuildOK

LEMMA AdvancedOK ==
    ASSUME NEW j, JobOK(j), NEW k, k \in Jobs(j.request), k.request = j.request,
           k.at = j.at + 1, j.at <= Len(StepsOf(j.request)), k.exported = j.exported
    PROVE  JobOK(k)
<1>1. j.at \in Nat \ {0} /\ j.exported \in Nat /\ j.request \in Requests
  BY JobFields
<1>2. Len(StepsOf(j.request)) \in Nat
  BY <1>1, RequestPlanned
<1>3. k.at \in 1 .. Len(StepsOf(j.request)) + 1
  BY <1>1, <1>2
<1>4. RowsPassed(j) => RowsPassed(k)
  BY <1>1 DEF RowsPassed
<1> QED
  BY <1>1, <1>3, <1>4 DEF JobOK

(* _gen: the step failed, and the profile goes on.                         *)
LEMMA FailureBuilds ==
    ASSUME NEW j, BuildOK(j), j.request.route # "generate", j.at <= Len(StepsOf(j.request)),
           StepsOf(j.request)[j.at].do \in {"write", "token"},
           NEW i, i = IF StepsOf(j.request)[j.at].do = "write" THEN j
                      ELSE [j EXCEPT !.held[StepsOf(j.request)[j.at].what[2]] = None],
           NEW k, k = Advance([i EXCEPT !.failures = Append(@, StepsOf(j.request)[j.at].what)])
    PROVE  BuildOK(k) /\ k.request = j.request /\ k.embedded = j.embedded
<1> DEFINE step == StepsOf(j.request)[j.at]
<1>0. /\ j.at \in DOMAIN StepsOf(j.request) /\ j \in Jobs(j.request) /\ j.request \in Requests
      /\ step.what \in LabelsOf(j.request) /\ WellPlanned(StepsOf(j.request)) /\ ProfileOK(j)
  BY AtStep
<1>1. /\ i \in Jobs(j.request)
      /\ i.request = j.request /\ i.at = j.at
      /\ i.held = IF step.do = "write" THEN j.held ELSE [j.held EXCEPT ![step.what[2]] = None]
      /\ i.export = j.export /\ i.exported = j.exported /\ i.files = j.files
      /\ i.embedded = j.embedded /\ i.failures = j.failures
  <2>1. CASE step.do = "write"
    BY <1>0, <2>1
  <2>2. CASE step.do # "write"
    <3> DEFINE own == step.what[2]
    <3>1. i = [j EXCEPT !.held[own] = None] /\ None \in Values \cup {None}
      BY <2>2
    <3> HIDE DEF own
    <3>2. /\ i \in Jobs(j.request) /\ i.request = j.request /\ i.at = j.at
          /\ i.held = [j.held EXCEPT ![own] = None]
          /\ i.export = j.export /\ i.exported = j.exported /\ i.files = j.files
          /\ i.embedded = j.embedded /\ i.failures = j.failures
      <4>1. [j.held EXCEPT ![own] = None] \in [TokenTypes -> Values \cup {None}]
        BY <1>0 DEF Jobs
      <4> QED
        BY <1>0, <3>1, <4>1 DEF Jobs
    <3> QED
      BY <2>2, <3>2 DEF own
  <2> QED
    BY <2>1, <2>2
<1> DEFINE f == [i EXCEPT !.failures = Append(@, step.what)]
<1>2. /\ f \in Jobs(j.request)
      /\ f.request = j.request /\ f.at = j.at /\ f.held = i.held
      /\ f.export = j.export /\ f.exported = j.exported /\ f.files = j.files
      /\ f.embedded = j.embedded /\ f.failures = Append(j.failures, step.what)
  <2> DEFINE label == step.what
  <2>1. f = [i EXCEPT !.failures = Append(@, label)] /\ label \in LabelsOf(j.request)
    BY <1>0
  <2> HIDE DEF label, f
  <2>2. i \in Jobs(j.request)
    BY <1>1
  <2>3. /\ f \in Jobs(j.request) /\ f.request = i.request /\ f.at = i.at /\ f.held = i.held
        /\ f.export = i.export /\ f.exported = i.exported /\ f.files = i.files
        /\ f.embedded = i.embedded /\ f.failures = Append(i.failures, label)
    <3>1. Append(i.failures, label) \in Seq(LabelsOf(j.request))
      <4>1. i.failures \in Seq(LabelsOf(j.request))
        BY <2>2 DEF Jobs
      <4> QED
        BY <2>1, <4>1, AppendProperties
    <3> QED
      BY <2>1, <2>2, <3>1 DEF Jobs
  <2> QED
    BY <1>1, <2>3 DEF label
<1>3. /\ k \in Jobs(j.request)
      /\ k.request = j.request /\ k.at = j.at + 1 /\ k.held = i.held
      /\ k.export = j.export /\ k.exported = j.exported /\ k.files = j.files
      /\ k.embedded = j.embedded /\ k.failures = Append(j.failures, step.what)
  <2> HIDE DEF f
  <2>1. k = Advance(f)
    BY DEF f
  <2>2. f \in Jobs(j.request)
    BY <1>2
  <2>3. /\ Advance(f) \in Jobs(j.request)
        /\ Advance(f).request = f.request /\ Advance(f).at = f.at + 1
        /\ Advance(f).held = f.held /\ Advance(f).export = f.export
        /\ Advance(f).exported = f.exported /\ Advance(f).files = f.files
        /\ Advance(f).embedded = f.embedded /\ Advance(f).failures = f.failures
    BY <2>2, AdvanceFields, Zenon
  <2> QED
    BY <1>2, <2>1, <2>3
<1> HIDE DEF f
<1>4. JobOK(k) /\ JobOK(j)
  BY <1>3, AdvancedOK DEF BuildOK
<1>5. Progress(j, k)
  BY <1>0, <1>3, <1>4 DEF Progress, Feeds
<1>6. k.failures # j.failures
  <2>1. j.failures \in Seq(LabelsOf(j.request))
    BY <1>4, JobFields
  <2>2. Len(Append(j.failures, step.what)) = Len(j.failures) + 1 /\ Len(j.failures) \in Nat
    BY <1>0, <2>1, AppendedTo
  <2>3. k.failures = Append(j.failures, step.what)
    BY <1>3
  <2> HIDE DEF step
  <2>4. Len(k.failures) = Len(j.failures) + 1
    BY <2>2, <2>3, Zenon
  <2>5. Len(k.failures) # Len(j.failures)
    BY <2>2, <2>4
  <2> QED
    BY <2>5, Zenon
<1>7. j.held \in [TokenTypes -> Values \cup {None}]
  BY <1>4, JobFields
<1>8. step.do = "token" => \A type \in TokenTypes :
        /\ step.what # <<"honeytoken", type>> => k.held[type] = j.held[type]
        /\ step.what = <<"honeytoken", type>> => k.held[type] = None
  <2> SUFFICES ASSUME step.do = "token", NEW type \in TokenTypes
               PROVE  /\ step.what # <<"honeytoken", type>> => k.held[type] = j.held[type]
                      /\ step.what = <<"honeytoken", type>> => k.held[type] = None
    OBVIOUS
  <2>1. PICK own \in TokenTypes : step.what = <<"honeytoken", own>>
    BY <1>0, TokenLabels
  <2>2. step.what[2] = own
    BY <2>1
  <2>3. k.held = [j.held EXCEPT ![own] = None]
    BY <1>1, <1>3, <2>2
  <2>4. k.held[type] = IF type = own THEN None ELSE j.held[type]
    BY <1>7, <2>3
  <2> QED
    BY <2>1, <2>4
<1>9. Effect(j, k)
  <2>1. step.do = "write" => k.held = j.held
    BY <1>1, <1>3
  <2> QED
    BY <1>3, <1>6, <1>8, <2>1 DEF Effect
<1>10. ValuesKept(k)
  <2>1. \A type \in TokenTypes : k.held[type] = None \/ k.held[type] = j.held[type]
    <3>1. CASE step.do = "write"
      BY <1>1, <1>3, <3>1
    <3>2. CASE step.do = "token"
      BY <1>8, <3>2
    <3> QED
      BY <3>1, <3>2
  <2> QED
    BY <1>0, <1>3, <2>1 DEF ProfileOK, ValuesKept
<1> QED
  BY <1>3, <1>5, <1>9, <1>10, BuildKept

(* register_honeytoken: the value is there and embedded.                   *)
LEMMA TokenBuilds ==
    ASSUME NEW j, BuildOK(j), j.at <= Len(StepsOf(j.request)),
           StepsOf(j.request)[j.at].do = "token", NEW value \in Values,
           NEW k, k = Advance([j EXCEPT !.held[StepsOf(j.request)[j.at].what[2]] = value,
                                        !.embedded = @ \cup {value}])
    PROVE  BuildOK(k) /\ k.request = j.request /\ k.embedded = j.embedded \cup {value}
<1> DEFINE step == StepsOf(j.request)[j.at]
<1>g. j.request.route # "generate"
  BY AtStep
<1>0. /\ j.at \in DOMAIN StepsOf(j.request) /\ j \in Jobs(j.request) /\ j.request \in Requests
      /\ WellPlanned(StepsOf(j.request)) /\ ProfileOK(j)
  BY <1>g, AtStep
<1> DEFINE f == [j EXCEPT !.held[step.what[2]] = value, !.embedded = @ \cup {value}]
<1>2. /\ f \in Jobs(j.request)
      /\ f.request = j.request /\ f.at = j.at /\ f.held = [j.held EXCEPT ![step.what[2]] = value]
      /\ f.export = j.export /\ f.exported = j.exported /\ f.files = j.files
      /\ f.embedded = j.embedded \cup {value} /\ f.failures = j.failures
  <2> DEFINE own == step.what[2]
  <2>1. f = [j EXCEPT !.held[own] = value, !.embedded = @ \cup {value}]
    OBVIOUS
  <2> HIDE DEF own, f
  <2>2. /\ f \in Jobs(j.request) /\ f.request = j.request /\ f.at = j.at
        /\ f.held = [j.held EXCEPT ![own] = value]
        /\ f.export = j.export /\ f.exported = j.exported /\ f.files = j.files
        /\ f.embedded = j.embedded \cup {value} /\ f.failures = j.failures
    <3>1. j \in Jobs(j.request)
      BY <1>0
    <3>2. [j.held EXCEPT ![own] = value] \in [TokenTypes -> Values \cup {None}]
      BY <3>1 DEF Jobs
    <3>3. j.embedded \cup {value} \in SUBSET Values
      BY <3>1 DEF Jobs
    <3> QED
      BY <2>1, <3>1, <3>2, <3>3 DEF Jobs
  <2> QED
    BY <2>2 DEF own
<1>3. /\ k \in Jobs(j.request)
      /\ k.request = j.request /\ k.at = j.at + 1
      /\ k.held = [j.held EXCEPT ![step.what[2]] = value]
      /\ k.export = j.export /\ k.exported = j.exported /\ k.files = j.files
      /\ k.embedded = j.embedded \cup {value} /\ k.failures = j.failures
  <2> HIDE DEF f
  <2>1. k = Advance(f)
    BY DEF f
  <2>2. f \in Jobs(j.request)
    BY <1>2
  <2>3. /\ Advance(f) \in Jobs(j.request)
        /\ Advance(f).request = f.request /\ Advance(f).at = f.at + 1
        /\ Advance(f).held = f.held /\ Advance(f).export = f.export
        /\ Advance(f).exported = f.exported /\ Advance(f).files = f.files
        /\ Advance(f).embedded = f.embedded /\ Advance(f).failures = f.failures
    BY <2>2, AdvanceFields, Zenon
  <2> QED
    BY <1>2, <2>1, <2>3
<1> HIDE DEF f
<1>4. JobOK(k) /\ JobOK(j)
  BY <1>3, AdvancedOK DEF BuildOK
<1>5. Progress(j, k)
  BY <1>g, <1>0, <1>3, <1>4 DEF Progress
<1>7. j.held \in [TokenTypes -> Values \cup {None}]
  BY <1>4, JobFields
<1>8. \A type \in TokenTypes :
        /\ step.what # <<"honeytoken", type>> => k.held[type] = j.held[type]
        /\ step.what = <<"honeytoken", type>> => k.held[type] = value
  <2> SUFFICES ASSUME NEW type \in TokenTypes
               PROVE  /\ step.what # <<"honeytoken", type>> => k.held[type] = j.held[type]
                      /\ step.what = <<"honeytoken", type>> => k.held[type] = value
    OBVIOUS
  <2>1. PICK own \in TokenTypes : step.what = <<"honeytoken", own>>
    BY <1>0, TokenLabels
  <2>2. step.what[2] = own
    BY <2>1
  <2>3. k.held = [j.held EXCEPT ![own] = value]
    BY <1>3, <2>2
  <2>4. k.held[type] = IF type = own THEN value ELSE j.held[type]
    BY <1>7, <2>3
  <2> QED
    BY <2>1, <2>4
<1>9. Effect(j, k)
  <2>1. value # None
    BY RequestAssumption
  <2> QED
    BY <1>3, <1>8, <2>1 DEF Effect
<1>10. ValuesKept(k)
  <2>1. \A type \in TokenTypes : k.held[type] = value \/ k.held[type] = j.held[type]
    BY <1>8
  <2> QED
    BY <1>0, <1>3, <2>1 DEF ProfileOK, ValuesKept
<1> QED
  BY <1>3, <1>5, <1>9, <1>10, BuildKept

(* A file of the step at hand.                                             *)
(* The step may add a file with these values, and adds it.                 *)
MayFile(j, values) ==
    LET step == StepsOf(j.request)[j.at] IN
    /\ j.request.route # "generate" /\ j.at <= Len(StepsOf(j.request)) /\ Makes(step)
    /\ values \in SUBSET Values /\ values \subseteq j.embedded
    /\ step.do = "bundle" => None \notin {j.held[type] : type \in step.types}
    /\ step.do = "sheet" => j.exported # 0

Filed(j, text, values) ==
    Advance([j EXCEPT !.files =
                Append(@, File(StepsOf(j.request)[j.at].path, text, values))])

LEMMA FileBuilds ==
    ASSUME NEW j, BuildOK(j), NEW values, MayFile(j, values),
           NEW text \in Seq(CleanLines), NEW k, k = Filed(j, text, values)
    PROVE  BuildOK(k) /\ k.request = j.request /\ k.embedded = j.embedded
<1>a. /\ j.request.route # "generate" /\ j.at <= Len(StepsOf(j.request))
      /\ Makes(StepsOf(j.request)[j.at])
      /\ values \in SUBSET Values /\ values \subseteq j.embedded
      /\ StepsOf(j.request)[j.at].do = "bundle" =>
            None \notin {j.held[type] : type \in StepsOf(j.request)[j.at].types}
      /\ StepsOf(j.request)[j.at].do = "sheet" => j.exported # 0
  BY DEF MayFile
<1>b. k = Advance([j EXCEPT !.files =
                Append(@, File(StepsOf(j.request)[j.at].path, text, values))])
  BY DEF Filed
<1> USE <1>a, <1>b
<1> DEFINE step == StepsOf(j.request)[j.at]
           file == File(step.path, text, values)
<1>0. /\ j.at \in DOMAIN StepsOf(j.request) /\ j \in Jobs(j.request) /\ j.request \in Requests
      /\ step.path \in PathsOf(j.request) /\ WellPlanned(StepsOf(j.request)) /\ ProfileOK(j)
  BY AtStep
<1>1. file \in FilesOf(j.request) /\ file.path = step.path /\ file.values = values
  BY <1>0 DEF FilesOf, File
<1> HIDE DEF file
<1> DEFINE f == [j EXCEPT !.files = Append(@, file)]
<1>2. /\ f \in Jobs(j.request)
      /\ f.request = j.request /\ f.at = j.at /\ f.held = j.held
      /\ f.export = j.export /\ f.exported = j.exported /\ f.files = Append(j.files, file)
      /\ f.embedded = j.embedded /\ f.failures = j.failures
  <2>1. f = [j EXCEPT !.files = Append(@, file)]
    OBVIOUS
  <2> HIDE DEF f
  <2> QED
    <3>1. j \in Jobs(j.request)
      BY <1>0
    <3>2. Append(j.files, file) \in Seq(FilesOf(j.request))
      <4>1. j.files \in Seq(FilesOf(j.request))
        BY <3>1 DEF Jobs
      <4> QED
        BY <1>1, <4>1, AppendProperties
    <3> QED
      BY <2>1, <3>1, <3>2 DEF Jobs
<1>3. /\ k \in Jobs(j.request)
      /\ k.request = j.request /\ k.at = j.at + 1 /\ k.held = j.held
      /\ k.export = j.export /\ k.exported = j.exported /\ k.files = Append(j.files, file)
      /\ k.embedded = j.embedded /\ k.failures = j.failures
  <2> HIDE DEF f
  <2>1. k = Advance(f)
    BY DEF f, file
  <2>2. f \in Jobs(j.request)
    BY <1>2
  <2>3. /\ Advance(f) \in Jobs(j.request)
        /\ Advance(f).request = f.request /\ Advance(f).at = f.at + 1
        /\ Advance(f).held = f.held /\ Advance(f).export = f.export
        /\ Advance(f).exported = f.exported /\ Advance(f).files = f.files
        /\ Advance(f).embedded = f.embedded /\ Advance(f).failures = f.failures
    BY <2>2, AdvanceFields, Zenon
  <2> QED
    BY <1>2, <2>1, <2>3
<1> HIDE DEF f
<1>4. JobOK(k) /\ JobOK(j)
  BY <1>3, AdvancedOK DEF BuildOK
<1>5. Progress(j, k)
  BY <1>0, <1>1, <1>3, <1>4 DEF Progress
<1>6. j.files \in Seq(FilesOf(j.request))
  BY <1>4, JobFields
<1>7. k.files # j.files
  <2>1. Len(Append(j.files, file)) = Len(j.files) + 1 /\ Len(j.files) \in Nat
    BY <1>1, <1>6, AppendedTo
  <2> QED
    BY <1>3, <2>1
<1>9. Effect(j, k)
  <2>1. step.do \in {"write", "bundle", "sheet", "fixed"}
    BY DEF Makes
  <2> QED
    BY <1>3, <1>7, <2>1 DEF Effect
<1>10. ValuesKept(k)
  <2>1. \A n \in DOMAIN k.files : k.files[n].values \subseteq j.embedded
    <3>1. \A n \in DOMAIN j.files : j.files[n].values \subseteq j.embedded
      BY <1>0 DEF ProfileOK, ValuesKept
    <3>2. \A n \in DOMAIN k.files :
            (n \in DOMAIN j.files /\ k.files[n] = j.files[n]) \/ k.files[n] = file
      <4>1. k.files = Append(j.files, file)
        BY <1>3
      <4>2. /\ Append(j.files, file)[Len(j.files) + 1] = file
            /\ \A n \in DOMAIN j.files : Append(j.files, file)[n] = j.files[n]
            /\ \A n \in DOMAIN Append(j.files, file) : n \in DOMAIN j.files \/ n = Len(j.files) + 1
        BY <1>1, <1>6, AppendedTo
      <4> QED
        BY <4>1, <4>2
    <3> QED
      BY <1>1, <3>1, <3>2
  <2> QED
    BY <1>0, <1>3, <2>1 DEF ProfileOK, ValuesKept
<1> QED
  BY <1>3, <1>5, <1>9, <1>10, BuildKept

(* A bundle, a row or a sheet that cannot be made is passed.               *)
LEMMA PassedBuilds ==
    ASSUME NEW j, BuildOK(j), j.request.route # "generate", j.at <= Len(StepsOf(j.request)),
           LET step == StepsOf(j.request)[j.at] IN
           /\ step.do \in {"bundle", "row", "sheet"}
           /\ step.do = "bundle" => None \in {j.held[type] : type \in step.types}
           /\ step.do = "row" => None \in {j.held["ssn"], j.held["credit_card"]}
           /\ step.do = "sheet" => j.exported = 0,
           NEW k, k = Advance(j)
    PROVE  BuildOK(k) /\ k.request = j.request /\ k.embedded = j.embedded
<1>0. /\ j.at \in DOMAIN StepsOf(j.request) /\ j \in Jobs(j.request) /\ ProfileOK(j)
  BY AtStep
<1>1. /\ Advance(j) \in Jobs(j.request)
      /\ Advance(j).request = j.request /\ Advance(j).at = j.at + 1
      /\ Advance(j).held = j.held /\ Advance(j).export = j.export
      /\ Advance(j).exported = j.exported /\ Advance(j).files = j.files
      /\ Advance(j).embedded = j.embedded /\ Advance(j).failures = j.failures
  BY <1>0, AdvanceFields, Zenon
<1>2. JobOK(k) /\ JobOK(j)
  BY <1>1, AdvancedOK DEF BuildOK
<1>3. Progress(j, k)
  BY <1>0, <1>1, <1>2 DEF Progress
<1>4. Effect(j, k)
  BY <1>1 DEF Effect
<1>5. ValuesKept(k)
  BY <1>0, <1>1 DEF ProfileOK, ValuesKept
<1> QED
  BY <1>1, <1>3, <1>4, <1>5, BuildKept

LEMMA ByThrees ==
    ASSUME NEW n \in Nat, NEW i \in Nat, 5 < i, i < 6 + 3 * n
    PROVE  \E m \in 1..n : i = 3 + 3 * m \/ i = 4 + 3 * m \/ i = 5 + 3 * m
<1> DEFINE m == (i - 3) \div 3
<1>1. m \in 1..n /\ (i = 3 + 3 * m \/ i = 4 + 3 * m \/ i = 5 + 3 * m)
  OBVIOUS
<1> QED
  BY <1>1

LEMMA RowIndex ==
    ASSUME NEW s, WellPlanned(s), NEW i \in DOMAIN s, s[i].do = "row"
    PROVE  /\ Exporting(s) /\ \E m \in 1..ExportRows : i = 5 + 3 * m
           /\ s[i].types = {"ssn", "credit_card"}
<1>1. Exporting(s) /\ i \notin 1..5 /\ DOMAIN s = 1..Len(s)
  BY KindsOfSteps, StepsTyped
<1>2. /\ i \in Nat /\ 5 < i /\ i <= 6 + 3 * ExportRows /\ ExportRows \in Nat
      /\ i # 6 + 3 * ExportRows
  BY <1>1, ExportPlaces, BoundsAssumption
<1>3. PICK m \in 1..ExportRows : i = 3 + 3 * m \/ i = 4 + 3 * m \/ i = 5 + 3 * m
  <2>1. i \in Nat /\ 5 < i /\ ExportRows \in Nat
    BY <1>2
  <2>2. i < 6 + 3 * ExportRows
    BY <1>2
  <2> QED
    BY <2>1, <2>2, ByThrees
<1>4. i = 5 + 3 * m
  BY <1>1, <1>3, RowPlaces
<1> QED
  BY <1>1, <1>3, <1>4, RowPlaces

(* A row of the export.                                                    *)
LEMMA RowBuilds ==
    ASSUME NEW j, BuildOK(j), j.request.route # "generate", j.at <= Len(StepsOf(j.request)),
           StepsOf(j.request)[j.at].do = "row",
           NEW values, values = {j.held["ssn"], j.held["credit_card"]}, None \notin values,
           NEW k, k = Advance([j EXCEPT !.export = @ \cup values, !.exported = @ + 1])
    PROVE  BuildOK(k) /\ k.request = j.request /\ k.embedded = j.embedded
<1> DEFINE s == StepsOf(j.request)
           f == [j EXCEPT !.export = @ \cup values, !.exported = @ + 1]
<1>0. /\ j.at \in DOMAIN s /\ j \in Jobs(j.request) /\ ProfileOK(j) /\ WellPlanned(s)
      /\ j.request \in Requests /\ j.at \in Nat /\ j.at + 1 \in 1 .. Len(s) + 1
  BY AtStep
<1>1. JobOK(j) /\ j.held \in [TokenTypes -> Values \cup {None}] /\ j.exported \in Nat
  BY JobFields DEF BuildOK
<1>2. values \subseteq Values /\ values \subseteq j.embedded
  <2>1. "ssn" \in TokenTypes /\ "credit_card" \in TokenTypes
    BY DEF TokenTypes
  <2>2. values \subseteq Values
    BY <1>1, <2>1
  <2>3. values \subseteq j.embedded
    BY <1>0, <2>1 DEF ProfileOK, ValuesKept
  <2> QED
    BY <2>2, <2>3
<1>3. /\ f \in Jobs(j.request) /\ f.request = j.request /\ f.at = j.at /\ f.held = j.held
      /\ f.export = j.export \cup values /\ f.exported = j.exported + 1
      /\ f.files = j.files /\ f.embedded = j.embedded /\ f.failures = j.failures
  <2>1. j \in Jobs(j.request)
    BY <1>0
  <2>2. j.export \cup values \in SUBSET Values /\ j.exported + 1 \in Nat
    BY <1>2, <2>1 DEF Jobs
  <2> QED
    BY <2>1, <2>2 DEF Jobs
<1>4. /\ k \in Jobs(j.request)
      /\ k.request = j.request /\ k.at = j.at + 1 /\ k.held = j.held
      /\ k.export = j.export \cup values /\ k.exported = j.exported + 1
      /\ k.files = j.files /\ k.embedded = j.embedded /\ k.failures = j.failures
  <2> HIDE DEF f
  <2>1. k = Advance(f)
    BY DEF f
  <2>2. f \in Jobs(j.request)
    BY <1>3
  <2>3. /\ Advance(f) \in Jobs(j.request)
        /\ Advance(f).request = f.request /\ Advance(f).at = f.at + 1
        /\ Advance(f).held = f.held /\ Advance(f).export = f.export
        /\ Advance(f).exported = f.exported /\ Advance(f).files = f.files
        /\ Advance(f).embedded = f.embedded /\ Advance(f).failures = f.failures
    BY <2>2, AdvanceFields, Zenon
  <2> QED
    BY <1>3, <2>1, <2>3
<1> HIDE DEF f
<1>5. RowsPassed(k)
  <2>1. PICK m \in 1..ExportRows : j.at = 5 + 3 * m
    BY <1>0, RowIndex
  <2>2. Exporting(s)
    BY <1>0, RowIndex
  <2>3. m \in Nat \ {0}
    BY <2>1, BoundsAssumption
  <2>4. j.exported = 0 \/ 3 * j.exported + 6 <= j.at
    BY <1>1 DEF JobOK, RowsPassed
  <2>5. 3 * (j.exported + 1) + 6 <= j.at + 1
    BY <1>1, <2>1, <2>3, <2>4
  <2> QED
    BY <1>4, <2>2, <2>5 DEF RowsPassed
<1>6. JobOK(k)
  BY <1>0, <1>4, <1>5 DEF JobOK
<1>7. Progress(j, k)
  BY <1>0, <1>1, <1>4, <1>6 DEF Progress
<1>8. Effect(j, k)
  BY <1>4 DEF Effect
<1>9. ValuesKept(k)
  BY <1>0, <1>2, <1>4 DEF ProfileOK, ValuesKept
<1> QED
  BY <1>4, <1>7, <1>8, <1>9, BuildKept

-----------------------------------------------------------------------------
(* Handing the files over: one that cannot be written goes to the end.     *)

LEMMA RotatedFiles ==
    ASSUME NEW S, NEW s \in Seq(S), NEW p \in 1..Len(s)
    PROVE  LET r == RemoveAt(s, p) \o << s[p] >> IN
           /\ r \in Seq(S) /\ Len(r) = Len(s)
           /\ \A n \in 1..Len(s) :
                r[n] = IF n < p THEN s[n] ELSE IF n = Len(s) THEN s[p] ELSE s[n + 1]
<1> DEFINE a == SubSeq(s, 1, p - 1)
           b == SubSeq(s, p + 1, Len(s))
           c == << s[p] >>
<1>0. Len(s) \in Nat /\ p \in Nat /\ 1 <= p /\ p <= Len(s)
  OBVIOUS
<1>1. /\ a \in Seq(S) /\ Len(a) = p - 1 /\ \A n \in 1..p - 1 : a[n] = s[n]
  <2>1. \A i \in 1..p - 1 : s[i] \in S
    OBVIOUS
  <2>2. /\ a \in Seq(S) /\ Len(a) = IF 1 <= p - 1 THEN (p - 1) - 1 + 1 ELSE 0
        /\ \A i \in 1 .. (p - 1) - 1 + 1 : a[i] = s[1 + i - 1]
    BY <1>0, <2>1, SubSeqProperties
  <2> HIDE DEF a
  <2> QED
    BY <1>0, <2>2
<1>2. /\ b \in Seq(S) /\ Len(b) = Len(s) - p
      /\ \A n \in 1..Len(s) - p : b[n] = s[p + n]
  <2>1. \A i \in p + 1..Len(s) : s[i] \in S
    BY <1>0
  <2>2. /\ b \in Seq(S) /\ Len(b) = IF p + 1 <= Len(s) THEN Len(s) - (p + 1) + 1 ELSE 0
        /\ \A i \in 1 .. Len(s) - (p + 1) + 1 : b[i] = s[(p + 1) + i - 1]
    BY <1>0, <2>1, SubSeqProperties
  <2> HIDE DEF b
  <2>3. ASSUME NEW n \in 1..Len(s) - p PROVE b[n] = s[p + n]
    <3>1. n \in 1 .. Len(s) - (p + 1) + 1 /\ (p + 1) + n - 1 = p + n
      BY <1>0
    <3> QED
      BY <2>2, <3>1
  <2> QED
    BY <1>0, <2>2, <2>3
<1>3. c \in Seq(S) /\ Len(c) = 1 /\ c[1] = s[p]
  <2>1. s[p] \in S
    OBVIOUS
  <2> QED
    BY <2>1
<1> HIDE DEF a, b, c
<1> DEFINE d == a \o b
<1>4. /\ d \in Seq(S) /\ Len(d) = Len(a) + Len(b)
      /\ \A n \in 1..Len(a) : d[n] = a[n]
      /\ \A n \in 1..Len(b) : d[Len(a) + n] = b[n]
  <2>1. a \in Seq(S)
    BY <1>1
  <2>2. b \in Seq(S)
    BY <1>2
  <2> QED
    BY <2>1, <2>2, Joined
<1> HIDE DEF d
<1>5. /\ d \o c \in Seq(S) /\ Len(d \o c) = Len(d) + Len(c)
      /\ \A n \in 1..Len(d) : (d \o c)[n] = d[n]
      /\ \A n \in 1..Len(c) : (d \o c)[Len(d) + n] = c[n]
  <2>1. d \in Seq(S)
    BY <1>4
  <2>2. c \in Seq(S)
    BY <1>3
  <2> QED
    BY <2>1, <2>2, Joined
<1>6. RemoveAt(s, p) \o << s[p] >> = d \o c
  BY DEF RemoveAt, a, b, c, d
<1> DEFINE r == d \o c
<1> HIDE DEF r
<1>7. /\ Len(d) = Len(s) - 1 /\ Len(r) = Len(s) /\ r \in Seq(S)
  BY <1>0, <1>1, <1>2, <1>3, <1>4, <1>5 DEF r
<1>8. ASSUME NEW n \in 1..Len(s)
      PROVE  r[n] = IF n < p THEN s[n] ELSE IF n = Len(s) THEN s[p] ELSE s[n + 1]
  <2>1. CASE n < p
    <3>1. n \in 1..Len(d) /\ n \in 1..Len(a) /\ n \in 1..p - 1
      BY <1>0, <1>1, <1>7, <2>1
    <3> QED
      BY <1>1, <1>4, <1>5, <2>1, <3>1 DEF r
  <2>2. CASE ~(n < p) /\ n # Len(s)
    <3>1. /\ n \in 1..Len(d) /\ n - (p - 1) \in 1..Len(b) /\ n - (p - 1) \in 1..Len(s) - p
          /\ Len(a) + (n - (p - 1)) = n /\ p + (n - (p - 1)) = n + 1
      BY <1>0, <1>1, <1>2, <1>7, <2>2
    <3>2. d[n] = b[n - (p - 1)]
      BY <1>4, <3>1
    <3>3. b[n - (p - 1)] = s[n + 1]
      BY <1>2, <3>1
    <3>4. r[n] = d[n]
      BY <1>5, <3>1 DEF r
    <3> QED
      BY <2>2, <3>2, <3>3, <3>4
  <2>3. CASE ~(n < p) /\ n = Len(s)
    <3>1. Len(d) + 1 = n /\ 1 \in 1..Len(c)
      BY <1>0, <1>3, <1>7, <2>3
    <3>2. r[n] = c[1]
      BY <1>5, <3>1 DEF r
    <3> QED
      BY <1>3, <2>3, <3>2
  <2> QED
    BY <2>1, <2>2, <2>3
<1> QED
  BY <1>6, <1>7, <1>8 DEF r

(* The same files, in another order.                                       *)
Reordered(s, t) ==
    /\ \A n \in DOMAIN t : \E m \in DOMAIN s : t[n] = s[m]
    /\ \A m \in DOMAIN s : \E n \in DOMAIN t : t[n] = s[m]
    /\ \A m, n \in DOMAIN t : m # n =>
        \E a, b \in DOMAIN s : a # b /\ t[m] = s[a] /\ t[n] = s[b]

Rotated(s, r, len, p) ==
    /\ len \in Nat /\ p \in 1..len /\ DOMAIN s = 1..len /\ DOMAIN r = 1..len
    /\ \A n \in 1..len :
            r[n] = IF n < p THEN s[n] ELSE IF n = len THEN s[p] ELSE s[n + 1]

LEMMA RotationReorders ==
    ASSUME NEW s, NEW r, NEW len, NEW p, Rotated(s, r, len, p)
    PROVE  Reordered(s, r)
<1>r. /\ len \in Nat /\ p \in 1..len /\ DOMAIN s = 1..len /\ DOMAIN r = 1..len
      /\ \A n \in 1..len :
            r[n] = IF n < p THEN s[n] ELSE IF n = len THEN s[p] ELSE s[n + 1]
  BY DEF Rotated
<1> USE <1>r
<1> DEFINE from(n) == IF n < p THEN n ELSE IF n = len THEN p ELSE n + 1
           to(m) == IF m < p THEN m ELSE IF m = p THEN len ELSE m - 1
<1>0. p \in Nat /\ 1 <= p /\ p <= len
  OBVIOUS
<1>1. ASSUME NEW n \in 1..len PROVE from(n) \in 1..len /\ r[n] = s[from(n)]
  <2>1. from(n) \in 1..len
    BY <1>0
  <2>2. CASE n < p
    BY <2>1, <2>2
  <2>3. CASE ~(n < p) /\ n = len
    BY <2>1, <2>3
  <2>4. CASE ~(n < p) /\ n # len
    BY <2>1, <2>4
  <2> QED
    BY <2>2, <2>3, <2>4
<1>2. ASSUME NEW m \in 1..len PROVE to(m) \in 1..len /\ from(to(m)) = m
  BY <1>0
<1>3. ASSUME NEW m \in 1..len, NEW n \in 1..len, m # n PROVE from(m) # from(n)
  BY <1>0, <1>3
<1> HIDE DEF from, to
<1>4. ASSUME NEW n \in DOMAIN r PROVE \E m \in DOMAIN s : r[n] = s[m]
  BY <1>1
<1>5. ASSUME NEW m \in DOMAIN s PROVE \E n \in DOMAIN r : r[n] = s[m]
  <2>1. to(m) \in DOMAIN r /\ from(to(m)) = m
    BY <1>2
  <2>2. r[to(m)] = s[m]
    BY <1>1, <2>1
  <2> QED
    BY <2>1, <2>2
<1>6. ASSUME NEW m \in DOMAIN r, NEW n \in DOMAIN r, m # n
      PROVE  \E a, b \in DOMAIN s : a # b /\ r[m] = s[a] /\ r[n] = s[b]
  <2>1. /\ from(m) \in DOMAIN s /\ from(n) \in DOMAIN s
        /\ r[m] = s[from(m)] /\ r[n] = s[from(n)]
    BY <1>1
  <2>2. from(m) # from(n)
    BY <1>3, <1>6
  <2> QED
    BY <2>1, <2>2
<1> QED
  BY <1>4, <1>5, <1>6 DEF Reordered

LEMMA HandedOverBuilds ==
    ASSUME NEW j, BuildOK(j), NEW k, k \in Jobs(j.request),
           k.request = j.request, k.at = j.at, k.held = j.held,
           k.export = j.export, k.exported = j.exported,
           k.embedded = j.embedded, k.failures = j.failures,
           k.files = j.files \/ Reordered(j.files, k.files)
    PROVE  BuildOK(k)
<1>1. JobOK(k)
  BY DEF JobOK, RowsPassed, BuildOK
<1>2. ProfileOK(j) => ProfileOK(k)
  <2> SUFFICES ASSUME ProfileOK(j) PROVE ProfileOK(k)
    OBVIOUS
  <2>0. /\ \A n \in DOMAIN k.files : \E m \in DOMAIN j.files : k.files[n] = j.files[m]
        /\ \A m \in DOMAIN j.files : \E n \in DOMAIN k.files : k.files[n] = j.files[m]
        /\ \A m, n \in DOMAIN k.files : m # n =>
             \E a, b \in DOMAIN j.files : a # b /\ k.files[m] = j.files[a] /\ k.files[n] = j.files[b]
    BY Zenon DEF Reordered
  <2>1. ASSUME NEW path PROVE Delivered(k, path) <=> Delivered(j, path)
    <3>1. ASSUME Delivered(k, path) PROVE Delivered(j, path)
      <4>1. PICK n \in DOMAIN k.files : k.files[n].path = path
        BY <3>1 DEF Delivered
      <4>2. PICK m \in DOMAIN j.files : k.files[n] = j.files[m]
        BY <2>0
      <4> QED
        BY <4>1, <4>2 DEF Delivered
    <3>2. ASSUME Delivered(j, path) PROVE Delivered(k, path)
      <4>1. PICK m \in DOMAIN j.files : j.files[m].path = path
        BY <3>2 DEF Delivered
      <4>2. PICK n \in DOMAIN k.files : k.files[n] = j.files[m]
        BY <2>0
      <4> QED
        BY <4>1, <4>2 DEF Delivered
    <3> QED
      BY <3>1, <3>2
  <2>2. \A label : Failed(k, label) <=> Failed(j, label)
    BY DEF Failed
  <2>3. Refused(k) = Refused(j)
    BY DEF Refused, Refusals
  <2>4. MadeInOrder(k)
    <3>1. MadeInOrder(j)
      BY DEF ProfileOK
    <3>2. ASSUME NEW n \in DOMAIN k.files
          PROVE  \E i \in DOMAIN StepsOf(k.request) :
                    /\ i < k.at /\ Makes(StepsOf(k.request)[i])
                    /\ StepsOf(k.request)[i].path = k.files[n].path
      <4>1. PICK m \in DOMAIN j.files : k.files[n] = j.files[m]
        BY <2>0
      <4> QED
        BY <3>1, <4>1 DEF MadeInOrder
    <3>3. ASSUME NEW m \in DOMAIN k.files, NEW n \in DOMAIN k.files, m # n
          PROVE  k.files[m].path # k.files[n].path
      <4>1. PICK a, b \in DOMAIN j.files :
                a # b /\ k.files[m] = j.files[a] /\ k.files[n] = j.files[b]
        BY <2>0, <3>3
      <4> QED
        BY <3>1, <4>1 DEF MadeInOrder
    <3> QED
      BY <3>2, <3>3 DEF MadeInOrder
  <2>5. FailedInOrder(k)
    BY DEF FailedInOrder, ProfileOK
  <2>6. FilesTold(k)
    BY <2>1, <2>2 DEF FilesTold, Settled, ProfileOK
  <2>7. HeldTold(k)
    BY <2>2 DEF HeldTold, ProfileOK
  <2>8. ValuesKept(k)
    <3>1. ASSUME NEW n \in DOMAIN k.files PROVE k.files[n].values \subseteq k.embedded
      <4>1. PICK m \in DOMAIN j.files : k.files[n] = j.files[m]
        BY <2>0
      <4> QED
        BY <4>1 DEF ProfileOK, ValuesKept
    <3> QED
      BY <3>1 DEF ProfileOK, ValuesKept
  <2>9. ExportTold(k)
    BY <2>1, <2>3 DEF ExportTold, RowsTold, SheetTold, ProfileOK
  <2> QED
    BY <2>4, <2>5, <2>6, <2>7, <2>8, <2>9 DEF ProfileOK
<1> QED
  BY <1>1, <1>2 DEF BuildOK

(* As many files as there are paths.                                       *)
LEMMA FilesCounted ==
    ASSUME NEW S, NEW s \in Seq(S), NEW n \in 0..Len(s),
           \A a, b \in DOMAIN s : a # b => s[a] # s[b]
    PROVE  Cardinality(ToSet(SubSeq(s, 1, n))) = n
<1> DEFINE t == SubSeq(s, 1, n)
<1>0. Len(s) \in Nat /\ n \in Nat /\ DOMAIN s = 1..Len(s)
  OBVIOUS
<1>1. t \in Seq(S) /\ Len(t) = n /\ \A i \in 1..n : t[i] = s[i]
  <2>1. \A i \in 1..n : s[i] \in S
    BY <1>0
  <2>2. /\ t \in Seq(S) /\ Len(t) = IF 1 <= n THEN n - 1 + 1 ELSE 0
        /\ \A i \in 1 .. n - 1 + 1 : t[i] = s[1 + i - 1]
    BY <1>0, <2>1, SubSeqProperties
  <2> HIDE DEF t
  <2> QED
    BY <1>0, <2>2
<1> HIDE DEF t
<1>2. DOMAIN t = 1..n
  BY <1>1
<1>3. \A a, b \in 1..n : a # b => t[a] # t[b]
  BY <1>0, <1>1
<1>4. t \in Bijection(1..n, ToSet(t))
  <2>1. t \in [1..n -> ToSet(t)]
    <3>1. t = [i \in 1..n |-> t[i]]
      BY <1>1, <1>2
    <3>2. \A i \in 1..n : t[i] \in ToSet(t)
      BY <1>2 DEF ToSet
    <3> QED
      BY <3>1, <3>2
  <2>2. IsInjective(t)
    BY <1>2, <1>3 DEF IsInjective
  <2>3. \A x \in ToSet(t) : \E i \in 1..n : t[i] = x
    BY <1>2 DEF ToSet
  <2> QED
    BY <2>1, <2>2, <2>3 DEF Bijection, Injection, Surjection
<1>5. ExistsBijection(1..n, ToSet(t))
  BY <1>4 DEF ExistsBijection
<1>6. Cardinality(ToSet(t)) = n
  BY <1>0, <1>5, FS_CountingElements
<1> QED
  BY <1>6 DEF t

-----------------------------------------------------------------------------
(* A profile that is built, and what its answer says.                      *)

LEMMA BuildWhole ==
    ASSUME NEW j, BuildOK(j), j.request.route # "generate", j.at > Len(StepsOf(j.request)),
           NEW path \in PathsOf(j.request)
    PROVE  /\ path # Export => Settled(j, path)
           /\ path = Export =>
                /\ Delivered(j, path) <=> j.exported > 0
                /\ j.exported + Refused(j) >= ExportRows
<1> DEFINE s == StepsOf(j.request)
<1>0. ProfileOK(j) /\ JobOK(j) /\ j.request \in Requests
  BY JobFields DEF BuildOK
<1>1. WellPlanned(s)
  BY <1>0, RequestPlanned
<1>2. /\ Len(s) \in Nat /\ j.at \in Nat /\ DOMAIN s = 1..Len(s)
      /\ \A i \in DOMAIN s : i < j.at
  BY <1>0, <1>1, JobFields, StepsTyped
<1>3. PICK i \in DOMAIN s : path = s[i].path
  BY DEF PathsOf
<1>4. ASSUME path # Export PROVE Settled(j, path)
  <2>1. CASE Makes(s[i])
    BY <1>0, <1>2, <1>3, <1>4, <2>1 DEF ProfileOK, FilesTold
  <2>2. CASE ~Makes(s[i])
    <3>1. s[i].do = "token"
      BY <1>1, <1>3, <1>4, <2>2, KindsOfSteps DEF Makes
    <3>2. PICK b \in DOMAIN s : s[b].do = "bundle" /\ s[b].path = path
      BY <1>1, <1>3, <1>4, <3>1 DEF WellPlanned, Bundled
    <3> QED
      BY <1>0, <1>2, <1>4, <3>2 DEF ProfileOK, FilesTold, Makes
  <2> QED
    BY <2>1, <2>2
<1>5. ASSUME path = Export
      PROVE  (Delivered(j, path) <=> j.exported > 0) /\ j.exported + Refused(j) >= ExportRows
  <2>1. Exporting(s)
    BY <1>1, <1>3, <1>5, KindsOfSteps
  <2>2. SheetTold(j)
    BY <1>0, <2>1 DEF ProfileOK, ExportTold
  <2>3. Len(s) = 6 + 3 * ExportRows /\ ExportRows \in Nat
    BY <2>1, BoundsAssumption DEF Exporting
  <2>4. j.at > 6 + 3 * ExportRows /\ j.at >= 6 + 3 * ExportRows
    BY <1>2, <2>3
  <2> QED
    BY <1>5, <2>2, <2>4 DEF SheetTold
<1> QED
  BY <1>4, <1>5

LEMMA FilesAre ==
    ASSUME NEW j, BuildOK(j), j.request.route # "generate"
    PROVE  /\ j.files \in Seq(FilesOf(j.request))
           /\ \A n \in DOMAIN j.files :
                /\ j.files[n] \in FilesOf(j.request)
                /\ j.files[n].text \in Seq(CleanLines)
                /\ j.files[n].values \subseteq j.embedded /\ j.files[n].values \subseteq Values
           /\ \A m, n \in DOMAIN j.files : m # n => j.files[m].path # j.files[n].path
<1>1. JobOK(j) /\ ProfileOK(j)
  BY DEF BuildOK
<1>2. j.files \in Seq(FilesOf(j.request))
  BY <1>1, JobFields
<1>3. \A n \in DOMAIN j.files : j.files[n] \in FilesOf(j.request)
  BY <1>2
<1>4. \A n \in DOMAIN j.files : j.files[n].text \in Seq(CleanLines) /\ j.files[n].values \subseteq Values
  BY <1>3 DEF FilesOf
<1> QED
  BY <1>1, <1>2, <1>3, <1>4 DEF ProfileOK, ValuesKept, MadeInOrder

(* What is said of one file's lines.                                       *)
CleanFile(request, valid, text) ==
    \A n \in DOMAIN text :
        /\ LayerOf(request) = "system" => text[n].is # "term"
        /\ \A i \in DOMAIN text[n].secrets :
            text[n].secrets[i].bytes = "model" =>
                \/ KeyBody(text[n].secrets[i])
                \/ /\ Shadowed(text[n].secrets, i)
                   /\ (request.route = "generate" /\ valid) => text[n].is = "marker"

LEMMA CleanLinesClean ==
    ASSUME NEW request, NEW valid, request.route # "generate", NEW text \in Seq(CleanLines)
    PROVE  CleanFile(request, valid, text)
<1>1. \A n \in DOMAIN text : text[n] \in CleanLines
  OBVIOUS
<1> QED
  BY <1>1 DEF CleanFile, CleanLines, SafeLines, Safe

LEMMA SafeLinesClean ==
    ASSUME NEW request, NEW valid, NEW text \in Seq(SafeLines), valid => SecurityValid(text),
           LayerOf(request) = "system" => \A n \in DOMAIN text : text[n].is # "term"
    PROVE  CleanFile(request, valid, text)
<1>1. \A n \in DOMAIN text : text[n] \in SafeLines
  OBVIOUS
<1>2. ASSUME NEW n \in DOMAIN text, NEW i \in DOMAIN text[n].secrets,
             text[n].secrets[i].bytes = "model", ~KeyBody(text[n].secrets[i])
      PROVE  Shadowed(text[n].secrets, i) /\ (valid => text[n].is = "marker")
  <2>1. Shadowed(text[n].secrets, i) /\ Found(text[n].secrets[i])
    BY <1>1, <1>2 DEF SafeLines, Safe
  <2>2. text[n].secrets[i].of = "aws_secret_key"
    BY <2>1 DEF Shadowed
  <2>3. ASSUME text[n].is # "marker" PROVE SecurityError(text[n])
    BY <2>1, <2>2, <2>3 DEF SecurityError, GitHub
  <2> QED
    BY <2>1, <2>3 DEF SecurityValid
<1> QED
  BY <1>2 DEF CleanFile

-----------------------------------------------------------------------------
(* The invariant.                                                          *)

JobKept ==
    job # None => BuildOK(job) /\ \A value \in job.embedded : row[value] = "on"

DecoyInv ==
    /\ row \in [Values -> {"none", "off", "on"}]
    /\ JobKept
    /\ answer # None => job # None /\ answer.status \in {"ok", "nothing", "error"}
    /\ NothingOfTheModelLeaks
    /\ AnswerIsWhole

LEMMA StepsAre ==
    ASSUME JobKept, job # None
    PROVE  /\ BuildOK(job) /\ job.request \in Requests /\ Steps = StepsOf(job.request)
           /\ Step = StepsOf(job.request)[job.at]
<1>1. BuildOK(job) /\ job.request \in Requests
  BY JobFields DEF JobKept, BuildOK
<1> QED
  BY <1>1 DEF Steps, StepTable, Step

LEMMA DecoyInit == Init => DecoyInv
BY DEF Init, DecoyInv, JobKept, NothingOfTheModelLeaks, AnswerIsWhole

(* A step that leaves the answer open, and one that answers with an error. *)
LEMMA StillWorking ==
    ASSUME row' \in [Values -> {"none", "off", "on"}], JobKept', answer' = None
    PROVE  DecoyInv'
BY DEF DecoyInv, NothingOfTheModelLeaks, AnswerIsWhole

LEMMA AnsweredOtherwise ==
    ASSUME row' \in [Values -> {"none", "off", "on"}], JobKept', job' # None,
           answer'.status \in {"nothing", "error"}
    PROVE  DecoyInv'
BY DEF DecoyInv, NothingOfTheModelLeaks, AnswerIsWhole

LEMMA DecoyTyping == DecoyInv => DecoyTypeOK
<1> SUFFICES ASSUME DecoyInv PROVE DecoyTypeOK
  OBVIOUS
<1>1. ASSUME job # None
      PROVE  /\ job.at \in 1 .. Len(Steps) + 1
             /\ job.calls \in 0 .. LlmRetries - 1 /\ job.tries \in 0 .. MaxRetries
             /\ job.held \in [TokenTypes -> Values \cup {None}]
             /\ job.exported \in 0 .. ExportRows
             /\ job.embedded \subseteq Values
  <2>1. BuildOK(job) /\ job.request \in Requests /\ Steps = StepsOf(job.request)
    BY <1>1, StepsAre DEF DecoyInv
  <2>2. JobOK(job)
    BY <2>1 DEF BuildOK
  <2>3. job.exported \in Nat /\ job.at \in Nat /\ ExportRows \in Nat
    BY <2>2, JobFields, BoundsAssumption
  <2>4. job.exported <= ExportRows
    <3>1. CASE job.exported = 0
      BY <2>3, <3>1
    <3>2. CASE job.exported # 0
      <4>1. Exporting(Steps) /\ 3 * job.exported + 6 <= job.at
        BY <2>1, <2>2, <3>2 DEF JobOK, RowsPassed
      <4>2. Len(Steps) = 6 + 3 * ExportRows
        BY <4>1 DEF Exporting
      <4>3. job.at <= Len(Steps) + 1
        BY <2>1, <2>2, <2>3, <4>2 DEF JobOK
      <4>4. 3 * job.exported + 6 <= 6 + 3 * ExportRows + 1
        BY <2>3, <4>1, <4>2, <4>3
      <4> QED
        BY <2>3, <4>4
    <3> QED
      BY <3>1, <3>2
  <2> QED
    BY <2>1, <2>2, <2>3, <2>4, JobFields DEF JobOK
<1> QED
  BY <1>1 DEF DecoyInv, DecoyTypeOK

-----------------------------------------------------------------------------
(* The steps.                                                              *)

LEMMA AskKept ==
    ASSUME DecoyInv, NEW request \in Requests, Ask(request) PROVE DecoyInv'
<1>1. job' = NewJob(request) /\ row' = row
  BY DEF Ask
<1>2. BuildOK(NewJob(request)) /\ NewJob(request) # None
  BY NewBuildOK, NewJobOK
<1>3. NewJob(request).embedded = {}
  BY DEF NewJob
<1>4. JobKept'
  BY <1>1, <1>2, <1>3 DEF JobKept
<1>5. CASE answer' = None
  BY <1>1, <1>4, <1>5, StillWorking DEF DecoyInv
<1>6. CASE answer' # None
  <2>1. answer'.status = "nothing"
    BY <1>6 DEF Ask, Answer
  <2> QED
    BY <1>1, <1>2, <1>4, <2>1, AnsweredOtherwise DEF DecoyInv
<1> QED
  BY <1>5, <1>6

(* What stays while the job is worked on.                                  *)
LEMMA WorkKept ==
    ASSUME DecoyInv, Working, NEW j, BuildOK(j), job' = j, row' = row, answer' = answer,
           j.embedded = job.embedded
    PROVE  DecoyInv'
<1>1. answer' = None /\ job # None
  BY DEF Working
<1>2. JobKept'
  BY <1>1 DEF DecoyInv, JobKept
<1> QED
  BY <1>1, <1>2, StillWorking DEF DecoyInv

LEMMA ErrorKept ==
    ASSUME DecoyInv, Working, job' = job, row' = row, answer' = Error
    PROVE  DecoyInv'
<1>1. job' # None /\ JobKept'
  BY DEF DecoyInv, JobKept, Working
<1>2. answer'.status = "error"
  BY DEF Error, Answer
<1> QED
  BY <1>1, <1>2, AnsweredOtherwise DEF DecoyInv

LEMMA StepFailsKept ==
    ASSUME DecoyInv, Working, job.at <= Len(Steps), Step.do \in {"write", "token"},
           NEW i, i = IF Step.do = "write" THEN job ELSE [job EXCEPT !.held[Step.what[2]] = None],
           StepFails(i), row' = row
    PROVE  DecoyInv'
<1>1. job # None /\ JobKept
  BY DEF Working, DecoyInv
<1>2. /\ BuildOK(job) /\ job.request \in Requests /\ Steps = StepsOf(job.request)
      /\ Step = StepsOf(job.request)[job.at]
  BY <1>1, StepsAre
<1>3. i.request = job.request
  <2>1. job \in Jobs(job.request)
    BY <1>2 DEF BuildOK, JobOK
  <2> QED
    BY <2>1 DEF Jobs
<1>4. CASE job.request.route = "generate"
  <2>1. Step.do = "write"
    BY <1>2, <1>4, AtStep
  <2>2. job' = job /\ answer' = Error
    BY <1>3, <1>4, <2>1 DEF StepFails
  <2> QED
    BY <2>2, ErrorKept
<1>5. CASE job.request.route # "generate"
  <2> DEFINE k == Advance([i EXCEPT !.failures = Append(@, Step.what)])
  <2>1. job' = k /\ answer' = answer
    BY <1>3, <1>5 DEF StepFails
  <2>2. BuildOK(k) /\ k.embedded = job.embedded
    <3> DEFINE what == Step.what
    <3>1. k = Advance([i EXCEPT !.failures = Append(@, StepsOf(job.request)[job.at].what)])
      BY <1>2
    <3>2. i = IF StepsOf(job.request)[job.at].do = "write" THEN job
              ELSE [job EXCEPT !.held[StepsOf(job.request)[job.at].what[2]] = None]
      BY <1>2
    <3>3. /\ job.at <= Len(StepsOf(job.request))
          /\ StepsOf(job.request)[job.at].do \in {"write", "token"}
      BY <1>2
    <3> HIDE DEF k
    <3> QED
      BY <1>2, <1>5, <3>1, <3>2, <3>3, FailureBuilds
  <2> HIDE DEF k
  <2> QED
    BY <2>1, <2>2, WorkKept
<1> QED
  BY <1>4, <1>5

LEMMA ModelFailsKept ==
    ASSUME DecoyInv, NEW error, ModelFails(error) PROVE DecoyInv'
<1>1. /\ Working /\ job # None /\ JobKept /\ job.at <= Len(Steps) /\ Step.do = "write"
      /\ row' = row
  BY DEF ModelFails, Doing, Working, DecoyInv
<1>2. BuildOK(job)
  BY <1>1, StepsAre
<1>3. CASE error \in Retried /\ job.calls + 1 < LlmRetries
  <2> DEFINE k == [job EXCEPT !.calls = job.calls + 1, !.tries = job.tries]
  <2>1. job \in Jobs(job.request)
    BY <1>2 DEF BuildOK, JobOK
  <2>2. /\ job.calls \in 0..LlmRetries - 1 /\ job.tries \in 0..MaxRetries
        /\ LlmRetries \in Nat /\ job.calls + 1 \in 0..LlmRetries - 1
    BY <1>3, <2>1, BoundsAssumption DEF Jobs
  <2>3. job' = k /\ answer' = answer
    <3>1. job' = [job EXCEPT !.calls = @ + 1] /\ answer' = answer
      BY <1>3 DEF ModelFails
    <3>2. [job EXCEPT !.calls = @ + 1] = k
      BY <2>1 DEF Jobs
    <3> QED
      BY <3>1, <3>2
  <2>4. k.embedded = job.embedded
    BY <2>1 DEF Jobs
  <2> HIDE DEF k
  <2>5. BuildOK(k)
    BY <1>2, <2>2, RetriedOK DEF k
  <2> QED
    BY <1>1, <2>3, <2>4, <2>5, WorkKept
<1>4. CASE ~(error \in Retried /\ job.calls + 1 < LlmRetries)
  <2>1. StepFails(job)
    BY <1>4 DEF ModelFails
  <2> QED
    BY <1>1, <2>1, StepFailsKept
<1> QED
  BY <1>3, <1>4

LEMMA TokenFailsKept == ASSUME DecoyInv, TokenFails PROVE DecoyInv'
<1>1. /\ Working /\ job.at <= Len(Steps) /\ Step.do = "token" /\ row' = row
      /\ StepFails([job EXCEPT !.held[Step.what[2]] = None])
  BY DEF TokenFails, Doing
<1> DEFINE i == [job EXCEPT !.held[Step.what[2]] = None]
<1>2. i = IF Step.do = "write" THEN job ELSE [job EXCEPT !.held[Step.what[2]] = None]
  BY <1>1
<1>3. StepFails(i)
  BY <1>1
<1> HIDE DEF i
<1> QED
  BY <1>1, <1>2, <1>3, StepFailsKept

LEMMA StoreFailsKept == ASSUME DecoyInv, StoreFails PROVE DecoyInv'
BY ErrorKept DEF StoreFails, Doing

LEMMA TokenGeneratedKept ==
    ASSUME DecoyInv, NEW value \in Values, TokenGenerated(value) PROVE DecoyInv'
<1>1. /\ Working /\ job # None /\ JobKept /\ job.at <= Len(Steps) /\ Step.do = "token"
      /\ answer' = None /\ row \in [Values -> {"none", "off", "on"}]
  BY DEF TokenGenerated, Doing, Working, DecoyInv
<1>2. /\ BuildOK(job) /\ job.request \in Requests /\ Steps = StepsOf(job.request)
      /\ Step = StepsOf(job.request)[job.at]
  BY <1>1, StepsAre
<1>3. job' = Advance([job EXCEPT !.held[StepsOf(job.request)[job.at].what[2]] = value,
                                 !.embedded = @ \cup {value}])
  BY <1>2 DEF TokenGenerated
<1> DEFINE k == Advance([job EXCEPT !.held[StepsOf(job.request)[job.at].what[2]] = value,
                                    !.embedded = @ \cup {value}])
<1>4. BuildOK(k) /\ k.embedded = job.embedded \cup {value}
  <2>1. job.at <= Len(StepsOf(job.request)) /\ StepsOf(job.request)[job.at].do = "token"
    BY <1>1, <1>2
  <2>2. k = Advance([job EXCEPT !.held[StepsOf(job.request)[job.at].what[2]] = value,
                                    !.embedded = @ \cup {value}])
    OBVIOUS
  <2> HIDE DEF k
  <2> QED
    BY <1>2, <2>1, <2>2, TokenBuilds
<1>5. row' \in [Values -> {"none", "off", "on"}]
  BY <1>1 DEF TokenGenerated, Register
<1>6. \A v \in Values : row'[v] = IF v = value THEN "on" ELSE row[v]
  BY <1>1 DEF TokenGenerated, Register
<1>7. job.embedded \subseteq Values
  BY <1>2, JobFields DEF BuildOK
<1>8. job' = k
  BY <1>3
<1> HIDE DEF k
<1>9. JobKept'
  <2>1. \A v \in k.embedded : row'[v] = "on"
    BY <1>1, <1>4, <1>6, <1>7 DEF JobKept
  <2> QED
    BY <1>4, <1>8, <2>1 DEF JobKept
<1> QED
  BY <1>1, <1>5, <1>9, StillWorking

(* The files of an answer that reads job as it is.                         *)
WholeFiles ==
    \A path \in {Steps[i].path : i \in DOMAIN Steps} :
        LET delivered == \E i \in DOMAIN job.files : job.files[i].path = path
        IN  IF path # Export THEN delivered <=> ~Lost(path)
            ELSE /\ delivered <=> job.exported > 0
                 /\ job.exported + Cardinality({i \in DOMAIN job.failures :
                        job.failures[i] \in FeedsOf(path)}) >= ExportRows

LEMMA FilesWhole ==
    ASSUME JobKept, job # None, job.request.route # "generate", job.at > Len(Steps)
    PROVE  WholeFiles
<1>1. BuildOK(job) /\ job.request \in Requests /\ Steps = StepsOf(job.request)
  BY StepsAre
<1>2. SUFFICES ASSUME NEW path \in {Steps[i].path : i \in DOMAIN Steps}
      PROVE  LET delivered == \E i \in DOMAIN job.files : job.files[i].path = path
             IN  IF path # Export THEN delivered <=> ~Lost(path)
                 ELSE /\ delivered <=> job.exported > 0
                      /\ job.exported + Cardinality({i \in DOMAIN job.failures :
                            job.failures[i] \in FeedsOf(path)}) >= ExportRows
  BY DEF WholeFiles
<1>3. path \in PathsOf(job.request) /\ job.at > Len(StepsOf(job.request))
  BY <1>1, <1>2 DEF PathsOf
<1>4. FeedsOf(path) = FeedersOf(StepsOf(job.request), path)
  BY <1>1 DEF FeedsOf, FeedersOf
<1>5. CASE path # Export
  <2>1. Settled(job, path)
    BY <1>1, <1>3, <1>5, BuildWhole
  <2>2. Lost(path) <=> \E label \in FeedersOf(StepsOf(job.request), path) : Failed(job, label)
    BY <1>4 DEF Lost, Failed
  <2> QED
    BY <1>5, <2>1, <2>2 DEF Settled, Delivered
<1>6. CASE path = Export
  <2>1. /\ Delivered(job, path) <=> job.exported > 0
        /\ job.exported + Refused(job) >= ExportRows
    BY <1>1, <1>3, <1>6, BuildWhole
  <2>2. Refused(job) = Cardinality({i \in DOMAIN job.failures : job.failures[i] \in FeedsOf(path)})
    BY <1>4, <1>6 DEF Refused, Refusals
  <2> QED
    BY <1>6, <2>1, <2>2 DEF Delivered
<1> QED
  BY <1>5, <1>6

(* The same of a build, and so of a build that is left alone.              *)
WholeBuild(j) ==
    \A path \in PathsOf(j.request) :
        LET feeders == FeedersOf(StepsOf(j.request), path)
            delivered == \E i \in DOMAIN j.files : j.files[i].path = path
            lost == {i \in DOMAIN j.failures : j.failures[i] \in feeders}
        IN  IF path # Export
            THEN delivered <=> ~\E i \in DOMAIN j.failures : j.failures[i] \in feeders
            ELSE (delivered <=> j.exported > 0) /\ j.exported + Cardinality(lost) >= ExportRows

LEMMA WholeIs == JobKept /\ job # None => (WholeFiles <=> WholeBuild(job))
<1> SUFFICES ASSUME JobKept, job # None PROVE WholeFiles <=> WholeBuild(job)
  OBVIOUS
<1>1. Steps = StepsOf(job.request)
  BY StepsAre
<1>2. {Steps[i].path : i \in DOMAIN Steps} = PathsOf(job.request)
  BY <1>1 DEF PathsOf
<1>3. \A path : FeedsOf(path) = FeedersOf(StepsOf(job.request), path)
  BY <1>1 DEF FeedsOf, FeedersOf
<1>4. \A path : Lost(path) <=>
        \E i \in DOMAIN job.failures :
            job.failures[i] \in FeedersOf(StepsOf(job.request), path)
  BY <1>3 DEF Lost
<1>5. \A path :
        {i \in DOMAIN job.failures : job.failures[i] \in FeedsOf(path)}
        = {i \in DOMAIN job.failures :
            job.failures[i] \in FeedersOf(StepsOf(job.request), path)}
  BY <1>3
<1> QED
  BY <1>2, <1>4, <1>5, Zenon DEF WholeFiles, WholeBuild

LEMMA WholeIsNext == (JobKept /\ job # None)' => (WholeFiles <=> WholeBuild(job))'
BY WholeIs, PTL

LEMMA WholeKept ==
    ASSUME JobKept, job # None, WholeFiles, job' = job, row' = row
    PROVE  WholeFiles'
<1>1. WholeBuild(job)
  BY WholeIs
<1>2. (JobKept /\ job # None)'
  BY DEF JobKept
<1>3. WholeBuild(job)'
  BY <1>1
<1> QED
  BY <1>2, <1>3, WholeIsNext

LEMMA AnsweredKept ==
    ASSUME DecoyInv, Working, row' = row, job' = job, NEW a, answer' = a, a.status = "ok",
           \A file \in a.files : CleanFile(job.request, a.valid, file.text),
           job.request.route # "generate" =>
            /\ job.at > Len(Steps)
            /\ \A file \in a.files : \E n \in DOMAIN job.files : file.values = job.files[n].values
            /\ job.request.route = "decoys" => a.tokens = job.embedded
            /\ job.request.route = "populate" =>
                Cardinality(a.files) + job.lost = Len(job.files)
    PROVE  DecoyInv'
<1>1. job # None /\ JobKept /\ row \in [Values -> {"none", "off", "on"}]
  BY DEF Working, DecoyInv
<1>2. JobKept'
  BY <1>1 DEF JobKept
<1>3. NothingOfTheModelLeaks'
  BY DEF NothingOfTheModelLeaks, CleanFile
<1>4. AnswerIsWhole'
  <2>1. CASE job.request.route # "generate"
    <3>1. WholeFiles
      BY <1>1, <2>1, FilesWhole
    <3>2. WholeFiles'
      BY <1>1, <3>1, WholeKept
    <3>3. ASSUME NEW file \in a.files, NEW value \in file.values
          PROVE  /\ value # None /\ row[value] = "on"
                 /\ job.request.route = "decoys" => value \in a.tokens
      <4>1. PICK n \in DOMAIN job.files : file.values = job.files[n].values
        BY <2>1
      <4>2. value \in job.embedded /\ value \in Values
        BY <1>1, <2>1, <4>1, FilesAre DEF JobKept
      <4> QED
        BY <1>1, <2>1, <4>2, RequestAssumption DEF JobKept
    <3> QED
      BY <2>1, <3>2, <3>3 DEF AnswerIsWhole, WholeFiles
  <2>2. CASE job.request.route = "generate"
    BY <2>2 DEF AnswerIsWhole
  <2> QED
    BY <2>1, <2>2
<1> QED
  BY <1>1, <1>2, <1>3, <1>4 DEF DecoyInv

(* The generator returns.                                                  *)
LEMMA ReturnKept ==
    ASSUME DecoyInv, Working, job.at <= Len(Steps), Step.do = "write",
           NEW text \in Seq(SafeLines), NEW draft,
           LayerOf(job.request) = "system" => \A n \in DOMAIN text : text[n].is # "term",
           Return(text, draft), row' = row
    PROVE  DecoyInv'
<1>1. job # None /\ JobKept
  BY DEF Working, DecoyInv
<1>2. /\ BuildOK(job) /\ job.request \in Requests /\ Steps = StepsOf(job.request)
      /\ Step = StepsOf(job.request)[job.at]
  BY <1>1, StepsAre
<1>3. CASE job.request.route = "generate"
  <2> DEFINE valid == IsValid(text, Step.as, LayerOf(job.request), draft)
             a == Answer("ok", {File(Step.path, text, {})}, {}, <<>>, valid)
  <2>1. answer' = a /\ job' = job
    BY <1>3 DEF Return
  <2>2. a.status = "ok" /\ a.valid = valid /\ \A file \in a.files : file.text = text
    BY DEF Answer, File
  <2>3. valid => SecurityValid(text)
    BY DEF IsValid
  <2>4. CleanFile(job.request, valid, text)
    BY <2>3, SafeLinesClean
  <2> HIDE DEF a, valid
  <2> QED
    BY <1>3, <2>1, <2>2, <2>4, AnsweredKept
<1>4. CASE job.request.route # "generate"
  <2> DEFINE k == Advance([job EXCEPT !.files =
                        Append(@, File(StepsOf(job.request)[job.at].path, text, {}))])
  <2>1. job' = k /\ answer' = answer
    BY <1>2, <1>4 DEF Return
  <2>2. k = Filed(job, text, {})
    BY DEF Filed
  <2> HIDE DEF k
  <2>3. text \in Seq(CleanLines)
    <3>1. LayerOf(job.request) = "system"
      BY <1>2, <1>4, RequestPlanned
    <3>2. Len(text) \in Nat /\ DOMAIN text = 1..Len(text) /\ text = [n \in 1..Len(text) |-> text[n]]
      OBVIOUS
    <3>3. \A n \in 1..Len(text) : text[n] \in CleanLines
      BY <3>1, <3>2 DEF CleanLines
    <3> QED
      BY <3>2, <3>3, TupleTyped
  <2>4. BuildOK(k) /\ k.embedded = job.embedded
    <3>1. /\ job.at <= Len(StepsOf(job.request)) /\ StepsOf(job.request)[job.at].do = "write"
          /\ Makes(StepsOf(job.request)[job.at])
      BY <1>2 DEF Makes
    <3>2. {} \in SUBSET Values /\ {} \subseteq job.embedded
      OBVIOUS
    <3>3. MayFile(job, {})
      BY <1>4, <3>1, <3>2 DEF MayFile
    <3> QED
      BY <1>2, <2>2, <2>3, <3>3, FileBuilds
  <2> QED
    BY <2>1, <2>4, WorkKept
<1> QED
  BY <1>3, <1>4

LEMMA ModelAnswersKept ==
    ASSUME DecoyInv,
           NEW draft \in (IF job = None THEN {} ELSE Drafts[job.request.route]) \cup {Usual},
           ModelAnswers(draft)
    PROVE  DecoyInv'
<1>1. /\ Working /\ job # None /\ JobKept /\ job.at <= Len(Steps) /\ Step.do = "write"
      /\ row' = row
  BY DEF ModelAnswers, Doing, Working, DecoyInv
<1>2. BuildOK(job) /\ job.request \in Requests
  BY <1>1, StepsAre
<1>3. draft.lines \in Seq(ModelLines)
  BY <1>1, <1>2, DraftAssumption
<1>again. PICK again \in SUBSET DOMAIN draft.lines :
             Enforce(Attempt(draft, Step.as.content, again), draft)
  BY DEF ModelAnswers
<1> DEFINE text == Attempt(draft, Step.as.content, again)
<1>4. text \in Seq(SafeLines)
  BY <1>3, AttemptSafe
<1>5. Enforce(text, draft)
  BY <1>again
<1> HIDE DEF text
<1>6. CASE RealismValid(text, Step.as.type, Step.as.log, LayerOf(job.request), draft.look)
  <2>1. LayerOf(job.request) = "system" => \A n \in DOMAIN text : text[n].is # "term"
    BY <1>6 DEF RealismValid, HardFail, Holds
  <2>2. Return(text, draft)
    BY <1>5, <1>6 DEF Enforce
  <2> QED
    BY <1>1, <1>4, <2>1, <2>2, ReturnKept
<1>7. CASE /\ ~RealismValid(text, Step.as.type, Step.as.log, LayerOf(job.request), draft.look)
           /\ job.tries < MaxRetries
  <2> DEFINE k == [job EXCEPT !.calls = 0, !.tries = job.tries + 1]
  <2>1. job \in Jobs(job.request)
    BY <1>2 DEF BuildOK, JobOK
  <2>2. 0 \in 0..LlmRetries - 1 /\ job.tries + 1 \in 0..MaxRetries
    BY <1>7, <2>1, BoundsAssumption DEF Jobs
  <2>3. job' = k /\ answer' = answer
    <3>1. job' = [job EXCEPT !.tries = @ + 1, !.calls = 0] /\ answer' = answer
      BY <1>5, <1>7 DEF Enforce
    <3>2. [job EXCEPT !.tries = @ + 1, !.calls = 0] = k
      BY <2>1 DEF Jobs
    <3> QED
      BY <3>1, <3>2
  <2>4. k.embedded = job.embedded
    BY <2>1 DEF Jobs
  <2> HIDE DEF k
  <2>5. BuildOK(k)
    BY <1>2, <2>2, RetriedOK DEF k
  <2> QED
    BY <1>1, <2>3, <2>4, <2>5, WorkKept
<1>8. CASE /\ ~RealismValid(text, Step.as.type, Step.as.log, LayerOf(job.request), draft.look)
           /\ ~(job.tries < MaxRetries)
  <2>1. /\ Scrubbed(text) \in Seq(SafeLines)
        /\ \A n \in DOMAIN Scrubbed(text) : Scrubbed(text)[n].is # "term"
    BY <1>4, ScrubbedSafe
  <2>2. Return(Scrubbed(text), draft)
    BY <1>5, <1>8 DEF Enforce
  <2> QED
    BY <1>1, <2>1, <2>2, ReturnKept
<1> QED
  BY <1>6, <1>7, <1>8

-----------------------------------------------------------------------------
(* The files made from honeytokens.                                        *)

LEMMA AddFileBuilds ==
    ASSUME JobKept, job # None, job.request.route # "generate", job.at <= Len(Steps),
           Step.do \in {"bundle", "sheet", "fixed"},
           NEW values, values \subseteq job.embedded,
           Step.do = "bundle" => None \notin HeldValues(Step.types),
           Step.do = "sheet" => job.exported # 0
    PROVE  /\ BuildOK(Advance(AddFile(job, values)))
           /\ Advance(AddFile(job, values)).embedded = job.embedded
<1>1. /\ BuildOK(job) /\ job.request \in Requests /\ Steps = StepsOf(job.request)
      /\ Step = StepsOf(job.request)[job.at]
  BY StepsAre
<1>2. job.embedded \subseteq Values
  BY <1>1, JobFields DEF BuildOK
<1>3. values \in SUBSET Values
  BY <1>2
<1>4. <<>> \in Seq(CleanLines)
  BY EmptySeq
<1> DEFINE k == Advance(AddFile(job, values))
           text == <<>>
<1>5. k = Filed(job, text, values)
  BY <1>1, Zenon DEF AddFile, Filed
<1>t. text \in Seq(CleanLines)
  BY <1>4
<1> HIDE DEF k, text
<1>6. /\ job.at <= Len(StepsOf(job.request)) /\ Makes(StepsOf(job.request)[job.at])
      /\ StepsOf(job.request)[job.at].do = "bundle" =>
            None \notin {job.held[type] : type \in StepsOf(job.request)[job.at].types}
      /\ StepsOf(job.request)[job.at].do = "sheet" => job.exported # 0
  BY <1>1 DEF Makes, HeldValues
<1>g. MayFile(job, values)
  BY <1>1, <1>3, <1>6 DEF MayFile
<1>7. BuildOK(k) /\ k.embedded = job.embedded
  BY <1>1, <1>t, <1>5, <1>g, FileBuilds
<1> QED
  BY <1>7 DEF k

LEMMA PassBuilds ==
    ASSUME JobKept, job # None, job.request.route # "generate", job.at <= Len(Steps),
           Step.do \in {"bundle", "row", "sheet"},
           Step.do = "bundle" => None \in HeldValues(Step.types),
           Step.do = "row" => None \in {job.held["ssn"], job.held["credit_card"]},
           Step.do = "sheet" => job.exported = 0
    PROVE  BuildOK(Advance(job)) /\ Advance(job).embedded = job.embedded
<1>1. /\ BuildOK(job) /\ job.request \in Requests /\ Steps = StepsOf(job.request)
      /\ Step = StepsOf(job.request)[job.at]
  BY StepsAre
<1>2. /\ job.at <= Len(StepsOf(job.request))
      /\ StepsOf(job.request)[job.at].do \in {"bundle", "row", "sheet"}
      /\ StepsOf(job.request)[job.at].do = "bundle" =>
            None \in {job.held[type] : type \in StepsOf(job.request)[job.at].types}
      /\ StepsOf(job.request)[job.at].do = "row" =>
            None \in {job.held["ssn"], job.held["credit_card"]}
      /\ StepsOf(job.request)[job.at].do = "sheet" => job.exported = 0
  BY <1>1 DEF HeldValues
<1> QED
  BY <1>1, <1>2, PassedBuilds

LEMMA PlaceKept == ASSUME DecoyInv, Place PROVE DecoyInv'
<1>1. /\ Working /\ job # None /\ JobKept /\ job.at <= Len(Steps)
      /\ Step.do \in {"bundle", "row", "sheet", "fixed"}
      /\ row' = row /\ answer' = answer
      /\ job' = Advance(CASE Step.do = "bundle" -> PlaceBundle
                          [] Step.do = "row" -> PlaceRow
                          [] Step.do = "sheet" -> PlaceSheet
                          [] Step.do = "fixed" -> AddFile(job, {}))
  BY DEF Place, Doing, Working, DecoyInv
<1>2. /\ BuildOK(job) /\ job.request \in Requests /\ Steps = StepsOf(job.request)
      /\ Step = StepsOf(job.request)[job.at]
  BY <1>1, StepsAre
<1>3. job.request.route # "generate"
  BY <1>1, <1>2, AtStep
<1>4. WellPlanned(Steps) /\ ProfileOK(job) /\ job.at \in DOMAIN Steps
  BY <1>1, <1>2, <1>3, AtStep
<1>5. /\ \A type \in TokenTypes : job.held[type] \in job.embedded \cup {None}
      /\ job.export \subseteq job.embedded
  BY <1>4 DEF ProfileOK, ValuesKept
<1>6. CASE Step.do = "bundle"
  <2>1. job' = Advance(PlaceBundle)
    BY <1>1, <1>6
  <2>2. Step.types \subseteq TokenTypes
    BY <1>2, <1>4, <1>6, FeedersOfBundled
  <2>3. CASE None \in HeldValues(Step.types)
    <3>1. job' = Advance(job)
      BY <2>1, <2>3 DEF PlaceBundle
    <3> QED
      BY <1>1, <1>3, <1>6, <2>3, <3>1, PassBuilds, WorkKept
  <2>4. CASE None \notin HeldValues(Step.types)
    <3>1. job' = Advance(AddFile(job, HeldValues(Step.types)))
      BY <2>1, <2>4 DEF PlaceBundle
    <3>2. HeldValues(Step.types) \subseteq job.embedded
      BY <1>5, <2>2, <2>4 DEF HeldValues
    <3> DEFINE values == HeldValues(Step.types)
    <3> HIDE DEF values
    <3>3. BuildOK(Advance(AddFile(job, values))) /\ Advance(AddFile(job, values)).embedded = job.embedded
      BY <1>1, <1>3, <1>6, <2>4, <3>2, AddFileBuilds DEF values
    <3> QED
      BY <1>1, <3>1, <3>3, WorkKept DEF values
  <2> QED
    BY <2>3, <2>4
<1>7. CASE Step.do = "row"
  <2>1. job' = Advance(PlaceRow)
    BY <1>1, <1>7
  <2>2. Step.types = {"ssn", "credit_card"}
    BY <1>2, <1>4, <1>7, RowIndex
  <2>3. HeldValues(Step.types) = {job.held["ssn"], job.held["credit_card"]}
    BY <2>2 DEF HeldValues
  <2>4. CASE None \in HeldValues(Step.types)
    <3>1. job' = Advance(job)
      BY <2>1, <2>4 DEF PlaceRow
    <3> QED
      BY <1>1, <1>3, <1>7, <2>3, <2>4, <3>1, PassBuilds, WorkKept
  <2>5. CASE None \notin HeldValues(Step.types)
    <3> DEFINE values == HeldValues(Step.types)
               k == Advance([job EXCEPT !.export = @ \cup values, !.exported = @ + 1])
    <3>1. job' = k
      BY <2>1, <2>5 DEF PlaceRow
    <3>2. k = Advance([job EXCEPT !.export = @ \cup values, !.exported = @ + 1])
      OBVIOUS
    <3>3. values = {job.held["ssn"], job.held["credit_card"]} /\ None \notin values
      BY <2>3, <2>5
    <3>4. job.at <= Len(StepsOf(job.request)) /\ StepsOf(job.request)[job.at].do = "row"
      BY <1>1, <1>2, <1>7
    <3> HIDE DEF values, k
    <3>5. BuildOK(k) /\ k.embedded = job.embedded
      BY <1>2, <1>3, <3>2, <3>3, <3>4, RowBuilds
    <3> QED
      BY <1>1, <3>1, <3>5, WorkKept
  <2> QED
    BY <2>4, <2>5
<1>8. CASE Step.do = "sheet"
  <2>1. job' = Advance(PlaceSheet)
    BY <1>1, <1>8
  <2>2. CASE job.exported = 0
    <3>1. job' = Advance(job)
      BY <2>1, <2>2 DEF PlaceSheet
    <3> QED
      BY <1>1, <1>3, <1>8, <2>2, <3>1, PassBuilds, WorkKept
  <2>3. CASE job.exported # 0
    <3>1. job' = Advance(AddFile(job, job.export))
      BY <2>1, <2>3 DEF PlaceSheet
    <3> DEFINE values == job.export
    <3> HIDE DEF values
    <3>2. BuildOK(Advance(AddFile(job, values))) /\ Advance(AddFile(job, values)).embedded = job.embedded
      BY <1>1, <1>3, <1>5, <1>8, <2>3, AddFileBuilds DEF values
    <3> QED
      BY <1>1, <3>1, <3>2, WorkKept DEF values
  <2> QED
    BY <2>2, <2>3
<1>9. CASE Step.do = "fixed"
  <2>1. job' = Advance(AddFile(job, {}))
    BY <1>1, <1>9
  <2>2. {} \subseteq job.embedded
    OBVIOUS
  <2>3. BuildOK(Advance(AddFile(job, {}))) /\ Advance(AddFile(job, {})).embedded = job.embedded
    BY <1>1, <1>3, <1>9, <2>2, AddFileBuilds
  <2> QED
    BY <1>1, <2>1, <2>3, WorkKept
<1> QED
  BY <1>1, <1>6, <1>7, <1>8, <1>9

-----------------------------------------------------------------------------
(* The routes.                                                             *)

LEMMA ReturnDecoysKept == ASSUME DecoyInv, ReturnDecoys PROVE DecoyInv'
<1>1. /\ Working /\ job # None /\ JobKept /\ job.at > Len(Steps)
      /\ row' = row /\ job' = job /\ job.request.route = "decoys"
  BY DEF ReturnDecoys, Built, Working, DecoyInv
<1>2. BuildOK(job)
  BY <1>1 DEF JobKept
<1>3. CASE job.files = <<>>
  BY <1>1, <1>3, ErrorKept DEF ReturnDecoys
<1>4. CASE job.files # <<>>
  <2> DEFINE sent == {[f EXCEPT !.path = ContainerPath(@)] : f \in ToSet(job.files)}
             a == Answer("ok", sent, job.embedded, job.failures, TRUE)
  <2>1. answer' = a
    BY <1>4 DEF ReturnDecoys
  <2>2. a.status = "ok" /\ a.files = sent /\ a.tokens = job.embedded /\ a.valid = TRUE
    BY DEF Answer
  <2>3. ASSUME NEW file \in sent
        PROVE  \E n \in DOMAIN job.files :
                 file.text = job.files[n].text /\ file.values = job.files[n].values
    <3>1. PICK f \in ToSet(job.files) : file = [f EXCEPT !.path = ContainerPath(@)]
      OBVIOUS
    <3>2. PICK n \in DOMAIN job.files : f = job.files[n]
      BY DEF ToSet
    <3>3. f \in FilesOf(job.request)
      BY <1>1, <1>2, <3>2, FilesAre
    <3>4. file.text = f.text /\ file.values = f.values
      BY <3>1, <3>3 DEF FilesOf
    <3> QED
      BY <3>2, <3>4
  <2> HIDE DEF sent, a
  <2>4. ASSUME NEW file \in sent PROVE CleanFile(job.request, TRUE, file.text)
    <3>1. PICK n \in DOMAIN job.files : file.text = job.files[n].text
      BY <2>3
    <3>2. file.text \in Seq(CleanLines)
      BY <1>1, <1>2, <3>1, FilesAre
    <3> QED
      BY <1>1, <3>2, CleanLinesClean
  <2> QED
    BY <1>1, <2>1, <2>2, <2>3, <2>4, AnsweredKept
<1> QED
  BY <1>3, <1>4

LEMMA DeployFileKept == ASSUME DecoyInv, DeployFile PROVE DecoyInv'
<1>1. /\ Working /\ job # None /\ JobKept /\ row' = row /\ answer' = answer
      /\ job.sent + job.lost < Len(job.files)
      /\ \/ job' = [job EXCEPT !.sent = @ + 1]
         \/ job' = [job EXCEPT !.lost = @ + 1,
                               !.files = RemoveAt(@, job.sent + 1) \o <<@[job.sent + 1]>>]
  BY DEF DeployFile, Built, Working, DecoyInv
<1>2. BuildOK(job) /\ job \in Jobs(job.request)
  BY <1>1 DEF JobKept, BuildOK, JobOK
<1>3. job.sent \in Nat /\ job.lost \in Nat /\ job.files \in Seq(FilesOf(job.request))
  BY <1>2 DEF Jobs
<1>4. CASE job' = [job EXCEPT !.sent = @ + 1]
  <2> DEFINE k == [job EXCEPT !.sent = @ + 1]
  <2>0. job.sent + 1 \in Nat
    BY <1>3
  <2>m. k \in Jobs(job.request)
    BY <1>2, <2>0 DEF Jobs
  <2>1. /\ k.request = job.request /\ k.at = job.at /\ k.held = job.held
        /\ k.export = job.export /\ k.exported = job.exported
        /\ k.embedded = job.embedded /\ k.failures = job.failures /\ k.files = job.files
    BY <1>2 DEF Jobs
  <2>2. job' = k
    BY <1>4
  <2> HIDE DEF k
  <2>3. BuildOK(k)
    BY <1>2, <2>m, <2>1, HandedOverBuilds
  <2> QED
    BY <1>1, <2>1, <2>2, <2>3, WorkKept
<1>5. CASE job' = [job EXCEPT !.lost = @ + 1,
                              !.files = RemoveAt(@, job.sent + 1) \o <<@[job.sent + 1]>>]
  <2> DEFINE p == job.sent + 1
             files == RemoveAt(job.files, p) \o <<job.files[p]>>
  <2>1. p \in 1..Len(job.files) /\ Len(job.files) \in Nat
    BY <1>1, <1>3
  <2> HIDE DEF p
  <2>2. /\ files \in Seq(FilesOf(job.request)) /\ Len(files) = Len(job.files)
        /\ \A n \in 1..Len(job.files) :
             files[n] = IF n < p THEN job.files[n]
                        ELSE IF n = Len(job.files) THEN job.files[p] ELSE job.files[n + 1]
    BY <1>3, <2>1, RotatedFiles
  <2> HIDE DEF files
  <2>3. DOMAIN files = 1..Len(job.files) /\ DOMAIN job.files = 1..Len(job.files)
    BY <1>3, <2>2
  <2> DEFINE len == Len(job.files)
  <2>l. len \in Nat /\ p \in 1..len
    BY <2>1
  <2>d. DOMAIN job.files = 1..len /\ DOMAIN files = 1..len
    BY <2>3
  <2>r. \A n \in 1..len :
          files[n] = IF n < p THEN job.files[n]
                     ELSE IF n = len THEN job.files[p] ELSE job.files[n + 1]
    BY <2>2
  <2> HIDE DEF len
  <2>4. Reordered(job.files, files)
    <3>1. Rotated(job.files, files, len, p)
      BY <2>l, <2>d, <2>r DEF Rotated
    <3> QED
      BY <3>1, RotationReorders
  <2> DEFINE k == [job EXCEPT !.lost = @ + 1, !.files = files]
  <2>0. job.lost + 1 \in Nat
    BY <1>3
  <2>m. k \in Jobs(job.request)
    BY <1>2, <2>0, <2>2 DEF Jobs
  <2>5. /\ k.request = job.request /\ k.at = job.at /\ k.held = job.held
        /\ k.export = job.export /\ k.exported = job.exported
        /\ k.embedded = job.embedded /\ k.failures = job.failures /\ k.files = files
    BY <1>2 DEF Jobs
  <2>6. job' = k
    BY <1>5 DEF files, p
  <2> HIDE DEF k
  <2>7. BuildOK(k)
    BY <1>2, <2>m, <2>4, <2>5, HandedOverBuilds
  <2> QED
    BY <1>1, <2>5, <2>6, <2>7, WorkKept
<1> QED
  BY <1>1, <1>4, <1>5

LEMMA ReturnPopulatedKept == ASSUME DecoyInv, ReturnPopulated PROVE DecoyInv'
<1>1. /\ Working /\ job # None /\ JobKept /\ job.at > Len(Steps)
      /\ row' = row /\ job' = job /\ job.request.route = "populate"
      /\ job.sent + job.lost = Len(job.files)
  BY DEF ReturnPopulated, Built, Working, DecoyInv
<1>2. BuildOK(job)
  BY <1>1 DEF JobKept
<1>3. CASE job.files = <<>>
  BY <1>1, <1>3, ErrorKept DEF ReturnPopulated
<1>4. CASE job.files # <<>>
  <2> DEFINE sent == ToSet(SubSeq(job.files, 1, job.sent))
             a == Answer("ok", sent, {}, <<>>, job.lost = 0)
  <2>0. /\ job.sent \in Nat /\ job.lost \in Nat /\ job.files \in Seq(FilesOf(job.request))
        /\ Len(job.files) \in Nat /\ DOMAIN job.files = 1..Len(job.files)
    BY <1>2, JobFields DEF BuildOK
  <2>n. job.sent \in 0..Len(job.files)
    BY <1>1, <2>0
  <2>1. answer' = a
    BY <1>4 DEF ReturnPopulated
  <2>2. a.status = "ok" /\ a.files = sent
    BY DEF Answer
  <2>3. ASSUME NEW file \in sent
        PROVE  \E n \in DOMAIN job.files : file = job.files[n]
    <3> DEFINE t == SubSeq(job.files, 1, job.sent)
    <3>1. \A i \in 1..job.sent : job.files[i] \in FilesOf(job.request)
      BY <2>0, <2>n
    <3>2. /\ t \in Seq(FilesOf(job.request))
          /\ Len(t) = IF 1 <= job.sent THEN job.sent - 1 + 1 ELSE 0
          /\ \A i \in 1 .. job.sent - 1 + 1 : t[i] = job.files[1 + i - 1]
      BY <2>0, <3>1, SubSeqProperties
    <3> HIDE DEF t
    <3>3. PICK i \in DOMAIN t : file = t[i]
      BY DEF ToSet, t
    <3>4. i \in 1..job.sent /\ i \in 1..Len(job.files)
      BY <2>0, <2>n, <3>2
    <3>5. t[i] = job.files[i]
      BY <2>0, <3>2, <3>4
    <3> QED
      BY <2>0, <3>3, <3>4, <3>5
  <2>4. Cardinality(sent) = job.sent
    <3>1. \A m, n \in DOMAIN job.files : m # n => job.files[m] # job.files[n]
      BY <1>1, <1>2, FilesAre
    <3> QED
      BY <2>0, <2>n, <3>1, FilesCounted
  <2> HIDE DEF sent, a
  <2>5. ASSUME NEW file \in sent PROVE CleanFile(job.request, a.valid, file.text)
    <3>1. PICK n \in DOMAIN job.files : file = job.files[n]
      BY <2>3
    <3>2. file.text \in Seq(CleanLines)
      BY <1>1, <1>2, <3>1, FilesAre
    <3> QED
      BY <1>1, <3>2, CleanLinesClean
  <2>6. \A file \in sent : \E n \in DOMAIN job.files : file.values = job.files[n].values
    BY <2>3
  <2>7. Cardinality(a.files) + job.lost = Len(job.files)
    BY <1>1, <2>2, <2>4
  <2> QED
    BY <1>1, <2>1, <2>2, <2>5, <2>6, <2>7, AnsweredKept
<1> QED
  BY <1>3, <1>4

LEMMA DecoyKept == DecoyInv /\ [Next]_vars => DecoyInv'
<1> SUFFICES ASSUME DecoyInv, [Next]_vars PROVE DecoyInv'
  OBVIOUS
<1>1. CASE \E request \in Requests : Ask(request)
  BY <1>1, AskKept
<1>2. CASE \E error \in Retried \cup Raised : ModelFails(error)
  BY <1>2, ModelFailsKept
<1>3. CASE \E draft \in (IF job = None THEN {} ELSE Drafts[job.request.route]) \cup {Usual} :
              ModelAnswers(draft)
  BY <1>3, ModelAnswersKept
<1>4. CASE \E value \in Values : TokenGenerated(value)
  BY <1>4, TokenGeneratedKept
<1>5. CASE TokenFails
  BY <1>5, TokenFailsKept
<1>6. CASE StoreFails
  BY <1>6, StoreFailsKept
<1>7. CASE Place
  BY <1>7, PlaceKept
<1>8. CASE ReturnDecoys
  BY <1>8, ReturnDecoysKept
<1>9. CASE DeployFile
  BY <1>9, DeployFileKept
<1>10. CASE ReturnPopulated
  BY <1>10, ReturnPopulatedKept
<1>11. CASE UNCHANGED vars
  <2>1. row' = row /\ job' = job /\ answer' = answer
    BY <1>11 DEF vars
  <2>2. JobKept'
    BY <2>1 DEF DecoyInv, JobKept
  <2>3. NothingOfTheModelLeaks'
    BY <2>1 DEF DecoyInv, NothingOfTheModelLeaks
  <2>4. AnswerIsWhole'
    <3> SUFFICES ASSUME answer # None, answer.status = "ok", job.request.route # "generate"
                 PROVE  AnswerIsWhole'
      BY <2>1 DEF AnswerIsWhole
    <3>1. WholeFiles
      BY DEF DecoyInv, AnswerIsWhole, WholeFiles
    <3>2. WholeFiles'
      BY <2>1, <3>1, WholeKept DEF DecoyInv
    <3> QED
      BY <2>1, <3>2 DEF DecoyInv, AnswerIsWhole, WholeFiles
  <2> QED
    BY <2>1, <2>2, <2>3, <2>4 DEF DecoyInv
<1> QED
  BY <1>1, <1>2, <1>3, <1>4, <1>5, <1>6, <1>7, <1>8, <1>9, <1>10, <1>11 DEF Next

LEMMA DecoyAlways == Spec => []DecoyInv
BY DecoyInit, DecoyKept, PTL DEF Spec

-----------------------------------------------------------------------------
(* Results.                                                                *)

\* The build's variables keep their types, and the two nested loops of
\* retries (core/llm_client.py inside generators/base.py) never go past their
\* last round, for any drafts, faults and limits.
THEOREM DecoyTyped == Spec => []DecoyTypeOK
BY DecoyAlways, DecoyTyping, PTL

\* No text of the model leaves the generator uncleaned: every attempt goes
\* through sanitize_llm_output and the regeneration of credentials, and the
\* last one of the system layer is scrubbed (generators/base.py), so no
\* credential keeps the model's bytes but one shadowed on its line and the
\* body of a private key without its BEGIN line, and no analysis term is left.
THEOREM ModelTextIsClean == Spec => []NothingOfTheModelLeaks
<1>1. DecoyInv => NothingOfTheModelLeaks
  BY DEF DecoyInv
<1> QED
  BY <1>1, DecoyAlways, PTL

\* A profile that is answered (api/routes/decoys.py, populate.py) lacks a file
\* exactly when a step that feeds it failed, and every honeytoken in one of
\* its files has an active row and is reported.
THEOREM AnswersAreWhole == Spec => []AnswerIsWhole
<1>1. DecoyInv => AnswerIsWhole
  BY DEF DecoyInv
<1> QED
  BY <1>1, DecoyAlways, PTL
=============================================================================
