---------------------------- MODULE ShipperProofs ----------------------------
(***************************************************************************)
(* What the shipper promises of every line, for any number of sessions,    *)
(* events and faults.                                                      *)
(***************************************************************************)
EXTENDS Shipper, SequenceTheorems, TLAPS

(* TypeOK in parts: the proxy's file, the sidecar's position, its lists, its *)
(* exchange with the hub, and the flags.                                    *)
FileType ==
    /\ emitted \in [Sessions -> 0..PerSession]
    /\ file \in Seq(Lines)
    /\ base \in Nat /\ inode \in Nat
PositionType ==
    /\ seen \in Nat /\ offset \in Nat
    /\ saved \in [inode : Nat, offset : Nat]
    /\ pc \in {"top", "drain", "read", "ship", "down"}
    /\ faults \in Nat
ListsType ==
    /\ todo \in Seq(Lines) /\ batch \in Seq(Lines) /\ spool \in Seq(Lines)
    /\ recent \in Nat
HubType ==
    /\ request \in Lines \cup {NoLine}
    /\ reply \in {"none", "accepted", "refused"}
    /\ abandoned \in [Events -> Nat]
    /\ processed \in [Events -> Nat]
FlagsType == torn \in BOOLEAN /\ struck \in BOOLEAN

(* The list drain_spool works through is an end of the spool directory, the *)
(* batch exists only while it is shipped, and the line that is posted is    *)
(* the first of the one or of the other.                                    *)
ListsInv ==
    /\ recent <= Len(spool)
    /\ pc = "drain" => recent = 0
    /\ pc # "drain" => todo = <<>>
    /\ pc # "ship" => batch = <<>>
    /\ Len(todo) <= Len(spool)
    /\ \A i \in 1..Len(todo) : todo[i] = spool[Len(spool) - Len(todo) + i]

RequestInv ==
    /\ request = NoLine => reply = "none"
    /\ request # NoLine =>
        \/ pc = "drain" /\ todo # <<>> /\ request = Head(todo)
        \/ pc = "ship" /\ batch # <<>> /\ request = Head(batch)
    /\ reply = "accepted" => request \in Events /\ processed[request] > 0

FileInv == base <= Len(file) /\ seen <= inode /\ saved.inode <= inode

ShapeInv == TypeOK /\ FileInv /\ ListsInv /\ RequestInv

(* Until something strikes, the saved position is the one in memory, except *)
(* that a file none of whose lines was read may not be saved yet.           *)
PositionInv ==
    ~struck =>
        /\ saved.inode = inode => seen = inode /\ offset = saved.offset
        /\ seen = inode => offset <= Size /\ (saved.inode = inode \/ offset = 0)

(* An event of the file's part that is not read yet.                        *)
Ahead(e) == \E i \in base + StartAt + 1 .. Len(file) : file[i] = e

Kept(e) == e \in Elements(spool) \/ e \in Elements(batch) \/ Ahead(e)

(* NothingLost, with the position in memory also when the sidecar is down.  *)
KeptInv == ~struck => \A e \in Logged : processed[e] > 0 \/ Kept(e)

(* How far the present file may count as read, by the position in memory    *)
(* and by the one in the state file.                                        *)
SavedStart ==
    IF saved.inode # inode \/ Size < saved.offset THEN 0 ELSE saved.offset
Passed == base + (IF StartAt <= SavedStart THEN StartAt ELSE SavedStart)

Unseen(e) == \E i \in Passed + 1 .. Len(file) : file[i] = e

(* A sequence has each event at most once.                                  *)
Once(q) == \A i, j \in 1..Len(q) : q[i] = q[j] /\ q[i] \in Events => i = j

(* So has the file, and no event before it is emitted.                      *)
OnceInFile ==
    /\ Once(file)
    /\ \A e \in Events : e \in Elements(file) => e[2] <= emitted[e[1]]

(* Of the lines already read, the batch and the spool together have at most *)
(* one copy; of the others they have none.                                  *)
InHand(e) == e \in Elements(batch) \/ e \in Elements(spool)

OnceInHand ==
    /\ Once(batch) /\ Once(spool)
    /\ \A e \in Events : e \notin Elements(batch) \/ e \notin Elements(spool)
    /\ \A e \in Events : InHand(e) =>
        \E i \in 1..Passed : i <= Len(file) /\ file[i] = e

(* An event may still be posted: it is not emitted yet, not read yet, or in *)
(* hand; and it is not the one the hub has just accepted.                   *)
Owed(e) ==
    /\ \/ e[2] > emitted[e[1]]
       \/ Unseen(e)
       \/ InHand(e)
    /\ ~(request = e /\ reply = "accepted")

(* Each time the hub had an event, still works on it or may get it again,   *)
(* but for one, is paid for by a fault.                                     *)
LedgerInv ==
    \A e \in Events :
        processed[e] + abandoned[e] + (IF Owed(e) THEN 1 ELSE 0) <= 1 + faults

OnceInv == OnceInFile /\ OnceInHand /\ LedgerInv

(* While nothing has failed, the lines before Done are the hub's, and the   *)
(* batch is what follows them.                                              *)
Done == StartAt - Len(batch)

CalmInv ==
    faults = 0 =>
        /\ ~struck /\ ~torn /\ base = 0 /\ inode = 1
        /\ pc # "down" /\ spool = <<>> /\ reply # "refused"
        /\ \A e \in Events : abandoned[e] = 0
        /\ Len(batch) <= StartAt
        /\ \A i \in 1..Len(batch) : batch[i] = file[Done + i]
        /\ \A i \in 1..Len(file) : file[i] \in Events
        /\ \A i \in 1..Done : processed[file[i]] > 0
        /\ \A e \in Events : processed[e] > 0 =>
            \/ \E i \in 1..Done : file[i] = e
            \/ request = e /\ reply = "accepted"

(* And the file lists the events of a session in the order of the session.  *)
InOrder ==
    faults = 0 =>
        /\ \A s \in Sessions : \A n \in 1..emitted[s] :
            \E i \in 1..Len(file) : file[i] = <<s, n>>
        /\ \A i, j \in 1..Len(file) :
            file[i][1] = file[j][1] /\ file[i][2] < file[j][2] => i < j

USE DEF proxyVars, positionVars, spoolVars, requestVars, hubVars

-----------------------------------------------------------------------------
(* Sequences.                                                              *)

(* What a sequence holds.                                                   *)
LEMMA ElementsDef ==
    ASSUME NEW q
    PROVE  \A x : x \in Elements(q) <=> \E i \in 1..Len(q) : q[i] = x
BY DEF Elements

(* Its head, and what follows.                                              *)
LEMMA TailElements ==
    ASSUME NEW S, NEW q \in Seq(S), q # <<>>
    PROVE  /\ Head(q) = q[1] /\ Head(q) \in S /\ Len(q) \in Nat /\ Len(q) > 0
           /\ Tail(q) \in Seq(S) /\ Len(Tail(q)) = Len(q) - 1
           /\ \A i \in 1..Len(q) - 1 : Tail(q)[i] = q[i + 1]
           /\ Elements(q) = Elements(Tail(q)) \cup {Head(q)}
<1>1. /\ Head(q) \in S /\ Tail(q) \in Seq(S) /\ Len(Tail(q)) = Len(q) - 1
      /\ \A i \in 1..Len(q) - 1 : Tail(q)[i] = q[i + 1]
    BY HeadTailProperties
<1>2. Head(q) = q[1] /\ Len(q) \in Nat /\ Len(q) > 0
    BY EmptySeq, LenProperties
<1>3. ASSUME NEW x PROVE x \in Elements(q) <=> x \in Elements(Tail(q)) \cup {Head(q)}
    <2>1. ASSUME NEW i \in 1..Len(q), q[i] = x
          PROVE  x \in Elements(Tail(q)) \cup {Head(q)}
        <3>1. CASE i = 1
            BY <3>1, <2>1, <1>2
        <3>2. CASE i # 1
            <4>1. i - 1 \in 1..Len(q) - 1 /\ Tail(q)[i - 1] = x
                BY <3>2, <2>1, <1>1, <1>2
            <4>2. QED
                BY <4>1, <1>1 DEF Elements
        <3>3. QED
            BY <3>1, <3>2
    <2>2. ASSUME NEW i \in 1..Len(q) - 1, Tail(q)[i] = x
          PROVE  x \in Elements(q)
        <3>1. i + 1 \in 1..Len(q) /\ q[i + 1] = x
            BY <2>2, <1>1, <1>2
        <3>2. QED
            BY <3>1 DEF Elements
    <2>3. Head(q) \in Elements(q)
        BY <1>2 DEF Elements
    <2>4. QED
        BY <2>1, <2>2, <2>3, <1>1 DEF Elements
<1>4. QED
    BY <1>1, <1>2, <1>3

(* One more element.                                                        *)
LEMMA AppendElements ==
    ASSUME NEW S, NEW q \in Seq(S), NEW x \in S
    PROVE  /\ Append(q, x) \in Seq(S) /\ Len(Append(q, x)) = Len(q) + 1
           /\ \A i \in 1..Len(q) : Append(q, x)[i] = q[i]
           /\ Append(q, x)[Len(q) + 1] = x
           /\ Elements(Append(q, x)) = Elements(q) \cup {x}
<1>1. /\ Append(q, x) \in Seq(S) /\ Len(Append(q, x)) = Len(q) + 1
      /\ \A i \in 1..Len(q) : Append(q, x)[i] = q[i]
      /\ Append(q, x)[Len(q) + 1] = x
      /\ Len(q) \in Nat
    BY AppendProperties, LenProperties
<1>2. ASSUME NEW y PROVE y \in Elements(Append(q, x)) <=> y \in Elements(q) \cup {x}
    <2>1. Len(q) + 1 \in 1..Len(q) + 1 /\ 1..Len(q) \subseteq 1..Len(q) + 1
        BY <1>1
    <2>2. \A i \in 1..Len(q) + 1 : i \in 1..Len(q) \/ i = Len(q) + 1
        BY <1>1
    <2>3. QED
        BY <2>1, <2>2, <1>1 DEF Elements
<1>3. QED
    BY <1>1, <1>2

(* No element, and two sequences that differ nowhere.                       *)
LEMMA EmptyElements == Elements(<<>>) = {} /\ Len(<<>>) = 0
BY EmptySeq DEF Elements

-----------------------------------------------------------------------------
(* The file, the spool and the lists taken from them.                      *)

(* What read_new_lines would return.                                        *)
LEMMA UnreadIs ==
    ASSUME TypeOK, FileInv
    PROVE  /\ Len(file) \in Nat /\ base \in Nat /\ Size \in Nat /\ StartAt \in Nat
           /\ StartAt <= Size /\ SavedStart \in Nat /\ SavedStart <= Size
           /\ Passed \in Nat /\ Passed <= base + StartAt /\ base <= Passed
           /\ Unread \in Seq(Lines) /\ Len(Unread) = Size - StartAt
           /\ \A i \in 1..Len(Unread) : Unread[i] = file[base + StartAt + i]
           /\ Unread = <<>> <=> StartAt = Size
<1>1. Len(file) \in Nat /\ base \in Nat /\ Size \in Nat
    BY LenProperties DEF TypeOK, FileInv, Size
<1>2. /\ StartAt \in Nat /\ StartAt <= Size
      /\ SavedStart \in Nat /\ SavedStart <= Size
    BY <1>1 DEF StartAt, SavedStart, TypeOK
<1>3. Passed \in Nat /\ Passed <= base + StartAt /\ base <= Passed
    BY <1>1, <1>2 DEF Passed
<1>4. DEFINE m == base + StartAt + 1
<1>5. m \in Int /\ Len(file) \in Int /\ \A i \in m..Len(file) : file[i] \in Lines
    <2>1. m \in Nat /\ m >= 1
        BY <1>1, <1>2
    <2>2. \A i \in m..Len(file) : i \in 1..Len(file)
        BY <2>1, <1>1
    <2>3. QED
        BY <2>1, <2>2, <1>1, ElementOfSeq DEF TypeOK
<1>6. /\ Unread \in Seq(Lines)
      /\ Len(Unread) = IF m <= Len(file) THEN Len(file) - m + 1 ELSE 0
      /\ \A i \in 1..Len(file) - m + 1 : Unread[i] = file[m + i - 1]
    BY <1>5, SubSeqProperties DEF Unread
<1>7. Len(Unread) = Size - StartAt
    BY <1>6, <1>1, <1>2 DEF Size
<1>8. ASSUME NEW i \in 1..Len(Unread) PROVE Unread[i] = file[base + StartAt + i]
    BY <1>6, <1>7, <1>1, <1>2 DEF Size
<1>9. Unread = <<>> <=> Len(Unread) = 0
    BY <1>6, EmptySeq
<1>10. QED
    BY <1>1, <1>2, <1>3, <1>6, <1>7, <1>8, <1>9

(* Spool.add.                                                               *)
LEMMA InsertIs ==
    ASSUME spool \in Seq(Lines), NEW k \in 0..Len(spool), NEW x \in Lines
    PROVE  LET q == InsertBefore(k, x)
               n == Len(spool) - k
           IN  /\ q \in Seq(Lines) /\ Len(q) = Len(spool) + 1 /\ n \in 0..Len(spool)
               /\ \A i \in 1..Len(spool) + 1 : q[i] =
                    IF i <= n THEN spool[i] ELSE IF i = n + 1 THEN x ELSE spool[i - 1]
               /\ Elements(q) = Elements(spool) \cup {x}
<1> DEFINE q == InsertBefore(k, x)
           n == Len(spool) - k
           a == SubSeq(spool, 1, n)
           b == SubSeq(spool, n + 1, Len(spool))
<1>1. Len(spool) \in Nat /\ n \in 0..Len(spool)
    BY LenProperties
<1>2. /\ a \in Seq(Lines) /\ Len(a) = n
      /\ \A i \in 1..n : a[i] = spool[i]
    <2>1. \A i \in 1..n : spool[i] \in Lines
        BY <1>1, ElementOfSeq
    <2>2. /\ a \in Seq(Lines) /\ Len(a) = (IF 1 <= n THEN n - 1 + 1 ELSE 0)
          /\ \A i \in 1..n - 1 + 1 : a[i] = spool[1 + i - 1]
        BY <2>1, <1>1, SubSeqProperties
    <2> HIDE DEF a, n
    <2>3. QED
        BY <2>2, <1>1
<1>3. /\ b \in Seq(Lines) /\ Len(b) = Len(spool) - n
      /\ \A i \in 1..Len(spool) - n : b[i] = spool[n + i]
    <2>1. \A i \in n + 1..Len(spool) : spool[i] \in Lines
        BY <1>1, ElementOfSeq
    <2>2. /\ b \in Seq(Lines)
          /\ Len(b) = (IF n + 1 <= Len(spool) THEN Len(spool) - (n + 1) + 1 ELSE 0)
          /\ \A i \in 1..Len(spool) - (n + 1) + 1 : b[i] = spool[n + 1 + i - 1]
        BY <2>1, <1>1, SubSeqProperties
    <2> HIDE DEF b, n
    <2>3. QED
        BY <2>2, <1>1
<1>4. q = a \o <<x>> \o b
    BY DEF InsertBefore
<1>5. <<x>> \in Seq(Lines) /\ Len(<<x>>) = 1 /\ <<x>>[1] = x
    OBVIOUS
<1> HIDE DEF a, b, n, q
<1>6. /\ a \o <<x>> \in Seq(Lines) /\ Len(a \o <<x>>) = n + 1
      /\ \A i \in 1..n + 1 : (a \o <<x>>)[i] = IF i <= n THEN a[i] ELSE <<x>>[i - n]
    BY <1>2, <1>5, ConcatProperties
<1>7. /\ q \in Seq(Lines) /\ Len(q) = n + 1 + (Len(spool) - n)
      /\ \A i \in 1..n + 1 + (Len(spool) - n) : q[i] =
            IF i <= n + 1 THEN (a \o <<x>>)[i] ELSE b[i - (n + 1)]
    <2> DEFINE c == a \o <<x>>
    <2>1. c \in Seq(Lines) /\ Len(c) = n + 1 /\ Len(b) = Len(spool) - n
        BY <1>6, <1>3
    <2>2. q = c \o b
        BY <1>4
    <2> HIDE DEF c
    <2>3. /\ q \in Seq(Lines) /\ Len(q) = Len(c) + Len(b)
          /\ \A i \in 1..Len(c) + Len(b) : q[i] =
                IF i <= Len(c) THEN c[i] ELSE b[i - Len(c)]
        BY <2>1, <2>2, <1>3, ConcatProperties
    <2>4. QED
        BY <2>1, <2>3 DEF c
<1>8. Len(q) = Len(spool) + 1
    BY <1>7, <1>1
<1>9. ASSUME NEW i \in 1..Len(spool) + 1
      PROVE  q[i] = IF i <= n THEN spool[i] ELSE IF i = n + 1 THEN x ELSE spool[i - 1]
    <2>1. i \in 1..n + 1 + (Len(spool) - n)
        BY <1>1
    <2>2. CASE i <= n
        BY <2>1, <2>2, <1>1, <1>2, <1>6, <1>7
    <2>3. CASE i = n + 1
        BY <2>1, <2>3, <1>1, <1>5, <1>6, <1>7
    <2>4. CASE i > n + 1
        <3>1. q[i] = b[i - (n + 1)]
            BY <2>1, <2>4, <1>1, <1>7
        <3>2. i - (n + 1) \in 1..Len(spool) - n /\ n + (i - (n + 1)) = i - 1
            BY <2>4, <1>1
        <3>3. QED
            BY <3>1, <3>2, <2>4, <1>1, <1>3
    <2>5. QED
        BY <2>2, <2>3, <2>4, <1>1
<1>10. Elements(q) = Elements(spool) \cup {x}
    <2>1. ASSUME NEW i \in 1..Len(spool) + 1 PROVE q[i] \in Elements(spool) \cup {x}
        BY <1>9, <1>1 DEF Elements
    <2>2. x \in Elements(q)
        <3>1. n + 1 \in 1..Len(spool) + 1 /\ ~(n + 1 <= n)
            BY <1>1
        <3>2. q[n + 1] = x
            BY <3>1, <1>9
        <3>3. QED
            BY <3>1, <3>2, <1>8 DEF Elements
    <2>3. ASSUME NEW i \in 1..Len(spool) PROVE spool[i] \in Elements(q)
        <3>1. CASE i <= n
            BY <3>1, <1>9, <1>8, <1>1, i \in 1..Len(spool) + 1 DEF Elements
        <3>2. CASE i > n
            <4>1. i + 1 \in 1..Len(spool) + 1 /\ ~(i + 1 <= n) /\ i + 1 # n + 1
                  /\ i + 1 - 1 = i
                BY <3>2, <1>1
            <4>2. q[i + 1] = spool[i]
                BY <4>1, <1>9
            <4>3. QED
                BY <4>1, <4>2, <1>8 DEF Elements
        <3>3. QED
            BY <3>1, <3>2, <1>1
    <2>4. QED
        BY <2>1, <2>2, <2>3, <1>8 DEF Elements
<1>11. QED
    BY <1>1, <1>7, <1>8, <1>9, <1>10 DEF n, q

(* drain_spool unlinks the first line of its list.                          *)
LEMMA RemoveIs ==
    ASSUME spool \in Seq(Lines), todo \in Seq(Lines), todo # <<>>, ListsInv
    PROVE  LET n == Len(spool) - Len(todo)
               q == SubSeq(spool, 1, n) \o Tail(todo)
           IN  /\ q \in Seq(Lines) /\ Len(q) = Len(spool) - 1 /\ n \in 0..Len(spool) - 1
               /\ \A i \in 1..Len(spool) - 1 :
                    q[i] = IF i <= n THEN spool[i] ELSE spool[i + 1]
               /\ spool[n + 1] = Head(todo)
               /\ Elements(spool) = Elements(q) \cup {Head(todo)}
               /\ Len(Tail(todo)) = Len(todo) - 1
               /\ \A i \in 1..Len(Tail(todo)) : Tail(todo)[i] = q[n + i]
<1> DEFINE n == Len(spool) - Len(todo)
           a == SubSeq(spool, 1, n)
           t == Tail(todo)
           q == a \o t
<1>1. /\ Len(spool) \in Nat /\ Len(todo) \in Nat /\ Len(todo) > 0
      /\ Len(todo) <= Len(spool) /\ Head(todo) = todo[1]
      /\ t \in Seq(Lines) /\ Len(t) = Len(todo) - 1
      /\ \A i \in 1..Len(todo) - 1 : t[i] = todo[i + 1]
    BY TailElements, LenProperties DEF ListsInv
<1>2. n \in 0..Len(spool) - 1 /\ n + Len(todo) = Len(spool)
    BY <1>1
<1>3. \A i \in 1..Len(todo) : todo[i] = spool[n + i]
    BY DEF ListsInv
<1>4. /\ a \in Seq(Lines) /\ Len(a) = n
      /\ \A i \in 1..n : a[i] = spool[i]
    <2>1. \A i \in 1..n : spool[i] \in Lines
        BY <1>2, ElementOfSeq
    <2>2. /\ a \in Seq(Lines) /\ Len(a) = (IF 1 <= n THEN n - 1 + 1 ELSE 0)
          /\ \A i \in 1..n - 1 + 1 : a[i] = spool[1 + i - 1]
        BY <2>1, <1>2, SubSeqProperties
    <2> HIDE DEF a, n
    <2>3. QED
        BY <2>2, <1>2, <1>1
<1> HIDE DEF a, t, n
<1>5. /\ q \in Seq(Lines) /\ Len(q) = n + Len(t)
      /\ \A i \in 1..n + Len(t) : q[i] = IF i <= n THEN a[i] ELSE t[i - n]
    BY <1>1, <1>4, ConcatProperties
<1> HIDE DEF q
<1>6. Len(q) = Len(spool) - 1
    BY <1>1, <1>2, <1>5
<1>7. ASSUME NEW i \in 1..Len(spool) - 1
      PROVE  q[i] = IF i <= n THEN spool[i] ELSE spool[i + 1]
    <2>1. i \in 1..n + Len(t)
        BY <1>1, <1>2
    <2>2. CASE i <= n
        BY <2>1, <2>2, <1>2, <1>4, <1>5
    <2>3. CASE ~(i <= n)
        <3>1. i - n \in 1..Len(todo) - 1 /\ i - n + 1 \in 1..Len(todo)
              /\ n + (i - n + 1) = i + 1
            BY <2>3, <1>1, <1>2
        <3>2. q[i] = t[i - n]
            BY <2>1, <2>3, <1>5
        <3>3. t[i - n] = todo[i - n + 1]
            BY <3>1, <1>1
        <3>4. todo[i - n + 1] = spool[n + (i - n + 1)]
            BY <3>1, <1>3
        <3>5. QED
            BY <3>1, <3>2, <3>3, <3>4, <2>3
    <2>4. QED
        BY <2>2, <2>3
<1>8. spool[n + 1] = Head(todo)
    BY <1>1, <1>3, 1 \in 1..Len(todo)
<1>9. Elements(spool) = Elements(q) \cup {Head(todo)}
    <2>1. ASSUME NEW i \in 1..Len(spool) PROVE spool[i] \in Elements(q) \cup {Head(todo)}
        <3>1. CASE i <= n
            <4>1. i \in 1..Len(spool) - 1 /\ q[i] = spool[i]
                BY <3>1, <1>1, <1>2, <1>7
            <4>2. QED
                BY <4>1, <1>6 DEF Elements
        <3>2. CASE i = n + 1
            BY <3>2, <1>8
        <3>3. CASE i > n + 1
            <4>1. i - 1 \in 1..Len(spool) - 1 /\ ~(i - 1 <= n) /\ i - 1 + 1 = i
                BY <3>3, <1>1, <1>2
            <4>2. q[i - 1] = spool[i]
                BY <4>1, <1>7
            <4>3. QED
                BY <4>1, <4>2, <1>6 DEF Elements
        <3>4. QED
            BY <3>1, <3>2, <3>3, <1>1, <1>2
    <2>2. ASSUME NEW i \in 1..Len(spool) - 1 PROVE q[i] \in Elements(spool)
        <3>1. i \in 1..Len(spool) /\ i + 1 \in 1..Len(spool)
            BY <1>1
        <3>2. QED
            BY <3>1, <1>7 DEF Elements
    <2>3. Head(todo) \in Elements(spool)
        <3>1. n + 1 \in 1..Len(spool)
            BY <1>1, <1>2
        <3>2. QED
            BY <3>1, <1>8 DEF Elements
    <2>4. QED
        BY <2>1, <2>2, <2>3, <1>6 DEF Elements
<1>10. ASSUME NEW i \in 1..Len(t) PROVE t[i] = q[n + i]
    <2>1. /\ n + i \in 1..Len(spool) - 1 /\ ~(n + i <= n)
          /\ i + 1 \in 1..Len(todo) /\ i \in 1..Len(todo) - 1 /\ n + (i + 1) = n + i + 1
        BY <1>1, <1>2
    <2>2. q[n + i] = spool[n + i + 1]
        BY <2>1, <1>7
    <2>3. t[i] = spool[n + (i + 1)]
        BY <2>1, <1>1, <1>3
    <2>4. QED
        BY <2>1, <2>2, <2>3
<1>11. QED
    BY <1>1, <1>2, <1>5, <1>6, <1>7, <1>8, <1>9, <1>10 DEF a, t, n, q

(* What is ahead is what read_new_lines would return.                       *)
LEMMA UnreadHas ==
    ASSUME TypeOK, FileInv, NEW e
    PROVE  Ahead(e) <=> e \in Elements(Unread)
<1>1. /\ Len(file) \in Nat /\ base \in Nat /\ StartAt \in Nat /\ Size = Len(file) - base
      /\ Len(Unread) = Size - StartAt /\ StartAt <= Size
      /\ \A i \in 1..Len(Unread) : Unread[i] = file[base + StartAt + i]
    BY UnreadIs DEF Size
<1>2. ASSUME NEW i \in base + StartAt + 1 .. Len(file), file[i] = e
      PROVE  e \in Elements(Unread)
    <2>1. /\ i - (base + StartAt) \in 1..Len(Unread)
          /\ base + StartAt + (i - (base + StartAt)) = i
        BY <1>1
    <2>2. Unread[i - (base + StartAt)] = e
        BY <2>1, <1>1, <1>2
    <2>3. QED
        BY <2>1, <2>2 DEF Elements
<1>3. ASSUME NEW i \in 1..Len(Unread), Unread[i] = e
      PROVE  Ahead(e)
    <2>1. base + StartAt + i \in base + StartAt + 1 .. Len(file)
        BY <1>1
    <2>2. QED
        BY <2>1, <1>1, <1>3 DEF Ahead
<1>4. QED
    BY <1>2, <1>3 DEF Ahead, Elements

-----------------------------------------------------------------------------
(* Types and shape.                                                        *)

LEMMA TypeParts ==
    TypeOK <=> FileType /\ PositionType /\ ListsType /\ HubType /\ FlagsType
BY Zenon DEF TypeOK, FileType, PositionType, ListsType, HubType, FlagsType

LEMMA TypePartsNext ==
    TypeOK' <=> (FileType /\ PositionType /\ ListsType /\ HubType /\ FlagsType)'
BY Zenon DEF TypeOK, FileType, PositionType, ListsType, HubType, FlagsType

LEMMA ShapeInit == Init => ShapeInv
<1> SUFFICES ASSUME Init PROVE ShapeInv
    OBVIOUS
<1>2. FileType /\ ListsType
    BY EmptySeq, ShipperAssumption DEF Init, FileType, ListsType
<1>3. PositionType
    BY DEF Init, PositionType
<1>4. HubType
    BY DEF Init, HubType
<1>5. FlagsType
    BY DEF Init, FlagsType
<1>6. FileInv /\ ListsInv
    BY EmptySeq DEF Init, FileInv, ListsInv
<1>7. RequestInv
    BY DEF Init, RequestInv
<1>8. QED
    BY <1>2, <1>3, <1>4, <1>5, <1>6, <1>7, TypeParts DEF ShapeInv

(* The proxy's steps leave the sidecar and the hub alone.                   *)
LEMMA ShapeProxy ==
    ASSUME ShapeInv, Proxy
    PROVE  ShapeInv'
<1>1. UNCHANGED <<positionVars, pc, todo, batch, spoolVars, requestVars, hubVars>>
    BY DEF Proxy, Emit, EmitFails, Recreate, Truncate
<1>2. ListsInv' /\ RequestInv'
    BY <1>1 DEF ListsInv, RequestInv, ShapeInv
<1>3. FileType /\ PositionType /\ ListsType /\ HubType /\ FlagsType /\ FileInv
    BY TypeParts DEF ShapeInv
<1>4. Len(file) \in Nat
    BY <1>3, LenProperties DEF FileType
<1>5. ListsType' /\ HubType'
    <2>1. ListsType'
        BY <1>1, <1>3 DEF ListsType
    <2>2. HubType'
        BY <1>1, <1>3 DEF HubType
    <2>3. QED
        BY <2>1, <2>2
<1>6. PositionType' /\ FlagsType'
    <2>1. faults' = faults \/ faults' = faults + 1
        BY DEF Proxy, Emit, EmitFails, Recreate, Truncate, Fault
    <2>2. PositionType'
        BY <1>1, <1>3, <2>1 DEF PositionType
    <2>3. FlagsType'
        BY <1>3 DEF Proxy, Emit, EmitFails, Recreate, Truncate, FlagsType
    <2>4. QED
        BY <2>2, <2>3
<1>7. ASSUME NEW s \in Sessions, Emit(s) PROVE FileType' /\ FileInv'
    <2>1. (IF torn THEN Garbled ELSE <<s, emitted[s] + 1>>) \in Lines
        BY <1>7, <1>3, ShipperAssumption DEF Emit, FileType, Lines, Events
    <2>2. file' \in Seq(Lines) /\ Len(file') = Len(file) + 1
        BY <2>1, <1>3, <1>7, AppendElements DEF Emit, FileType
    <2>3. emitted' \in [Sessions -> 0..PerSession]
        BY <1>3, <1>7, ShipperAssumption DEF Emit, FileType
    <2>4. UNCHANGED <<base, inode>>
        BY <1>7 DEF Emit
    <2>5. QED
        BY <2>2, <2>3, <2>4, <1>1, <1>3, <1>4 DEF FileType, FileInv
<1>8. ASSUME NEW s \in Sessions, EmitFails(s) PROVE FileType' /\ FileInv'
    <2>1. emitted' \in [Sessions -> 0..PerSession]
        BY <1>3, <1>8, ShipperAssumption DEF EmitFails, FileType
    <2>2. UNCHANGED <<file, base, inode>>
        BY <1>8 DEF EmitFails
    <2>3. QED
        BY <2>1, <2>2, <1>1, <1>3 DEF FileType, FileInv
<1>9. ASSUME Recreate PROVE FileType' /\ FileInv'
    BY <1>9, <1>1, <1>3, <1>4 DEF Recreate, FileType, FileInv, PositionType
<1>10. ASSUME Truncate PROVE FileType' /\ FileInv'
    BY <1>10, <1>1, <1>3, <1>4 DEF Truncate, FileType, FileInv
<1>11. QED
    BY <1>2, <1>5, <1>6, <1>7, <1>8, <1>9, <1>10, TypePartsNext DEF Proxy, ShapeInv

(* What the hub may do to its count of an event.                            *)
LEMMA OneMore ==
    ASSUME NEW f \in [Events -> Nat], NEW e \in Events
    PROVE  /\ [f EXCEPT ![e] = @ + 1] \in [Events -> Nat]
           /\ \A x \in Events : [f EXCEPT ![e] = @ + 1][x] = IF x = e THEN f[x] + 1 ELSE f[x]
OBVIOUS

LEMMA ShapeHub ==
    ASSUME ShapeInv, Hub
    PROVE  /\ ShapeInv'
           /\ \A e \in Events : processed'[e] >= processed[e]
<1>1. UNCHANGED <<proxyVars, positionVars, pc, todo, batch, spoolVars, request, struck>>
    BY DEF Hub, HubAccepts, HubRejects, HubFails, TimesOut, HubIsLate
<1>2. FileType /\ PositionType /\ ListsType /\ HubType /\ FlagsType
      /\ FileInv /\ ListsInv /\ RequestInv
    BY TypeParts DEF ShapeInv
<1>3. ListsInv' /\ FileInv'
    BY <1>1, <1>2 DEF ListsInv, FileInv
<1>4. faults' = faults \/ faults' = faults + 1
    BY DEF Hub, HubAccepts, HubRejects, HubFails, TimesOut, HubIsLate, Fault
<1>5. FileType' /\ ListsType' /\ PositionType'
    BY <1>1, <1>2, <1>4 DEF FileType, ListsType, PositionType
<1>6. FlagsType'
    BY <1>1, <1>2 DEF FlagsType
<1>7. /\ processed' \in [Events -> Nat]
      /\ abandoned' \in [Events -> Nat]
      /\ \A e \in Events : processed'[e] >= processed[e]
    <2> USE DEF HubType
    <2>1. CASE HubAccepts
        BY <2>1, <1>2, OneMore DEF HubAccepts
    <2>2. CASE HubRejects
        BY <2>2, <1>2 DEF HubRejects
    <2>3. CASE HubFails
        BY <2>3, <1>2, OneMore DEF HubFails
    <2>4. CASE TimesOut
        BY <2>4, <1>2, OneMore DEF TimesOut
    <2>5. ASSUME NEW e \in Events, HubIsLate(e) PROVE /\ processed' \in [Events -> Nat]
                 /\ abandoned' \in [Events -> Nat]
                 /\ \A x \in Events : processed'[x] >= processed[x]
        <3>1. abandoned' \in [Events -> Nat]
            BY <2>5, <1>2 DEF HubIsLate
        <3>2. processed' = processed \/ processed' = [processed EXCEPT ![e] = @ + 1]
            BY <2>5 DEF HubIsLate
        <3>3. QED
            BY <3>1, <3>2, <1>2, OneMore
    <2>6. QED
        BY <2>1, <2>2, <2>3, <2>4, <2>5 DEF Hub
<1>8. reply' \in {"none", "accepted", "refused"}
    BY <1>2 DEF Hub, HubAccepts, HubRejects, HubFails, TimesOut, HubIsLate, HubType
<1>9. HubType'
    BY <1>1, <1>2, <1>7, <1>8 DEF HubType
<1>10. \/ reply' = reply
       \/ reply' = "refused" /\ request # NoLine
       \/ HubAccepts
    BY DEF Hub, HubRejects, HubFails, TimesOut, HubIsLate, Asked
<1>11. ASSUME HubAccepts PROVE request # NoLine /\ request \in Events /\ processed'[request] > 0
    BY <1>11, <1>2, OneMore DEF HubAccepts, Asked, HubType
<1>12. ASSUME reply = "accepted" PROVE request \in Events /\ processed'[request] > 0
    BY <1>12, <1>2, <1>7 DEF RequestInv, HubType
<1>13. RequestInv'
    BY <1>1, <1>2, <1>10, <1>11, <1>12 DEF RequestInv
<1>14. QED
    BY <1>3, <1>5, <1>6, <1>7, <1>9, <1>13, TypePartsNext DEF ShapeInv

(* A posted line is taken from a list; an answer gives it up.               *)
LEMMA ShapeDrain ==
    ASSUME ShapeInv, Drain
    PROVE  ShapeInv'
<1>1. UNCHANGED <<proxyVars, positionVars, batch, hubVars, struck>>
    BY DEF Drain, StartPass, PostSpooled, Post, SpooledDelivered, SpooledUnreadable,
           UnlinkFails, SpooledRefused, SpoolDrained, Answered
<1>2. FileType /\ PositionType /\ ListsType /\ HubType /\ FlagsType
      /\ FileInv /\ ListsInv /\ RequestInv
    BY TypeParts DEF ShapeInv
<1>3. /\ pc \in {"top", "drain"} /\ pc' \in {"top", "drain", "read"}
      /\ faults' = faults \/ faults' = faults + 1
    BY DEF Drain, StartPass, PostSpooled, Post, SpooledDelivered, SpooledUnreadable,
           UnlinkFails, SpooledRefused, SpoolDrained, Answered, Fault
<1>4. FileType' /\ FlagsType' /\ FileInv'
    <2>1. FileType' /\ FileInv'
        BY <1>1, <1>2 DEF FileType, FileInv
    <2>2. FlagsType'
        BY <1>1, <1>2 DEF FlagsType
    <2>3. QED
        BY <2>1, <2>2
<1>5. PositionType'
    BY <1>1, <1>2, <1>3 DEF PositionType
<1>6. batch = <<>> /\ (pc = "top" => request = NoLine /\ reply = "none")
    BY <1>2, <1>3 DEF ListsInv, RequestInv
<1>7. Len(spool) \in Nat /\ Len(todo) \in Nat
    BY <1>2, LenProperties DEF ListsType
<1>8. ASSUME StartPass PROVE ListsType' /\ HubType' /\ ListsInv' /\ RequestInv'
    <2>1. ListsType' /\ ListsInv'
        BY <1>8, <1>1, <1>2, <1>6, <1>7 DEF StartPass, ListsType, ListsInv
    <2>2. HubType' /\ RequestInv'
        BY <1>8, <1>2, <1>6 DEF StartPass, HubType, RequestInv
    <2>3. QED
        BY <2>1, <2>2
<1>9. ASSUME PostSpooled PROVE ListsType' /\ HubType' /\ ListsInv' /\ RequestInv'
    <2>1. ListsType' /\ ListsInv'
        BY <1>9, <1>2 DEF PostSpooled, Post, ListsType, ListsInv
    <2>2. Head(todo) \in Lines
        BY <1>9, <1>2, TailElements DEF PostSpooled, ListsType
    <2>3. HubType'
        BY <1>9, <2>2, <1>2 DEF PostSpooled, Post, HubType
    <2>4. RequestInv'
        BY <1>9, <2>2, <1>2, ShipperAssumption DEF PostSpooled, Post, RequestInv
    <2>5. QED
        BY <2>1, <2>3, <2>4
<1>10. ASSUME NEW r \in {"accepted", "refused"}, Answered(r) PROVE HubType' /\ RequestInv' /\ request # NoLine
    <2>1. HubType'
        BY <1>10, <1>1, <1>2 DEF Answered, HubType
    <2>2. QED
        BY <2>1, <1>10, <1>2 DEF Answered, RequestInv
<1>11. ASSUME SpooledDelivered PROVE ListsType' /\ HubType' /\ ListsInv' /\ RequestInv'
    <2>1. todo # <<>> /\ pc = "drain"
        BY <1>11, <1>10, <1>2 DEF SpooledDelivered, RequestInv
    <2> DEFINE q == SubSeq(spool, 1, Len(spool) - Len(todo)) \o Tail(todo)
    <2>2. /\ q \in Seq(Lines) /\ Len(q) = Len(spool) - 1
          /\ Len(Tail(todo)) = Len(todo) - 1
          /\ \A i \in 1..Len(Tail(todo)) : Tail(todo)[i] = q[Len(spool) - Len(todo) + i]
        BY <2>1, <1>2, RemoveIs DEF ListsType
    <2>3. todo' = Tail(todo) /\ spool' = q /\ UNCHANGED <<pc, batch, recent>>
        BY <1>11 DEF SpooledDelivered
    <2>4. Tail(todo) \in Seq(Lines) /\ Len(todo) > 0
        BY <2>1, <1>2, TailElements DEF ListsType
    <2> HIDE DEF q
    <2>5. ListsType'
        BY <2>2, <2>3, <2>4, <1>2 DEF ListsType
    <2>6. Len(spool') - Len(todo') = Len(spool) - Len(todo)
        <3>1. Len(spool') = Len(spool) - 1 /\ Len(todo') = Len(todo) - 1
            BY <2>2, <2>3
        <3>2. QED
            BY <3>1, <1>7
    <2>7. \A i \in 1..Len(todo') : todo'[i] = spool'[Len(spool') - Len(todo') + i]
        BY <2>2, <2>3, <2>6
    <2>8. ListsInv'
        BY <2>1, <2>2, <2>3, <2>4, <2>7, <1>2, <1>6, <1>7 DEF ListsInv
    <2>9. HubType' /\ RequestInv'
        BY <1>10, <1>11 DEF SpooledDelivered
    <2>10. QED
        BY <2>5, <2>8, <2>9
<1>12. ASSUME SpooledUnreadable PROVE ListsType' /\ HubType' /\ ListsInv' /\ RequestInv'
    <2>1. /\ Tail(todo) \in Seq(Lines) /\ Len(Tail(todo)) = Len(todo) - 1 /\ Len(todo) > 0
          /\ \A i \in 1..Len(todo) - 1 : Tail(todo)[i] = todo[i + 1]
        BY <1>12, <1>2, TailElements DEF SpooledUnreadable, ListsType
    <2>2. todo' = Tail(todo) /\ UNCHANGED <<pc, batch, spool, recent, request, reply>>
          /\ pc = "drain" /\ request = NoLine
        BY <1>12 DEF SpooledUnreadable
    <2>3. ListsType'
        BY <2>1, <2>2, <1>2 DEF ListsType
    <2>4. ASSUME NEW i \in 1..Len(todo')
          PROVE  todo'[i] = spool'[Len(spool') - Len(todo') + i]
        <3>1. i + 1 \in 1..Len(todo) /\ i \in 1..Len(todo) - 1
            BY <2>1, <2>2, <1>7
        <3>2. todo[i + 1] = spool[Len(spool) - Len(todo) + (i + 1)]
            BY <3>1, <1>2 DEF ListsInv
        <3>3. Len(spool) - Len(todo) + (i + 1) = Len(spool') - Len(todo') + i
            BY <2>1, <2>2, <1>7
        <3>4. QED
            BY <3>1, <3>2, <3>3, <2>1, <2>2
    <2>5. ListsInv'
        BY <2>1, <2>2, <2>4, <1>2, <1>6, <1>7 DEF ListsInv
    <2>6. HubType'
        BY <2>2, <1>1, <1>2 DEF HubType
    <2>7. RequestInv'
        BY <2>2, <1>2 DEF RequestInv
    <2>8. QED
        BY <2>3, <2>5, <2>6, <2>7
<1>13. ASSUME UnlinkFails \/ SpooledRefused \/ SpoolDrained
       PROVE  ListsType' /\ HubType' /\ ListsInv' /\ RequestInv'
    <2>1. todo' = <<>> /\ UNCHANGED <<spool, recent>> /\ pc' \in {"top", "read"} /\ pc = "drain"
        BY <1>13 DEF UnlinkFails, SpooledRefused, SpoolDrained
    <2>2. ListsType' /\ ListsInv'
        BY <2>1, <1>1, <1>2, <1>6, <1>7, EmptySeq DEF ListsType, ListsInv
    <2>3. HubType' /\ RequestInv'
        <3>1. CASE SpoolDrained
            BY <3>1, <1>2 DEF SpoolDrained, HubType, RequestInv
        <3>2. CASE UnlinkFails \/ SpooledRefused
            BY <3>2, <1>10 DEF UnlinkFails, SpooledRefused
        <3>3. QED
            BY <3>1, <3>2, <1>13
    <2>4. QED
        BY <2>2, <2>3
<1>14. ListsType' /\ HubType' /\ ListsInv' /\ RequestInv'
    BY <1>8, <1>9, <1>11, <1>12, <1>13 DEF Drain
<1>15. QED
    BY <1>4, <1>5, <1>14, TypePartsNext DEF ShapeInv

LEMMA ShapeShip ==
    ASSUME ShapeInv, Ship
    PROVE  ShapeInv'
<1>1. UNCHANGED <<proxyVars, todo, hubVars>>
    BY DEF Ship, ReadNewLines, NothingNew, SaveFails, PostLine, Post, LineDelivered,
           SpoolLine, SpoolFails, BatchDone, Answered
<1>2. FileType /\ PositionType /\ ListsType /\ HubType /\ FlagsType
      /\ FileInv /\ ListsInv /\ RequestInv
    BY TypeParts DEF ShapeInv
<1>3. /\ pc \in {"read", "ship"} /\ pc' \in {"ship", "top"}
      /\ faults' = faults \/ faults' = faults + 1
      /\ struck' = struck \/ struck' = TRUE
    BY DEF Ship, ReadNewLines, NothingNew, SaveFails, PostLine, Post, LineDelivered,
           SpoolLine, SpoolFails, BatchDone, Answered, Fault
<1>4. FlagsType'
    BY <1>1, <1>2, <1>3 DEF FlagsType
<1>5. Size \in Nat /\ StartAt \in Nat /\ Unread \in Seq(Lines) /\ Len(file) \in Nat
    BY UnreadIs DEF ShapeInv
<1>6. /\ <<seen', offset'>> \in {<<seen, offset>>, <<inode, Size>>, <<inode, StartAt>>}
      /\ saved' \in {saved, [inode |-> inode, offset |-> Size]}
    BY DEF Ship, ReadNewLines, NothingNew, SaveFails, PostLine, Post, LineDelivered,
           SpoolLine, SpoolFails, BatchDone, Answered
<1>7. FileType'
    BY <1>1, <1>2 DEF FileType
<1>8. PositionType' /\ FileInv'
    <2>1. inode \in Nat /\ inode' = inode /\ base' = base /\ file' = file
        BY <1>1, <1>2 DEF FileType
    <2>2. seen' \in Nat /\ offset' \in Nat /\ seen' <= inode
        BY <2>1, <1>2, <1>5, <1>6 DEF PositionType, FileInv
    <2>3. saved' \in [inode : Nat, offset : Nat] /\ saved'.inode <= inode
        BY <2>1, <1>2, <1>5, <1>6 DEF PositionType, FileInv
    <2>4. PositionType'
        BY <2>2, <2>3, <1>2, <1>3 DEF PositionType
    <2>5. QED
        BY <2>1, <2>2, <2>3, <2>4, <1>2 DEF FileInv
<1>9. todo = <<>> /\ (pc = "read" => request = NoLine /\ reply = "none" /\ batch = <<>>)
    BY <1>2, <1>3 DEF ListsInv, RequestInv
<1>10. Len(spool) \in Nat /\ Len(<<>>) = 0
    BY <1>2, LenProperties, EmptySeq DEF ListsType
<1>11. ASSUME ReadNewLines \/ NothingNew \/ SaveFails
       PROVE  ListsType' /\ HubType' /\ ListsInv' /\ RequestInv'
    <2>1. /\ UNCHANGED <<spool, recent, request, reply>> /\ batch' \in {batch, Unread} /\ pc = "read"
          /\ pc' # "ship" => batch' = batch
        BY <1>11 DEF ReadNewLines, NothingNew, SaveFails
    <2>2. ListsType'
        BY <2>1, <1>1, <1>2, <1>5 DEF ListsType
    <2>3. ListsInv'
        BY <2>1, <1>1, <1>2, <1>3, <1>9, <1>10 DEF ListsInv
    <2>4. HubType'
        BY <2>1, <1>1, <1>2 DEF HubType
    <2>5. RequestInv'
        BY <2>1, <1>9 DEF RequestInv
    <2>6. QED
        BY <2>2, <2>3, <2>4, <2>5
<1>12. ASSUME PostLine PROVE ListsType' /\ HubType' /\ ListsInv' /\ RequestInv'
    <2>1. ListsType' /\ ListsInv'
        BY <1>12, <1>2 DEF PostLine, Post, ListsType, ListsInv
    <2>2. Head(batch) \in Lines
        BY <1>12, <1>2, TailElements DEF PostLine, ListsType
    <2>3. HubType'
        BY <1>12, <2>2, <1>2 DEF PostLine, Post, HubType
    <2>4. RequestInv'
        BY <1>12, <2>2, <1>2, ShipperAssumption DEF PostLine, Post, RequestInv
    <2>5. QED
        BY <2>1, <2>3, <2>4
<1>13. ASSUME NEW r \in {"accepted", "refused"}, Answered(r)
       PROVE  HubType' /\ RequestInv' /\ request # NoLine
    <2>1. HubType'
        BY <1>13, <1>1, <1>2 DEF Answered, HubType
    <2>2. QED
        BY <2>1, <1>13, <1>2 DEF Answered, RequestInv
<1>14. ASSUME LineDelivered PROVE ListsType' /\ HubType' /\ ListsInv' /\ RequestInv'
    <2>1. batch # <<>> /\ pc = "ship" /\ pc' = "ship" /\ batch' = Tail(batch)
          /\ UNCHANGED <<spool, recent>>
        BY <1>14, <1>13, <1>2 DEF LineDelivered, RequestInv
    <2>2. batch' \in Seq(Lines)
        BY <2>1, <1>2, TailElements DEF ListsType
    <2>3. ListsType' /\ ListsInv'
        BY <2>1, <2>2, <1>1, <1>2 DEF ListsType, ListsInv
    <2>4. QED
        BY <2>3, <1>13, <1>14 DEF LineDelivered
<1>15. ASSUME SpoolLine PROVE ListsType' /\ HubType' /\ ListsInv' /\ RequestInv'
    <2>1. batch # <<>> /\ pc = "ship" /\ pc' = "ship" /\ batch' = Tail(batch)
          /\ request \in Lines /\ recent \in 0..Len(spool)
        BY <1>15, <1>13, <1>2 DEF SpoolLine, RequestInv, HubType, ListsInv, ListsType
    <2>2. PICK k \in 0..Len(spool) :
            spool' = InsertBefore(k, request) /\ (recent' = 1 \/ recent' = recent + 1)
        BY <1>15, <2>1, <1>10 DEF SpoolLine
    <2>3. spool' \in Seq(Lines) /\ Len(spool') = Len(spool) + 1
        BY <2>1, <2>2, <1>2, InsertIs DEF ListsType
    <2>4. batch' \in Seq(Lines)
        BY <2>1, <1>2, TailElements DEF ListsType
    <2>5. ListsType' /\ ListsInv'
        BY <2>1, <2>2, <2>3, <2>4, <1>1, <1>2, <1>9, <1>10 DEF ListsType, ListsInv
    <2>6. QED
        BY <2>5, <1>13, <1>15 DEF SpoolLine
<1>16. ASSUME SpoolFails PROVE ListsType' /\ HubType' /\ ListsInv' /\ RequestInv'
    <2>1. batch' = <<>> /\ recent' = 0 /\ pc' = "top" /\ spool' \in {spool, Append(spool, Garbled)}
        BY <1>16 DEF SpoolFails
    <2>2. spool' \in Seq(Lines) /\ Len(spool') \in Nat
        <3>1. Garbled \in Lines /\ spool \in Seq(Lines)
            BY <1>2 DEF Lines, ListsType
        <3>2. Append(spool, Garbled) \in Seq(Lines)
            BY <3>1, AppendElements
        <3>3. spool' \in Seq(Lines)
            BY <2>1, <3>1, <3>2
        <3>4. QED
            BY <3>3, LenProperties
    <2>3. ListsType' /\ ListsInv'
        BY <2>1, <2>2, <1>1, <1>2, <1>9, <1>10, EmptySeq DEF ListsType, ListsInv
    <2>4. QED
        BY <2>3, <1>13, <1>16 DEF SpoolFails
<1>17. ASSUME BatchDone PROVE ListsType' /\ HubType' /\ ListsInv' /\ RequestInv'
    <2>1. ListsType' /\ ListsInv'
        BY <1>17, <1>2 DEF BatchDone, ListsType, ListsInv
    <2>2. HubType' /\ RequestInv'
        BY <1>17, <1>2 DEF BatchDone, HubType, RequestInv
    <2>3. QED
        BY <2>1, <2>2
<1>18. ListsType' /\ HubType' /\ ListsInv' /\ RequestInv'
    BY <1>11, <1>12, <1>14, <1>15, <1>16, <1>17 DEF Ship
<1>19. QED
    BY <1>4, <1>7, <1>8, <1>18, TypePartsNext DEF ShapeInv

LEMMA ShapeCrash ==
    ASSUME ShapeInv, Crash \/ Restart
    PROVE  ShapeInv'
<1>1. UNCHANGED <<proxyVars, saved, spool, processed>>
    BY DEF Crash, Restart
<1>2. FileType /\ PositionType /\ ListsType /\ HubType /\ FlagsType
      /\ FileInv /\ ListsInv /\ RequestInv
    BY TypeParts DEF ShapeInv
<1>3. /\ pc' \in {"top", "down"}
      /\ faults' = faults \/ faults' = faults + 1
      /\ \/ seen' = seen /\ offset' = offset
         \/ seen' = saved.inode /\ offset' = saved.offset
    BY DEF Crash, Restart, Fault
<1>4. FileType' /\ PositionType' /\ FileInv'
    BY <1>1, <1>2, <1>3 DEF FileType, PositionType, FileInv
<1>5. FlagsType'
    BY <1>1, <1>2 DEF Crash, Restart, FlagsType
<1>6. ASSUME Crash PROVE ListsType' /\ HubType' /\ ListsInv' /\ RequestInv'
    <2>1. ListsType' /\ ListsInv'
        BY <1>6, <1>1, <1>2, EmptySeq, LenProperties DEF Crash, ListsType, ListsInv
    <2>2. abandoned' \in [Events -> Nat]
        BY <1>6, <1>2 DEF Crash, HubType
    <2>3. HubType' /\ RequestInv'
        BY <1>6, <1>2, <2>2 DEF Crash, HubType, RequestInv
    <2>4. QED
        BY <2>1, <2>3
<1>7. ASSUME Restart PROVE ListsType' /\ HubType' /\ ListsInv' /\ RequestInv'
    <2>1. ListsType' /\ ListsInv'
        BY <1>7, <1>2 DEF Restart, ListsType, ListsInv
    <2>2. HubType' /\ RequestInv'
        BY <1>7, <1>2 DEF Restart, HubType, RequestInv
    <2>3. QED
        BY <2>1, <2>2
<1>8. QED
    BY <1>4, <1>5, <1>6, <1>7, TypePartsNext DEF ShapeInv

LEMMA ShapeStep ==
    ASSUME ShapeInv, [Next]_vars
    PROVE  ShapeInv'
<1>1. CASE UNCHANGED vars
    <2>1. UNCHANGED <<emitted, file, base, torn, inode>> /\ UNCHANGED <<seen, offset, saved, pc>>
          /\ UNCHANGED <<todo, batch, spool, recent>> /\ UNCHANGED <<request, reply>>
          /\ UNCHANGED <<abandoned, processed>> /\ UNCHANGED <<faults, struck>>
        BY <1>1 DEF vars
    <2>2. QED
        BY <2>1 DEF ShapeInv, TypeOK, FileInv, ListsInv, RequestInv
<1>2. QED
    BY <1>1, ShapeProxy, ShapeHub, ShapeDrain, ShapeShip, ShapeCrash DEF Next

(* Every reachable state is of its type, and the lists of one pass fit      *)
(* together.                                                                *)
THEOREM ShipperTypes == Spec => [](TypeOK /\ ShapeInv)
<1>1. ShapeInv => TypeOK
    BY DEF ShapeInv
<1>2. QED
    BY <1>1, ShapeInit, ShapeStep, PTL DEF Spec

-----------------------------------------------------------------------------
(* Nothing is lost.                                                        *)

(* The read position, seen from the state file, while nothing has struck.   *)
LEMMA SavedIsRead ==
    ASSUME ShapeInv, PositionInv, ~struck
    PROVE  /\ StartAt = IF saved.inode = inode THEN saved.offset ELSE 0
           /\ seen = inode => offset <= Size
<1>1. seen = inode => offset \in Nat /\ Size \in Nat /\ offset <= Size
    BY UnreadIs DEF PositionInv, ShapeInv, TypeOK
<1>2. QED
    BY <1>1 DEF StartAt, PositionInv

LEMMA PositionStep ==
    ASSUME ShapeInv, PositionInv, [Next]_vars
    PROVE  PositionInv'
<1> SUFFICES ASSUME ~struck'
             PROVE  /\ saved'.inode = inode' => seen' = inode' /\ offset' = saved'.offset
                    /\ seen' = inode' =>
                        offset' <= Size' /\ (saved'.inode = inode' \/ offset' = 0)
    BY DEF PositionInv
<1>1. /\ Len(file) \in Nat /\ base \in Nat /\ Size \in Nat /\ StartAt \in Nat
      /\ StartAt <= Size /\ inode \in Nat /\ seen \in Nat /\ offset \in Nat
      /\ seen <= inode /\ saved.inode <= inode /\ saved.inode \in Nat
    BY UnreadIs DEF ShapeInv, TypeOK, FileInv
<1>2. CASE struck
    BY <1>2 DEF Next, Drain, StartPass, PostSpooled, Post, SpooledDelivered,
        SpooledUnreadable, UnlinkFails, SpooledRefused, SpoolDrained, Ship, ReadNewLines,
        NothingNew, SaveFails, PostLine, LineDelivered, SpoolLine, SpoolFails, BatchDone,
        Hub, HubAccepts, HubRejects, HubFails, TimesOut, HubIsLate, Proxy, Emit,
        EmitFails, Recreate, Truncate, Crash, Restart, vars
<1>3. CASE ~struck
    <2>1. /\ saved.inode = inode => seen = inode /\ offset = saved.offset
          /\ seen = inode => offset <= Size /\ (saved.inode = inode \/ offset = 0)
        BY <1>3 DEF PositionInv
    <2>2. CASE UNCHANGED <<file, base, inode, positionVars>>
        BY <2>1, <2>2 DEF Size
    <2>3. ASSUME NEW s \in Sessions, Emit(s) PROVE Size' = Size + 1
        <3>1. file \in Seq(Lines) /\ base' = base
            BY <2>3 DEF Emit, ShapeInv, TypeOK
        <3>2. (IF torn THEN Garbled ELSE <<s, emitted[s] + 1>>) \in Lines
            BY <2>3, ShipperAssumption DEF Emit, ShapeInv, TypeOK, Lines, Events
        <3>3. Len(file') = Len(file) + 1
            BY <2>3, <3>1, <3>2, AppendElements DEF Emit
        <3>4. QED
            BY <3>1, <3>3, <1>1 DEF Size
    <2>4. CASE \E s \in Sessions : Emit(s)
        <3>1. Size' = Size + 1 /\ UNCHANGED <<inode, positionVars>>
            BY <2>3, <2>4 DEF Emit
        <3>2. QED
            BY <3>1, <2>1, <1>1
    <2>5. CASE Recreate
        <3>1. inode' = inode + 1 /\ seen' = seen /\ saved' = saved
            BY <2>5 DEF Recreate
        <3>2. QED
            BY <3>1, <1>1
    <2>6. CASE ReadNewLines
        <3>1. /\ seen' = inode /\ offset' = Size /\ inode' = inode /\ Size' = Size
              /\ saved' = [inode |-> inode, offset |-> Size]
            BY <2>6 DEF ReadNewLines, Size
        <3>2. QED
            BY <3>1, <1>1
    <2>7. CASE NothingNew
        <3>1. /\ seen' = inode /\ offset' = StartAt /\ inode' = inode /\ Size' = Size
              /\ saved' = saved
            BY <2>7 DEF NothingNew, Size
        <3>2. StartAt = IF saved.inode = inode THEN saved.offset ELSE 0
            BY <1>3, SavedIsRead
        <3>3. QED
            BY <3>1, <3>2, <1>1
    <2>8. CASE Restart
        <3>1. /\ seen' = saved.inode /\ offset' = saved.offset /\ inode' = inode
              /\ Size' = Size /\ saved' = saved
            BY <2>8 DEF Restart, Size
        <3>2. QED
            BY <3>1, <2>1, <1>1
    <2>9. CASE Truncate \/ SaveFails \/ SpoolFails
        BY <2>9 DEF Truncate, SaveFails, SpoolFails
    <2>10. CASE \E s \in Sessions : EmitFails(s)
        BY <2>10, <2>2 DEF EmitFails
    <2>11. CASE Drain
        BY <2>11, <2>2 DEF Drain, StartPass, PostSpooled, Post, SpooledDelivered,
            SpooledUnreadable, UnlinkFails, SpooledRefused, SpoolDrained
    <2>12. CASE Hub
        BY <2>12, <2>2 DEF Hub, HubAccepts, HubRejects, HubFails, TimesOut, HubIsLate
    <2>13. CASE PostLine \/ LineDelivered \/ SpoolLine \/ BatchDone
        BY <2>13, <2>2 DEF PostLine, Post, LineDelivered, SpoolLine, BatchDone
    <2>14. CASE Crash
        BY <2>14, <2>2 DEF Crash
    <2>15. CASE UNCHANGED vars
        BY <2>15, <2>2 DEF vars
    <2>16. QED
        BY <2>4, <2>5, <2>6, <2>7, <2>8, <2>9, <2>10, <2>11, <2>12, <2>13, <2>14, <2>15
           DEF Next, Ship, Proxy
<1>4. QED
    BY <1>2, <1>3

(* What is ahead stays ahead while the file and the position stand.         *)
LEMMA AheadStays ==
    ASSUME UNCHANGED <<file, base, inode, seen, offset>>
    PROVE  StartAt' = StartAt /\ \A e : Ahead(e)' <=> Ahead(e)
BY DEF Ahead, StartAt, Size

LEMMA KeptStep ==
    ASSUME ShapeInv, PositionInv, KeptInv, [Next]_vars
    PROVE  KeptInv'
<1> SUFFICES ASSUME ~struck', NEW e \in Logged'
             PROVE  processed'[e] > 0 \/ Kept(e)'
    BY DEF KeptInv
<1>1. /\ Len(file) \in Nat /\ base \in Nat /\ Size \in Nat /\ StartAt \in Nat
      /\ StartAt <= Size /\ inode \in Nat /\ seen \in Nat /\ offset \in Nat
      /\ file \in Seq(Lines) /\ spool \in Seq(Lines) /\ todo \in Seq(Lines)
      /\ batch \in Seq(Lines) /\ FileInv /\ ListsInv /\ RequestInv
      /\ Size = Len(file) - base
    BY UnreadIs DEF ShapeInv, TypeOK, Size
<1>2. CASE UNCHANGED <<file, base, inode, seen, offset, spool, batch>> /\ ~struck
           /\ \A x \in Events : processed'[x] >= processed[x]
    <2>1. e \in Logged /\ e \in Events /\ e \in Events
        BY <1>2 DEF Logged
    <2>2. processed[e] > 0 \/ Kept(e)
        BY <1>2, <2>1 DEF KeptInv
    <2>3. processed[e] \in Nat /\ (\/ processed'[e] = processed[e] \/ processed'[e] \in Nat)
        BY <2>1, ShapeStep DEF ShapeInv, TypeOK
    <2>4. Kept(e) => Kept(e)'
        BY <1>2, AheadStays DEF Kept
    <2>5. processed'[e] >= processed[e] /\ processed'[e] \in Nat
        BY <2>1, <1>2, ShapeStep DEF ShapeInv, TypeOK
    <2>6. QED
        BY <2>2, <2>3, <2>4, <2>5
<1>3. CASE struck
    BY <1>3 DEF Next, Drain, StartPass, PostSpooled, Post, SpooledDelivered,
        SpooledUnreadable, UnlinkFails, SpooledRefused, SpoolDrained, Ship, ReadNewLines,
        NothingNew, SaveFails, PostLine, LineDelivered, SpoolLine, SpoolFails, BatchDone,
        Hub, HubAccepts, HubRejects, HubFails, TimesOut, HubIsLate, Proxy, Emit,
        EmitFails, Recreate, Truncate, Crash, Restart, vars
<1>4. \A x \in Events : processed[x] \in Nat /\ processed[x] >= processed[x]
    BY DEF ShapeInv, TypeOK
<1>5. CASE ~struck
    <2> USE <1>5
    <2>1. CASE \E s \in Sessions : Emit(s)
        <3>1. PICK s \in Sessions : Emit(s)
            BY <2>1
        <3> DEFINE line == IF torn THEN Garbled ELSE <<s, emitted[s] + 1>>
        <3>2. line \in Lines
            BY <3>1, ShipperAssumption DEF Emit, ShapeInv, TypeOK, Lines, Events
        <3>3. file' = Append(file, line)
              /\ UNCHANGED <<base, inode, seen, offset, spool, batch, processed>>
            BY <3>1 DEF Emit
        <3> HIDE DEF line
        <3>4. /\ Len(file') = Len(file) + 1 /\ \A i \in 1..Len(file) : file'[i] = file[i]
              /\ file'[Len(file) + 1] = line
              /\ Elements(file') = Elements(file) \cup {line}
            BY <3>2, <3>3, <1>1, AppendElements
        <3>5. Size' = Size + 1
            BY <3>3, <3>4, <1>1 DEF Size
        <3>6. StartAt' = StartAt
            BY <3>3, <3>5, <1>1, SavedIsRead DEF StartAt
        <3>7. CASE e = line
            <4>1. Len(file) + 1 \in base' + StartAt' + 1 .. Len(file')
                BY <3>3, <3>4, <3>6, <1>1
            <4>2. QED
                BY <4>1, <3>4, <3>7 DEF Kept, Ahead
        <3>8. CASE e # line
            <4>1. e \in Logged
                BY <3>4, <3>8 DEF Logged
            <4>2. processed[e] > 0 \/ Kept(e)
                BY <4>1 DEF KeptInv
            <4>3. ASSUME Ahead(e) PROVE Ahead(e)'
                <5>1. PICK i \in base + StartAt + 1 .. Len(file) : file[i] = e
                    BY <4>3 DEF Ahead
                <5>2. i \in base' + StartAt' + 1 .. Len(file') /\ file'[i] = e
                    BY <5>1, <3>3, <3>4, <3>6, <1>1
                <5>3. QED
                    BY <5>2 DEF Ahead
            <4>4. QED
                BY <4>2, <4>3, <3>3 DEF Kept
        <3>9. QED
            BY <3>7, <3>8
    <2>2. CASE \E s \in Sessions : EmitFails(s)
        BY <2>2, <1>2, <1>4 DEF EmitFails
    <2>3. CASE Recreate
        <3>1. Unread = <<>> /\ UNCHANGED <<file, spool, batch, processed>>
            BY <2>3 DEF Recreate
        <3>2. StartAt = Size
            BY <3>1, UnreadIs DEF ShapeInv
        <3>3. ~Ahead(e)
            BY <3>2, <1>1 DEF Ahead
        <3>4. processed[e] > 0 \/ Kept(e)
            BY <3>1 DEF Logged, KeptInv
        <3>5. QED
            BY <3>1, <3>3, <3>4 DEF Kept
    <2>4. CASE Truncate \/ SaveFails \/ SpoolFails
        BY <2>4 DEF Truncate, SaveFails, SpoolFails
    <2>5. CASE Hub
        <3>1. \A x \in Events : processed'[x] >= processed[x]
            BY <2>5, ShapeHub
        <3>2. QED
            BY <2>5, <3>1, <1>2 DEF Hub, HubAccepts, HubRejects, HubFails, TimesOut, HubIsLate
    <2>6. CASE StartPass \/ PostSpooled \/ SpooledUnreadable \/ UnlinkFails \/ SpooledRefused
               \/ SpoolDrained \/ PostLine \/ BatchDone
        BY <2>6, <1>2, <1>4 DEF StartPass, PostSpooled, Post, SpooledUnreadable,
            UnlinkFails, SpooledRefused, SpoolDrained, PostLine, BatchDone
    <2>7. ASSUME UNCHANGED <<file, base, inode, seen, offset, processed>>,
                 \A x \in Elements(spool) \cup Elements(batch) :
                    \/ x \in Elements(spool') \cup Elements(batch')
                    \/ x \in Events => processed[x] > 0
          PROVE  processed'[e] > 0 \/ Kept(e)'
        <3>1. processed[e] > 0 \/ Kept(e)
            BY <2>7 DEF Logged, KeptInv
        <3>2. e \in Events
            BY DEF Logged
        <3>3. Ahead(e) => Ahead(e)'
            BY <2>7, AheadStays
        <3>4. QED
            BY <3>1, <3>2, <3>3, <2>7 DEF Kept
    <2>8. CASE SpooledDelivered
        <3>1. reply = "accepted" /\ pc = "drain"
            BY <2>8 DEF SpooledDelivered, Answered
        <3>2. todo # <<>> /\ request = Head(todo) /\ processed[request] > 0
            BY <3>1, <1>1 DEF RequestInv
        <3>3. Elements(spool) = Elements(spool') \cup {request}
            BY <3>2, <2>8, <1>1, RemoveIs DEF SpooledDelivered
        <3>4. UNCHANGED <<file, base, inode, seen, offset, processed, batch>>
            BY <2>8 DEF SpooledDelivered
        <3>5. QED
            BY <3>2, <3>3, <3>4, <2>7
    <2>9. CASE LineDelivered
        <3>1. reply = "accepted" /\ pc = "ship"
            BY <2>9 DEF LineDelivered, Answered
        <3>2. batch # <<>> /\ request = Head(batch) /\ processed[request] > 0
            BY <3>1, <1>1 DEF RequestInv
        <3>3. Elements(batch) = Elements(batch') \cup {request}
            BY <3>2, <2>9, <1>1, TailElements DEF LineDelivered
        <3>4. UNCHANGED <<file, base, inode, seen, offset, processed, spool>>
            BY <2>9 DEF LineDelivered
        <3>5. QED
            BY <3>2, <3>3, <3>4, <2>7
    <2>10. CASE SpoolLine
        <3>1. reply = "refused" /\ pc = "ship"
            BY <2>10 DEF SpoolLine, Answered
        <3>2. batch # <<>> /\ request = Head(batch)
            BY <3>1, <1>1 DEF RequestInv
        <3>3. Elements(batch) = Elements(batch') \cup {request} /\ request \in Lines
            BY <3>2, <2>10, <1>1, TailElements DEF SpoolLine
        <3>4. recent \in 0..Len(spool) /\ Len(spool) \in Nat
            BY <1>1, LenProperties DEF ListsInv, ShapeInv, TypeOK
        <3>5. PICK k \in 0..Len(spool) : spool' = InsertBefore(k, request)
            BY <2>10, <3>4 DEF SpoolLine
        <3>6. Elements(spool') = Elements(spool) \cup {request}
            BY <3>3, <3>5, <1>1, InsertIs
        <3>7. UNCHANGED <<file, base, inode, seen, offset, processed>>
            BY <2>10 DEF SpoolLine
        <3>8. QED
            BY <3>3, <3>6, <3>7, <2>7
    <2>11. CASE ReadNewLines
        <3>1. UNCHANGED <<file, spool, processed>> /\ batch' = Unread /\ batch = <<>>
            BY <2>11, <1>1 DEF ReadNewLines, ListsInv
        <3>2. processed[e] > 0 \/ Kept(e)
            BY <3>1 DEF Logged, KeptInv
        <3>3. Ahead(e) => e \in Elements(Unread)
            BY UnreadHas DEF ShapeInv
        <3>4. e \notin Elements(batch)
            BY <3>1, EmptyElements
        <3>5. QED
            BY <3>1, <3>2, <3>3, <3>4 DEF Kept
    <2>12. CASE NothingNew
        <3>1. UNCHANGED <<file, base, inode, spool, batch, processed>> /\ seen' = inode
              /\ offset' = StartAt
            BY <2>12 DEF NothingNew
        <3>2. StartAt' = StartAt
            BY <3>1, <1>1 DEF StartAt, Size
        <3>3. processed[e] > 0 \/ Kept(e)
            BY <3>1 DEF Logged, KeptInv
        <3>4. QED
            BY <3>1, <3>2, <3>3 DEF Kept, Ahead
    <2>13. CASE Crash
        <3>1. UNCHANGED <<file, base, inode, seen, offset, spool, processed>> /\ batch = <<>>
              /\ batch' = <<>>
            BY <2>13 DEF Crash
        <3>2. QED
            BY <3>1, <1>2, <1>4
    <2>14. CASE Restart
        <3>1. UNCHANGED <<file, base, inode, spool, batch, processed>>
              /\ seen' = saved.inode /\ offset' = saved.offset
            BY <2>14 DEF Restart
        <3>2. saved.inode = inode => seen = inode /\ offset = saved.offset
            BY DEF PositionInv
        <3>3. StartAt' = StartAt
            BY <3>1, <3>2, <1>1, SavedIsRead DEF StartAt, Size
        <3>4. processed[e] > 0 \/ Kept(e)
            BY <3>1 DEF Logged, KeptInv
        <3>5. QED
            BY <3>1, <3>3, <3>4 DEF Kept, Ahead
    <2>15. CASE UNCHANGED vars
        BY <2>15, <1>2, <1>4 DEF vars
    <2>16. QED
        BY <2>1, <2>2, <2>3, <2>4, <2>5, <2>6, <2>8, <2>9, <2>10, <2>11, <2>12, <2>13,
           <2>14, <2>15 DEF Next, Drain, Ship, Proxy
<1>6. QED
    BY <1>3, <1>5

LEMMA KeptInit == Init => PositionInv /\ KeptInv
<1> SUFFICES ASSUME Init PROVE PositionInv /\ KeptInv
    OBVIOUS
<1>1. PositionInv
    BY DEF Init, PositionInv
<1>2. Logged = {}
    BY EmptyElements DEF Init, Logged
<1>3. QED
    BY <1>1, <1>2 DEF KeptInv

(* "An unreachable hub must cost latency and nothing else": however often   *)
(* the hub fails, the sidecar restarts between two batches or the file is   *)
(* recreated, no line that was written is neither with the hub nor kept.    *)
THEOREM NothingIsLost == Spec => []NothingLost
<1>1. Init => ShapeInv /\ PositionInv /\ KeptInv
    BY ShapeInit, KeptInit
<1>2. ShapeInv /\ PositionInv /\ KeptInv /\ [Next]_vars
        => (ShapeInv /\ PositionInv /\ KeptInv)'
    BY ShapeStep, PositionStep, KeptStep
<1>3. ASSUME ShapeInv, PositionInv, KeptInv PROVE NothingLost
    <2> SUFFICES ASSUME ~struck, NEW e \in Logged PROVE Accounted(e)
        BY DEF NothingLost
    <2>1. processed[e] > 0 \/ Kept(e)
        BY <1>3 DEF KeptInv
    <2>2. SubSeq(file, base + (IF saved.inode = inode THEN saved.offset ELSE 0) + 1,
                 Len(file)) = Unread
        BY <1>3, SavedIsRead DEF Unread
    <2>3. Ahead(e) => e \in Elements(Unread)
        BY <1>3, UnreadHas DEF ShapeInv
    <2>4. QED
        BY <2>1, <2>2, <2>3 DEF Accounted, Held, Kept
<1>4. QED
    BY <1>1, <1>2, <1>3, PTL DEF Spec

-----------------------------------------------------------------------------
(* Nothing is delivered twice without a fault.                             *)

LEMMA OnceTail ==
    ASSUME NEW S, NEW q \in Seq(S), q # <<>>, Once(q)
    PROVE  Once(Tail(q)) /\ (Head(q) \in Events => Head(q) \notin Elements(Tail(q)))
<1>1. /\ Head(q) = q[1] /\ Len(q) \in Nat /\ Len(q) > 0 /\ Len(Tail(q)) = Len(q) - 1
      /\ \A i \in 1..Len(q) - 1 : Tail(q)[i] = q[i + 1]
    BY TailElements
<1>2. ASSUME NEW i \in 1..Len(Tail(q)), NEW j \in 1..Len(Tail(q)),
             Tail(q)[i] = Tail(q)[j], Tail(q)[i] \in Events
      PROVE  i = j
    <2>1. i + 1 \in 1..Len(q) /\ j + 1 \in 1..Len(q) /\ q[i + 1] = q[j + 1]
          /\ q[i + 1] \in Events
        BY <1>1, <1>2
    <2>2. i + 1 = j + 1
        BY <2>1 DEF Once
    <2>3. QED
        BY <2>2
<1>3. ASSUME NEW i \in 1..Len(Tail(q)), Tail(q)[i] = Head(q), Head(q) \in Events
      PROVE  FALSE
    <2>1. i + 1 \in 1..Len(q) /\ 1 \in 1..Len(q) /\ q[i + 1] = q[1] /\ q[1] \in Events
          /\ i + 1 # 1
        BY <1>1, <1>3
    <2>2. QED
        BY <2>1 DEF Once
<1>4. QED
    BY <1>2, <1>3 DEF Once, Elements

LEMMA OnceAppend ==
    ASSUME NEW q \in Seq(Lines), NEW x \in Lines, Once(q),
           x \in Events => x \notin Elements(q)
    PROVE  Once(Append(q, x))
<1>1. /\ Len(Append(q, x)) = Len(q) + 1 /\ Len(q) \in Nat
      /\ \A i \in 1..Len(q) : Append(q, x)[i] = q[i]
      /\ Append(q, x)[Len(q) + 1] = x
    BY AppendElements, LenProperties
<1> SUFFICES ASSUME NEW i \in 1..Len(q) + 1, NEW j \in 1..Len(q) + 1,
                    Append(q, x)[i] = Append(q, x)[j], Append(q, x)[i] \in Events
             PROVE  i = j
    BY <1>1 DEF Once
<1>2. \A k \in 1..Len(q) : x \in Events => q[k] # x
    BY DEF Elements
<1>3. \A k \in 1..Len(q) + 1 : k \in 1..Len(q) \/ k = Len(q) + 1
    BY <1>1
<1>4. QED
    BY <1>1, <1>2, <1>3 DEF Once

LEMMA OnceInsert ==
    ASSUME spool \in Seq(Lines), NEW k \in 0..Len(spool), NEW x \in Lines,
           Once(spool), x \in Events => x \notin Elements(spool)
    PROVE  Once(InsertBefore(k, x))
<1> DEFINE q == InsertBefore(k, x)
           n == Len(spool) - k
           At(i) == IF i <= n THEN i ELSE i - 1
<1>1. /\ Len(q) = Len(spool) + 1 /\ n \in 0..Len(spool) /\ Len(spool) \in Nat
      /\ \A i \in 1..Len(spool) + 1 : q[i] =
            IF i <= n THEN spool[i] ELSE IF i = n + 1 THEN x ELSE spool[i - 1]
    BY InsertIs, LenProperties
<1> HIDE DEF q, n
<1> SUFFICES ASSUME NEW i \in 1..Len(spool) + 1, NEW j \in 1..Len(spool) + 1,
                    q[i] = q[j], q[i] \in Events
             PROVE  i = j
    BY <1>1 DEF Once, q
<1>2. \A m \in 1..Len(spool) : x \in Events => spool[m] # x
    BY DEF Elements
<1>3. ASSUME NEW m \in 1..Len(spool) + 1, m # n + 1
      PROVE  At(m) \in 1..Len(spool) /\ q[m] = spool[At(m)]
    BY <1>1, <1>3
<1>4. q[n + 1] = x
    BY <1>1, n + 1 \in 1..Len(spool) + 1
<1>5. CASE i = n + 1 /\ j = n + 1
    BY <1>5
<1>6. CASE i = n + 1 /\ j # n + 1
    BY <1>2, <1>3, <1>4, <1>6
<1>7. CASE i # n + 1 /\ j = n + 1
    BY <1>2, <1>3, <1>4, <1>7
<1>8. CASE i # n + 1 /\ j # n + 1
    <2>1. At(i) = At(j)
        BY <1>3, <1>8 DEF Once
    <2>2. QED
        BY <2>1, <1>1, <1>8
<1>9. QED
    BY <1>5, <1>6, <1>7, <1>8

LEMMA OnceRemove ==
    ASSUME spool \in Seq(Lines), todo \in Seq(Lines), todo # <<>>, ListsInv, Once(spool)
    PROVE  LET q == SubSeq(spool, 1, Len(spool) - Len(todo)) \o Tail(todo)
           IN  Once(q) /\ (Head(todo) \in Events => Head(todo) \notin Elements(q))
<1> DEFINE n == Len(spool) - Len(todo)
           q == SubSeq(spool, 1, n) \o Tail(todo)
           At(i) == IF i <= n THEN i ELSE i + 1
<1>1. /\ Len(q) = Len(spool) - 1 /\ n \in 0..Len(spool) - 1 /\ Len(spool) \in Nat
      /\ \A i \in 1..Len(spool) - 1 : q[i] = IF i <= n THEN spool[i] ELSE spool[i + 1]
      /\ spool[n + 1] = Head(todo)
    BY RemoveIs, LenProperties
<1> HIDE DEF q, n
<1>2. ASSUME NEW i \in 1..Len(spool) - 1
      PROVE  At(i) \in 1..Len(spool) /\ At(i) # n + 1 /\ q[i] = spool[At(i)]
    BY <1>1
<1>3. ASSUME NEW i \in 1..Len(spool) - 1, NEW j \in 1..Len(spool) - 1,
             q[i] = q[j], q[i] \in Events
      PROVE  i = j
    <2>1. At(i) = At(j)
        BY <1>2, <1>3 DEF Once
    <2>2. QED
        BY <2>1, <1>1
<1>4. ASSUME NEW i \in 1..Len(spool) - 1, q[i] = Head(todo), Head(todo) \in Events
      PROVE  FALSE
    <2>1. n + 1 \in 1..Len(spool) /\ spool[n + 1] = spool[At(i)] /\ spool[n + 1] \in Events
        BY <1>1, <1>2, <1>4
    <2>2. QED
        BY <2>1, <1>2 DEF Once
<1>5. QED
    BY <1>1, <1>3, <1>4 DEF Once, Elements, q, n

(* What the proxy's steps do to the file.                                   *)
LEMMA FileGrows ==
    ASSUME ShapeInv, [Next]_vars
    PROVE  \/ UNCHANGED <<file, emitted>>
           \/ \E s \in Sessions : EmitFails(s)
           \/ \E s \in Sessions : Emit(s)
BY DEF Next, Drain, StartPass, PostSpooled, Post, SpooledDelivered,
    SpooledUnreadable, UnlinkFails, SpooledRefused, SpoolDrained, Ship, ReadNewLines,
    NothingNew, SaveFails, PostLine, LineDelivered, SpoolLine, SpoolFails, BatchDone,
    Hub, HubAccepts, HubRejects, HubFails, TimesOut, HubIsLate, Proxy,
    Recreate, Truncate, Crash, Restart, vars

LEMMA EmitIs ==
    ASSUME ShapeInv, NEW s \in Sessions, Emit(s)
    PROVE  LET line == IF torn THEN Garbled ELSE <<s, emitted[s] + 1>>
           IN  /\ line \in Lines /\ file' = Append(file, line)
               /\ line \in Events => line = <<s, emitted[s] + 1>>
               /\ Len(file') = Len(file) + 1 /\ Len(file) \in Nat
               /\ \A i \in 1..Len(file) : file'[i] = file[i]
               /\ file'[Len(file) + 1] = line
               /\ Elements(file') = Elements(file) \cup {line}
               /\ emitted[s] \in Nat /\ emitted'[s] = emitted[s] + 1
               /\ \A x \in Sessions \ {s} : emitted'[x] = emitted[x]
<1> DEFINE line == IF torn THEN Garbled ELSE <<s, emitted[s] + 1>>
<1>1. /\ emitted \in [Sessions -> 0..PerSession] /\ file \in Seq(Lines)
      /\ emitted[s] < PerSession /\ emitted' = [emitted EXCEPT ![s] = @ + 1]
      /\ file' = Append(file, line)
    BY DEF Emit, ShapeInv, TypeOK
<1>2. emitted[s] \in Nat /\ emitted'[s] = emitted[s] + 1
      /\ \A x \in Sessions \ {s} : emitted'[x] = emitted[x]
    BY <1>1, ShipperAssumption
<1>3. line \in Lines /\ (line \in Events => line = <<s, emitted[s] + 1>>)
    BY <1>1, <1>2, ShipperAssumption DEF Lines, Events
<1> HIDE DEF line
<1>4. /\ Len(file') = Len(file) + 1 /\ Len(file) \in Nat
      /\ \A i \in 1..Len(file) : file'[i] = file[i]
      /\ file'[Len(file) + 1] = line
      /\ Elements(file') = Elements(file) \cup {line}
    BY <1>1, <1>3, AppendElements, LenProperties
<1>5. QED
    BY <1>1, <1>2, <1>3, <1>4 DEF line

LEMMA FileOnceStep ==
    ASSUME ShapeInv, OnceInFile, [Next]_vars
    PROVE  OnceInFile'
<1>1. CASE UNCHANGED <<file, emitted>>
    BY <1>1 DEF OnceInFile
<1>2. \A e \in Events : e = <<e[1], e[2]>> /\ e[1] \in Sessions /\ e[2] \in 1..PerSession
    BY DEF Events
<1>3. emitted \in [Sessions -> 0..PerSession] /\ file \in Seq(Lines)
    BY DEF ShapeInv, TypeOK
<1>4. ASSUME NEW s \in Sessions, EmitFails(s) PROVE OnceInFile'
    <2>1. file' = file /\ emitted' = [emitted EXCEPT ![s] = @ + 1]
        BY <1>4 DEF EmitFails
    <2>2. \A x \in Sessions : emitted[x] \in Nat /\ emitted'[x] \in Nat /\ emitted'[x] >= emitted[x]
        BY <2>1, <1>3, ShipperAssumption
    <2>3. ASSUME NEW e \in Events, e \in Elements(file) PROVE e[2] <= emitted'[e[1]]
        BY <2>2, <2>3, <1>2, ShipperAssumption DEF OnceInFile
    <2>4. QED
        BY <2>1, <2>3 DEF OnceInFile
<1>5. ASSUME NEW s \in Sessions, Emit(s) PROVE OnceInFile'
    <2> DEFINE line == IF torn THEN Garbled ELSE <<s, emitted[s] + 1>>
    <2>1. /\ line \in Lines /\ file' = Append(file, line)
          /\ line \in Events => line = <<s, emitted[s] + 1>>
          /\ Elements(file') = Elements(file) \cup {line}
          /\ emitted[s] \in Nat /\ emitted'[s] = emitted[s] + 1
          /\ \A x \in Sessions \ {s} : emitted'[x] = emitted[x]
        BY <1>5, EmitIs
    <2> HIDE DEF line
    <2>2. ASSUME line \in Events, line \in Elements(file) PROVE FALSE
        <3>1. line[2] <= emitted[line[1]]
            BY <2>2 DEF OnceInFile
        <3>2. line[1] = s /\ line[2] = emitted[s] + 1
            BY <2>1, <2>2
        <3>3. QED
            BY <3>1, <3>2, <2>1
    <2>3. Once(file')
        BY <2>1, <2>2, <1>3, OnceAppend DEF OnceInFile
    <2>4. ASSUME NEW e \in Events, e \in Elements(file') PROVE e[2] <= emitted'[e[1]]
        <3>1. CASE e = line
            <4>1. e[1] = s /\ e[2] = emitted[s] + 1
                BY <3>1, <2>1
            <4>2. QED
                BY <4>1, <2>1
        <3>2. CASE e \in Elements(file)
            <4>1. e[2] <= emitted[e[1]] /\ e[1] \in Sessions /\ e[2] \in Nat
                BY <3>2, <1>2, ShipperAssumption DEF OnceInFile
            <4>2. emitted[e[1]] \in Nat
                BY <4>1, <1>3, ShipperAssumption
            <4>3. emitted'[e[1]] = emitted[e[1]] \/ emitted'[e[1]] = emitted[e[1]] + 1
                BY <4>1, <2>1
            <4>4. QED
                BY <4>1, <4>2, <4>3
        <3>3. QED
            BY <3>1, <3>2, <2>1, <2>4
    <2>5. QED
        BY <2>3, <2>4 DEF OnceInFile
<1>6. QED
    BY <1>1, <1>4, <1>5, FileGrows

LEMMA PassedIs ==
    TypeOK /\ FileInv => Passed \in Nat /\ base <= Passed /\ Passed <= Len(file) /\ Len(file) \in Nat
<1> SUFFICES ASSUME TypeOK, FileInv
             PROVE  Passed \in Nat /\ base <= Passed /\ Passed <= Len(file) /\ Len(file) \in Nat
    OBVIOUS
<1>1. /\ Len(file) \in Nat /\ base \in Nat /\ StartAt \in Nat /\ StartAt <= Len(file) - base
      /\ Passed \in Nat /\ Passed <= base + StartAt /\ base <= Passed
    BY UnreadIs DEF Size
<1>2. QED
    BY <1>1

LEMMA PassedIsNext ==
    TypeOK' /\ FileInv' => (Passed \in Nat /\ base <= Passed /\ Passed <= Len(file)
                           /\ Len(file) \in Nat)'
BY PassedIs, PTL

LEMMA LeastGrows ==
    ASSUME NEW a \in Nat, NEW b \in Nat, NEW c \in Nat, NEW d \in Nat, a <= c, b <= d
    PROVE  (IF c <= d THEN c ELSE d) >= (IF a <= b THEN a ELSE b)
OBVIOUS

(* What counts as read stays read.                                          *)
LEMMA PassedGrows ==
    ASSUME ShapeInv, [Next]_vars
    PROVE  /\ Passed' >= Passed /\ Passed \in Nat /\ Passed' \in Nat /\ Passed <= Len(file)
           /\ Len(file) \in Nat /\ Len(file') \in Nat /\ Len(file') >= Len(file)
           /\ \A i \in 1..Len(file) : file'[i] = file[i]
<1>1. /\ Len(file) \in Nat /\ base \in Nat /\ Size \in Nat /\ StartAt \in Nat
      /\ StartAt <= Size /\ SavedStart \in Nat /\ SavedStart <= Size
      /\ inode \in Nat /\ seen \in Nat /\ offset \in Nat
      /\ saved.inode \in Nat /\ saved.offset \in Nat /\ FileInv
      /\ Size = Len(file) - base /\ Passed \in Nat /\ Passed <= base + StartAt
      /\ base <= Passed /\ Passed <= Len(file)
    BY UnreadIs, PassedIs DEF ShapeInv, TypeOK, Size
<1>9. Passed' \in Nat /\ base' <= Passed' /\ Len(file') \in Nat
    BY ShapeStep, PassedIsNext DEF ShapeInv
<1>2. CASE UNCHANGED <<file, base, inode, seen, offset, saved>>
    BY <1>1, <1>2 DEF Passed, StartAt, SavedStart, Size
<1>3. ASSUME NEW s \in Sessions, Emit(s)
      PROVE  /\ Passed' >= Passed /\ Len(file') >= Len(file)
             /\ \A i \in 1..Len(file) : file'[i] = file[i]
    <2>1. Len(file') = Len(file) + 1 /\ \A i \in 1..Len(file) : file'[i] = file[i]
        BY <1>3, EmitIs
    <2>2. UNCHANGED <<base, inode, seen, offset, saved>>
        BY <1>3 DEF Emit
    <2>3. Size' = Size + 1
        BY <2>1, <2>2, <1>1 DEF Size
    <2>4. StartAt' >= StartAt /\ StartAt' \in Nat
        BY <2>2, <2>3, <1>1 DEF StartAt
    <2>5. SavedStart' >= SavedStart /\ SavedStart' \in Nat
        BY <2>2, <2>3, <1>1 DEF SavedStart
    <2>6. Passed' >= Passed
        <3> DEFINE m == IF StartAt <= SavedStart THEN StartAt ELSE SavedStart
                   n == IF StartAt' <= SavedStart' THEN StartAt' ELSE SavedStart'
        <3>1. n >= m /\ n \in Nat /\ m \in Nat
            BY <2>2, <2>4, <2>5, <1>1, LeastGrows
        <3>2. base' = base /\ Passed = base + m /\ Passed' = base' + n
            BY <2>2 DEF Passed
        <3> HIDE DEF m, n
        <3>3. QED
            BY <3>1, <3>2, <1>1
    <2>7. QED
        BY <2>1, <2>6, <1>1
<1>4. ASSUME Recreate \/ Truncate PROVE Passed' >= Passed /\ file' = file
    <2>1. base' = Len(file) /\ file' = file
        BY <1>4 DEF Recreate, Truncate
    <2>2. QED
        BY <2>1, <1>1, <1>9
<1>5. ASSUME ReadNewLines \/ NothingNew \/ SaveFails PROVE Passed' >= Passed /\ file' = file
    <2>1. /\ UNCHANGED <<file, base, inode>> /\ seen' = inode
          /\ offset' = Size \/ offset' = StartAt
          /\ saved' = saved \/ saved' = [inode |-> inode, offset |-> Size]
        BY <1>5 DEF ReadNewLines, NothingNew, SaveFails
    <2>2. Size' = Size
        BY <2>1 DEF Size
    <2>3. StartAt' \in Nat /\ StartAt' >= StartAt
        <3>1. offset' \in Nat /\ offset' <= Size /\ offset' >= StartAt
            BY <2>1, <1>1
        <3>2. StartAt' = offset'
            BY <3>1, <2>1, <2>2, <1>1 DEF StartAt
        <3>3. QED
            BY <3>1, <3>2
    <2>4. SavedStart' \in Nat /\ SavedStart' >= SavedStart
        <3>1. CASE saved' = saved
            BY <3>1, <2>1, <2>2, <1>1 DEF SavedStart
        <3>2. CASE saved' = [inode |-> inode, offset |-> Size]
            BY <3>2, <2>1, <2>2, <1>1 DEF SavedStart
        <3>3. QED
            BY <3>1, <3>2, <2>1
    <2>5. QED
        <3> DEFINE m == IF StartAt <= SavedStart THEN StartAt ELSE SavedStart
                   n == IF StartAt' <= SavedStart' THEN StartAt' ELSE SavedStart'
        <3>1. n >= m /\ n \in Nat /\ m \in Nat
            BY <2>1, <2>3, <2>4, <1>1, LeastGrows
        <3>2. base' = base /\ Passed = base + m /\ Passed' = base' + n
            BY <2>1 DEF Passed
        <3> HIDE DEF m, n
        <3>3. QED
            BY <3>1, <3>2, <2>1, <1>1
<1>6. ASSUME Restart PROVE Passed' >= Passed /\ file' = file
    <2>1. UNCHANGED <<file, base, inode, saved>> /\ seen' = saved.inode /\ offset' = saved.offset
        BY <1>6 DEF Restart
    <2>2. StartAt' = SavedStart /\ SavedStart' = SavedStart
        BY <2>1 DEF StartAt, SavedStart, Size
    <2>3. QED
        BY <2>1, <2>2, <1>1 DEF Passed
<1>7. \/ UNCHANGED <<file, base, inode, seen, offset, saved>>
      \/ \E s \in Sessions : Emit(s)
      \/ Recreate \/ Truncate \/ ReadNewLines \/ NothingNew \/ SaveFails \/ Restart
    BY DEF Next, Drain, StartPass, PostSpooled, Post, SpooledDelivered,
        SpooledUnreadable, UnlinkFails, SpooledRefused, SpoolDrained, Ship,
        PostLine, LineDelivered, SpoolLine, SpoolFails, BatchDone,
        Hub, HubAccepts, HubRejects, HubFails, TimesOut, HubIsLate, Proxy,
        EmitFails, Crash, vars
<1>8. Passed' >= Passed /\ Len(file') >= Len(file) /\ \A i \in 1..Len(file) : file'[i] = file[i]
    BY <1>1, <1>2, <1>3, <1>4, <1>5, <1>6, <1>7
<1>10. QED
    BY <1>1, <1>8, <1>9

(* How the batch and the spool change.                                      *)
LEMMA HandSteps ==
    ASSUME ShapeInv, [Next]_vars
    PROVE  \/ UNCHANGED <<batch, spool>>
           \/ ReadNewLines /\ batch = <<>> /\ batch' = Unread /\ spool' = spool
           \/ /\ SpooledDelivered /\ todo # <<>> /\ request = Head(todo) /\ batch = <<>>
              /\ batch' = <<>> /\ reply = "accepted"
              /\ spool' = SubSeq(spool, 1, Len(spool) - Len(todo)) \o Tail(todo)
           \/ /\ LineDelivered /\ batch # <<>> /\ request = Head(batch)
              /\ batch' = Tail(batch) /\ spool' = spool /\ reply = "accepted"
           \/ /\ SpoolLine /\ batch # <<>> /\ request = Head(batch) /\ batch' = Tail(batch)
              /\ reply = "refused" /\ request \in Lines
              /\ \E k \in 0..Len(spool) : spool' = InsertBefore(k, request)
           \/ /\ SpoolFails \/ Crash
              /\ batch' = <<>> /\ spool' \in {spool, Append(spool, Garbled)}
<1>1. ListsInv /\ RequestInv /\ Len(spool) \in Nat /\ recent \in Nat /\ request \in Lines \cup {NoLine}
    BY LenProperties DEF ShapeInv, TypeOK
<1>2. ASSUME SpooledDelivered
      PROVE  /\ todo # <<>> /\ request = Head(todo) /\ batch = <<>> /\ batch' = <<>>
             /\ reply = "accepted"
             /\ spool' = SubSeq(spool, 1, Len(spool) - Len(todo)) \o Tail(todo)
    BY <1>1, <1>2 DEF SpooledDelivered, Answered, ListsInv, RequestInv
<1>3. ASSUME LineDelivered
      PROVE  /\ batch # <<>> /\ request = Head(batch)
             /\ batch' = Tail(batch) /\ spool' = spool /\ reply = "accepted"
    BY <1>1, <1>3 DEF LineDelivered, Answered, RequestInv
<1>4. ASSUME SpoolLine
      PROVE  /\ batch # <<>> /\ request = Head(batch) /\ batch' = Tail(batch)
             /\ reply = "refused" /\ request \in Lines
             /\ \E k \in 0..Len(spool) : spool' = InsertBefore(k, request)
    <2>1. pc = "ship" /\ reply = "refused" /\ batch' = Tail(batch)
        BY <1>4 DEF SpoolLine, Answered
    <2>2. request # NoLine /\ batch # <<>> /\ request = Head(batch)
        BY <2>1, <1>1 DEF RequestInv
    <2>3. 0..recent \subseteq 0..Len(spool) /\ 0 \in 0..Len(spool)
        BY <1>1 DEF ListsInv
    <2>4. \E k \in 0..Len(spool) : spool' = InsertBefore(k, request)
        BY <1>4, <2>3 DEF SpoolLine
    <2>5. QED
        BY <2>1, <2>2, <2>4, <1>1
<1>5. ASSUME SpoolFails \/ Crash
      PROVE  batch' = <<>> /\ spool' \in {spool, Append(spool, Garbled)}
    BY <1>5 DEF SpoolFails, Crash
<1>6. ASSUME ReadNewLines PROVE batch = <<>> /\ batch' = Unread /\ spool' = spool
    BY <1>6, <1>1 DEF ReadNewLines, ListsInv
<1>7. \/ UNCHANGED <<batch, spool>> \/ SpooledDelivered \/ LineDelivered \/ SpoolLine
      \/ SpoolFails \/ Crash \/ ReadNewLines
    BY DEF Next, Drain, StartPass, PostSpooled, Post,
        SpooledUnreadable, UnlinkFails, SpooledRefused, SpoolDrained, Ship,
        NothingNew, SaveFails, PostLine, BatchDone,
        Hub, HubAccepts, HubRejects, HubFails, TimesOut, HubIsLate, Proxy, Emit,
        EmitFails, Recreate, Truncate, Restart, vars
<1>8. QED
    BY <1>2, <1>3, <1>4, <1>5, <1>6, <1>7

(* An event is new in hand only when it is read, and then it was not seen.  *)
LEMMA HandGrows ==
    ASSUME ShapeInv, [Next]_vars, NEW e \in Events, InHand(e)'
    PROVE  \/ InHand(e)
           \/ ReadNewLines /\ Ahead(e) /\ batch = <<>>
<1>1. /\ spool \in Seq(Lines) /\ todo \in Seq(Lines) /\ batch \in Seq(Lines) /\ ListsInv
      /\ Garbled \in Lines /\ e # Garbled
    BY ShipperAssumption DEF ShapeInv, TypeOK, Lines
<1>2. CASE UNCHANGED <<batch, spool>>
    BY <1>2 DEF InHand
<1>3. CASE ReadNewLines /\ batch = <<>> /\ batch' = Unread /\ spool' = spool
    BY <1>3, UnreadHas DEF InHand, ShapeInv
<1>4. CASE /\ SpooledDelivered /\ todo # <<>> /\ request = Head(todo) /\ batch = <<>>
           /\ batch' = <<>> /\ reply = "accepted"
           /\ spool' = SubSeq(spool, 1, Len(spool) - Len(todo)) \o Tail(todo)
    <2>1. Elements(spool) = Elements(spool') \cup {Head(todo)}
        BY <1>1, <1>4, RemoveIs
    <2>2. QED
        BY <2>1, <1>4 DEF InHand
<1>5. CASE /\ LineDelivered /\ batch # <<>> /\ request = Head(batch)
           /\ batch' = Tail(batch) /\ spool' = spool /\ reply = "accepted"
    <2>1. Elements(batch) = Elements(batch') \cup {Head(batch)}
        BY <1>1, <1>5, TailElements
    <2>2. QED
        BY <2>1, <1>5 DEF InHand
<1>6. CASE /\ SpoolLine /\ batch # <<>> /\ request = Head(batch) /\ batch' = Tail(batch)
           /\ reply = "refused" /\ request \in Lines
           /\ \E k \in 0..Len(spool) : spool' = InsertBefore(k, request)
    <2>1. Elements(batch) = Elements(batch') \cup {Head(batch)}
        BY <1>1, <1>6, TailElements
    <2>2. PICK k \in 0..Len(spool) : spool' = InsertBefore(k, request)
        BY <1>6
    <2>3. Elements(spool') = Elements(spool) \cup {request}
        BY <2>2, <1>1, <1>6, InsertIs
    <2>4. QED
        BY <2>1, <2>3, <1>6 DEF InHand
<1>7. CASE /\ SpoolFails \/ Crash
           /\ batch' = <<>> /\ spool' \in {spool, Append(spool, Garbled)}
    <2>1. Elements(Append(spool, Garbled)) = Elements(spool) \cup {Garbled}
        BY <1>1, AppendElements
    <2>2. e \in Elements(spool)
        BY <2>1, <1>1, <1>7, EmptyElements DEF InHand
    <2>3. QED
        BY <2>2 DEF InHand
<1>8. QED
    BY <1>2, <1>3, <1>4, <1>5, <1>6, <1>7, HandSteps

LEMMA HandOnceStep ==
    ASSUME ShapeInv, OnceInFile, OnceInHand, [Next]_vars
    PROVE  OnceInHand'
<1>1. /\ spool \in Seq(Lines) /\ todo \in Seq(Lines) /\ batch \in Seq(Lines) /\ ListsInv
      /\ Garbled \in Lines /\ Garbled \notin Events
    BY ShipperAssumption DEF ShapeInv, TypeOK, Lines
<1>2. /\ Passed' >= Passed /\ Passed \in Nat /\ Passed' \in Nat
      /\ Len(file) \in Nat /\ Len(file') \in Nat /\ Len(file') >= Len(file)
      /\ \A i \in 1..Len(file) : file'[i] = file[i]
    BY PassedGrows
<1>3. ASSUME NEW e \in Events, InHand(e)'
      PROVE  \E i \in 1..Passed' : i <= Len(file') /\ file'[i] = e
    <2>1. CASE InHand(e)
        <3>1. PICK i \in 1..Passed : i <= Len(file) /\ file[i] = e
            BY <2>1 DEF OnceInHand
        <3>2. i \in 1..Passed' /\ i <= Len(file') /\ file'[i] = e
            BY <3>1, <1>2
        <3>3. QED
            BY <3>2
    <2>2. CASE ReadNewLines /\ Ahead(e)
        <3>1. PICK i \in base + StartAt + 1 .. Len(file) : file[i] = e
            BY <2>2 DEF Ahead
        <3>2. i \in 1..Len(file)
            BY <3>1, <1>2, UnreadIs DEF ShapeInv
        <3>3. Passed' = Len(file)
            <4>1. /\ UNCHANGED <<file, base, inode>> /\ seen' = inode /\ offset' = Size
                  /\ saved' = [inode |-> inode, offset |-> Size]
                BY <2>2 DEF ReadNewLines
            <4>2. Size \in Nat /\ base \in Nat /\ Size' = Size /\ Size = Len(file) - base
                BY <4>1, UnreadIs DEF ShapeInv, Size
            <4>3. StartAt' = Size
                BY <4>1, <4>2 DEF StartAt
            <4>4. SavedStart' = Size
                BY <4>1, <4>2 DEF SavedStart
            <4>5. QED
                BY <4>1, <4>2, <4>3, <4>4, <1>2 DEF Passed
        <3>4. i \in 1..Passed' /\ i <= Len(file') /\ file'[i] = e
            BY <3>1, <3>2, <3>3, <1>2
        <3>5. QED
            BY <3>4
    <2>3. QED
        BY <2>1, <2>2, <1>3, HandGrows
<1>4. ASSUME NEW e \in Events, Ahead(e)
      PROVE  ~InHand(e)
    <2>1. PICK i \in base + StartAt + 1 .. Len(file) : file[i] = e
        BY <1>4 DEF Ahead
    <2>2. i \in 1..Len(file) /\ i > Passed
        BY <2>1, <1>2, UnreadIs DEF ShapeInv
    <2>3. ASSUME NEW j \in 1..Passed, j <= Len(file), file[j] = e PROVE FALSE
        <3>1. j \in 1..Len(file) /\ file[i] = file[j] /\ file[i] \in Events
            BY <2>1, <2>3, <1>2
        <3>2. i = j
            BY <2>2, <3>1 DEF OnceInFile, Once
        <3>3. QED
            BY <2>2, <3>2, <1>2
    <2>4. QED
        BY <2>3 DEF OnceInHand
<1>5. Once(<<>>) /\ Elements(<<>>) = {}
    BY EmptyElements DEF Once
<1>6. /\ Once(batch') /\ Once(spool')
      /\ \A e \in Events : e \notin Elements(batch') \/ e \notin Elements(spool')
    <2>1. /\ Once(batch) /\ Once(spool)
          /\ \A e \in Events : e \notin Elements(batch) \/ e \notin Elements(spool)
        BY DEF OnceInHand
    <2>2. CASE UNCHANGED <<batch, spool>>
        BY <2>1, <2>2
    <2>3. CASE ReadNewLines /\ batch = <<>> /\ batch' = Unread /\ spool' = spool
        <3>1. Once(Unread)
            <4> SUFFICES ASSUME NEW i \in 1..Len(Unread), NEW j \in 1..Len(Unread),
                                Unread[i] = Unread[j], Unread[i] \in Events
                         PROVE  i = j
                BY DEF Once
            <4>0. /\ base \in Nat /\ StartAt \in Nat /\ Len(file) \in Nat
                  /\ Len(Unread) = Len(file) - base - StartAt
                  /\ \A m \in 1..Len(Unread) : Unread[m] = file[base + StartAt + m]
                BY UnreadIs DEF ShapeInv, Size
            <4>1. /\ base + StartAt + i \in 1..Len(file) /\ base + StartAt + j \in 1..Len(file)
                  /\ base \in Nat /\ StartAt \in Nat
                  /\ file[base + StartAt + i] = file[base + StartAt + j]
                  /\ file[base + StartAt + i] \in Events
                <5>1. base + StartAt + i \in 1..Len(file) /\ base + StartAt + j \in 1..Len(file)
                    BY <4>0
                <5>2. Unread[i] = file[base + StartAt + i] /\ Unread[j] = file[base + StartAt + j]
                    BY <4>0
                <5>3. QED
                    BY <5>1, <5>2, <4>0
            <4>2. base + StartAt + i = base + StartAt + j
                BY <4>1 DEF OnceInFile, Once
            <4>3. QED
                BY <4>1, <4>2
        <3>2. \A e \in Events : e \in Elements(Unread) => ~InHand(e)
            BY <1>4, UnreadHas DEF ShapeInv
        <3>3. QED
            BY <2>1, <2>3, <3>1, <3>2 DEF InHand
    <2>4. CASE /\ SpooledDelivered /\ todo # <<>> /\ request = Head(todo) /\ batch = <<>>
               /\ batch' = <<>> /\ reply = "accepted"
               /\ spool' = SubSeq(spool, 1, Len(spool) - Len(todo)) \o Tail(todo)
        <3>1. Once(spool')
            BY <2>1, <2>4, <1>1, OnceRemove
        <3>2. QED
            BY <3>1, <2>4, <1>5
    <2>5. CASE /\ LineDelivered /\ batch # <<>> /\ request = Head(batch)
               /\ batch' = Tail(batch) /\ spool' = spool /\ reply = "accepted"
        <3>1. Once(batch') /\ Elements(batch) = Elements(batch') \cup {Head(batch)}
            BY <2>1, <2>5, <1>1, OnceTail, TailElements
        <3>2. QED
            BY <3>1, <2>1, <2>5
    <2>6. CASE /\ SpoolLine /\ batch # <<>> /\ request = Head(batch) /\ batch' = Tail(batch)
               /\ reply = "refused" /\ request \in Lines
               /\ \E k \in 0..Len(spool) : spool' = InsertBefore(k, request)
        <3>1. /\ Once(batch') /\ Elements(batch) = Elements(batch') \cup {request}
              /\ request \in Events => request \notin Elements(batch')
            BY <2>1, <2>6, <1>1, OnceTail, TailElements
        <3>2. PICK k \in 0..Len(spool) : spool' = InsertBefore(k, request)
            BY <2>6
        <3>3. request \in Events => request \notin Elements(spool)
            BY <3>1, <2>1
        <3>4. Once(spool') /\ Elements(spool') = Elements(spool) \cup {request}
            BY <3>2, <3>3, <2>1, <2>6, <1>1, OnceInsert, InsertIs
        <3>5. QED
            BY <3>1, <3>4, <2>1
    <2>7. CASE /\ SpoolFails \/ Crash
               /\ batch' = <<>> /\ spool' \in {spool, Append(spool, Garbled)}
        <3>1. Once(spool')
            BY <2>1, <2>7, <1>1, OnceAppend
        <3>2. QED
            BY <3>1, <2>7, <1>5
    <2>8. QED
        BY <2>2, <2>3, <2>4, <2>5, <2>6, <2>7, HandSteps
<1>7. QED
    BY <1>3, <1>6 DEF OnceInHand, InHand

(* An event the sidecar has in hand is neither to be emitted nor to be read.*)
LEMMA HandOnly ==
    ASSUME ShapeInv, OnceInFile, OnceInHand, NEW e \in Events, InHand(e)
    PROVE  ~(e[2] > emitted[e[1]]) /\ ~Unseen(e)
<1>1. PICK i \in 1..Passed : i <= Len(file) /\ file[i] = e
    BY DEF OnceInHand
<1>2. Len(file) \in Nat /\ Passed \in Nat
    BY PassedIs DEF ShapeInv
<1>3. e[1] \in Sessions /\ e[2] \in Nat /\ emitted[e[1]] \in Nat
    BY ShipperAssumption DEF Events, ShapeInv, TypeOK
<1>4. i \in 1..Len(file) /\ e \in Elements(file)
    BY <1>1, <1>2 DEF Elements
<1>5. e[2] <= emitted[e[1]]
    BY <1>4 DEF OnceInFile
<1>6. ASSUME NEW j \in Passed + 1 .. Len(file), file[j] = e PROVE FALSE
    <2>1. j \in 1..Len(file) /\ file[i] = file[j] /\ file[i] \in Events /\ i # j
        BY <1>1, <1>2, <1>6
    <2>2. QED
        BY <2>1, <1>4 DEF OnceInFile, Once
<1>7. QED
    BY <1>3, <1>5, <1>6 DEF Unseen

LEMMA LaterIndex ==
    ASSUME NEW a \in Nat, NEW b \in Nat, NEW m \in Nat, NEW n \in Nat, b >= a,
           NEW i \in b + 1 .. n, i <= m
    PROVE  i \in a + 1 .. m /\ i \in 1..m
OBVIOUS

(* What may still be posted may have been posted before; but an accepted    *)
(* line whose file cannot be unlinked, or whose sidecar dies, is due again. *)
LEMMA OwedStays ==
    ASSUME ShapeInv, OnceInFile, OnceInHand, [Next]_vars, NEW e \in Events, Owed(e)'
    PROVE  \/ Owed(e) /\ ~(HubAccepts /\ request = e)
           \/ (UnlinkFails \/ Crash) /\ reply = "accepted" /\ request = e
<1>1. /\ Passed' >= Passed /\ Passed \in Nat /\ Passed' \in Nat
      /\ Len(file) \in Nat /\ Len(file') \in Nat /\ Len(file') >= Len(file)
      /\ \A i \in 1..Len(file) : file'[i] = file[i]
    BY PassedGrows
<1>2. /\ emitted \in [Sessions -> 0..PerSession]
      /\ spool \in Seq(Lines) /\ todo \in Seq(Lines) /\ batch \in Seq(Lines)
      /\ ListsInv /\ RequestInv
    BY DEF ShapeInv, TypeOK
<1>3. e = <<e[1], e[2]>> /\ e[1] \in Sessions /\ e[2] \in Nat /\ emitted[e[1]] \in Nat
    BY <1>2, ShipperAssumption DEF Events
<1>4. ASSUME e[2] > emitted'[e[1]] PROVE e[2] > emitted[e[1]]
    <2>1. emitted'[e[1]] = emitted[e[1]] \/ emitted'[e[1]] = emitted[e[1]] + 1
        <3>1. CASE UNCHANGED <<file, emitted>>
            BY <3>1
        <3>2. CASE \E s \in Sessions : EmitFails(s)
            BY <3>2, <1>2, <1>3, ShipperAssumption DEF EmitFails
        <3>3. CASE \E s \in Sessions : Emit(s)
            BY <3>3, <1>2, <1>3, ShipperAssumption DEF Emit
        <3>4. QED
            BY <3>1, <3>2, <3>3, FileGrows
    <2>2. QED
        BY <2>1, <1>3, <1>4
<1>5. ASSUME Unseen(e)' PROVE Unseen(e) \/ e[2] > emitted[e[1]]
    <2>1. PICK i \in Passed' + 1 .. Len(file') : file'[i] = e
        BY <1>5 DEF Unseen
    <2>2. CASE i <= Len(file)
        <3>0. Passed \in Nat /\ Passed' \in Nat /\ Len(file) \in Nat /\ Len(file') \in Nat
              /\ Passed' >= Passed
            BY <1>1
        <3>1. i \in Passed + 1 .. Len(file) /\ i \in 1..Len(file)
            BY <2>1, <2>2, <3>0, LaterIndex
        <3>2. file[i] = e
            BY <2>1, <3>1, <1>1
        <3>3. QED
            BY <3>1, <3>2 DEF Unseen
    <2>3. CASE i > Len(file)
        <3>0. file' # file
            BY <2>3, <1>1
        <3>1. PICK s \in Sessions : Emit(s)
            BY <3>0, FileGrows DEF EmitFails
        <3>2. Len(file') = Len(file) + 1 /\ emitted[s] \in Nat
              /\ file'[Len(file) + 1] = (IF torn THEN Garbled ELSE <<s, emitted[s] + 1>>)
              /\ ((IF torn THEN Garbled ELSE <<s, emitted[s] + 1>>) \in Events =>
                    (IF torn THEN Garbled ELSE <<s, emitted[s] + 1>>) = <<s, emitted[s] + 1>>)
            BY <3>1, EmitIs
        <3>3. i = Len(file) + 1
            BY <2>1, <2>3, <3>2, <1>1
        <3>4. e = <<s, emitted[s] + 1>>
            BY <2>1, <3>2, <3>3
        <3>5. e[1] = s /\ e[2] = emitted[s] + 1
            BY <3>4
        <3>6. QED
            BY <3>2, <3>5
    <2>4. QED
        BY <2>1, <2>2, <2>3, <1>1
<1>6. ASSUME InHand(e)' PROVE InHand(e) \/ Unseen(e)
    <2>1. CASE Ahead(e)
        <3>1. PICK i \in base + StartAt + 1 .. Len(file) : file[i] = e
            BY <2>1 DEF Ahead
        <3>2. i \in Passed + 1 .. Len(file)
            BY <3>1, <1>1, UnreadIs DEF ShapeInv
        <3>3. QED
            BY <3>1, <3>2 DEF Unseen
    <2>2. QED
        BY <2>1, <1>6, HandGrows
<1>7. e[2] > emitted[e[1]] \/ Unseen(e) \/ InHand(e)
    BY <1>4, <1>5, <1>6 DEF Owed
<1>8. CASE ~(request = e /\ reply = "accepted")
    <2>1. Owed(e)
        BY <1>7, <1>8 DEF Owed
    <2>2. ~(HubAccepts /\ request = e)
        BY DEF Owed, HubAccepts
    <2>3. QED
        BY <2>1, <2>2
<1>9. CASE request = e /\ reply = "accepted"
    <2>1. InHand(e)
        <3>1. request # NoLine
            BY <1>2, <1>9 DEF RequestInv
        <3>2. CASE pc = "drain" /\ todo # <<>> /\ request = Head(todo)
            <4>1. Elements(spool) = Elements(SubSeq(spool, 1, Len(spool) - Len(todo)) \o Tail(todo))
                                        \cup {Head(todo)}
                BY <1>2, <3>2, RemoveIs
            <4>2. QED
                BY <4>1, <3>2, <1>9 DEF InHand
        <3>3. CASE pc = "ship" /\ batch # <<>> /\ request = Head(batch)
            BY <1>2, <1>9, <3>3, TailElements DEF InHand
        <3>4. QED
            BY <3>1, <3>2, <3>3, <1>2 DEF RequestInv
    <2>2. ~(e[2] > emitted[e[1]]) /\ ~Unseen(e)
        BY <2>1, HandOnly
    <2>3. InHand(e)'
        BY <2>2, <1>4, <1>5 DEF Owed
    <2>4. reply' # "accepted" \/ request' # e
        BY DEF Owed
    <2>5. \/ SpooledDelivered \/ UnlinkFails \/ LineDelivered \/ Crash
        BY <2>4, <1>2, <1>9 DEF Next, Drain, StartPass, PostSpooled, Post, SpooledUnreadable,
            SpooledRefused, SpoolDrained, Ship, ReadNewLines, NothingNew, SaveFails,
            PostLine, SpoolLine, SpoolFails, BatchDone, Hub, HubAccepts,
            HubRejects, HubFails, TimesOut, HubIsLate, Proxy, Emit, EmitFails, Recreate,
            Truncate, Restart, vars, Answered, Asked, RequestInv
    <2>6. CASE SpooledDelivered
        <3>1. /\ todo # <<>> /\ request = Head(todo) /\ batch = <<>> /\ UNCHANGED batch
              /\ spool' = SubSeq(spool, 1, Len(spool) - Len(todo)) \o Tail(todo)
            BY <2>6, <1>2, <1>9 DEF SpooledDelivered, Answered, ListsInv, RequestInv
        <3>2. e \notin Elements(spool')
            BY <3>1, <1>2, <1>9, OnceRemove DEF OnceInHand
        <3>3. QED
            BY <3>1, <3>2, <2>3, EmptyElements DEF InHand
    <2>7. CASE LineDelivered
        <3>1. batch # <<>> /\ request = Head(batch) /\ spool' = spool /\ batch' = Tail(batch)
            BY <2>7, <1>2, <1>9 DEF LineDelivered, Answered, RequestInv
        <3>2. e \notin Elements(batch') /\ e \in Elements(batch)
            BY <3>1, <1>2, <1>9, OnceTail, TailElements DEF OnceInHand
        <3>3. e \notin Elements(spool')
            BY <3>1, <3>2 DEF OnceInHand
        <3>4. QED
            BY <3>2, <3>3, <2>3 DEF InHand
    <2>8. QED
        BY <2>5, <2>6, <2>7, <1>9
<1>10. QED
    BY <1>8, <1>9

(* What a step may add to the hub's account of an event.                    *)
LEMMA AccountGrows ==
    ASSUME ShapeInv, [Next]_vars, NEW e \in Events
    PROVE  /\ processed[e] \in Nat /\ abandoned[e] \in Nat /\ faults \in Nat
           /\ processed'[e] \in Nat /\ abandoned'[e] \in Nat
           /\ \/ /\ processed'[e] + abandoned'[e] <= processed[e] + abandoned[e]
                 /\ faults' = faults \/ faults' = faults + 1
                 /\ UnlinkFails => faults' = faults + 1
                 /\ Crash => faults' = faults + 1
              \/ /\ processed'[e] + abandoned'[e] = processed[e] + abandoned[e] + 1
                 /\ faults' = faults + 1
                 /\ reply = "none" /\ ~UnlinkFails
              \/ /\ HubAccepts /\ request = e
                 /\ processed'[e] + abandoned'[e] = processed[e] + abandoned[e] + 1
                 /\ faults' = faults
<1>1. /\ processed \in [Events -> Nat] /\ abandoned \in [Events -> Nat] /\ faults \in Nat
      /\ processed'[e] \in Nat /\ abandoned'[e] \in Nat
    BY ShapeStep DEF ShapeInv, TypeOK
<1>2. processed[e] \in Nat /\ abandoned[e] \in Nat
    BY <1>1
<1>3. CASE UNCHANGED <<processed, abandoned>>
    <2>1. faults' = faults \/ faults' = faults + 1
        BY DEF Next, Drain, StartPass, PostSpooled, Post, SpooledDelivered,
            SpooledUnreadable, UnlinkFails, SpooledRefused, SpoolDrained, Ship, ReadNewLines,
            NothingNew, SaveFails, PostLine, LineDelivered, SpoolLine, SpoolFails, BatchDone,
            Hub, HubAccepts, HubRejects, HubFails, TimesOut, HubIsLate, Proxy, Emit,
            EmitFails, Recreate, Truncate, Crash, Restart, vars, Fault, Answered
    <2>2. UnlinkFails \/ Crash => faults' = faults + 1
        BY DEF UnlinkFails, Crash, Fault
    <2>3. processed'[e] + abandoned'[e] <= processed[e] + abandoned[e]
        BY <1>2, <1>3
    <2>4. QED
        BY <1>1, <1>2, <2>1, <2>2, <2>3
<1>4. CASE HubAccepts
    <2>1. request \in Events /\ processed' = [processed EXCEPT ![request] = @ + 1]
          /\ abandoned' = abandoned /\ faults' = faults
        BY <1>4 DEF HubAccepts
    <2>2. processed'[e] = IF e = request THEN processed[e] + 1 ELSE processed[e]
        BY <2>1, <1>1, OneMore
    <2>3. ~UnlinkFails /\ ~Crash
        BY <1>4 DEF HubAccepts, UnlinkFails, Crash, Answered, Asked
    <2>4. CASE e = request
        BY <2>1, <2>2, <2>4, <1>1, <1>2, <1>4
    <2>5. CASE e # request
        BY <2>1, <2>2, <2>3, <2>5, <1>1, <1>2
    <2>6. QED
        BY <2>4, <2>5
<1>5. CASE HubFails \/ TimesOut
    <2>1. reply = "none" /\ faults' = faults + 1
        BY <1>5 DEF HubFails, TimesOut, Asked, Fault
    <2>2. \/ UNCHANGED <<processed, abandoned>>
          \/ request \in Events /\ processed' = [processed EXCEPT ![request] = @ + 1]
             /\ abandoned' = abandoned
          \/ request \in Events /\ abandoned' = [abandoned EXCEPT ![request] = @ + 1]
             /\ processed' = processed
        BY <1>5 DEF HubFails, TimesOut
    <2>3. processed'[e] + abandoned'[e] = processed[e] + abandoned[e]
          \/ processed'[e] + abandoned'[e] = processed[e] + abandoned[e] + 1
        <3>1. CASE UNCHANGED <<processed, abandoned>>
            BY <3>1
        <3>2. CASE request \in Events /\ processed' = [processed EXCEPT ![request] = @ + 1]
                   /\ abandoned' = abandoned
            BY <3>2, <1>1, <1>2, OneMore
        <3>3. CASE request \in Events /\ abandoned' = [abandoned EXCEPT ![request] = @ + 1]
                   /\ processed' = processed
            BY <3>3, <1>1, <1>2, OneMore
        <3>4. QED
            BY <2>2, <3>1, <3>2, <3>3
    <2>4. ~UnlinkFails
        BY <2>1 DEF UnlinkFails, Answered
    <2>5. QED
        BY <2>1, <2>3, <2>4, <1>1, <1>2
<1>6. CASE \E x \in Events : HubIsLate(x)
    <2>1. PICK x \in Events : HubIsLate(x)
        BY <1>6
    <2>2. /\ abandoned[x] > 0 /\ abandoned' = [abandoned EXCEPT ![x] = @ - 1]
          /\ processed' = processed \/ processed' = [processed EXCEPT ![x] = @ + 1]
          /\ UNCHANGED <<faults, pc, request>>
        BY <2>1 DEF HubIsLate
    <2>3. abandoned'[e] = IF e = x THEN abandoned[e] - 1 ELSE abandoned[e]
        BY <2>2, <1>1
    <2>4. processed'[e] = processed[e] \/ (e = x /\ processed'[e] = processed[e] + 1)
        BY <2>2, <1>1, OneMore
    <2>5. processed'[e] + abandoned'[e] <= processed[e] + abandoned[e]
        BY <2>2, <2>3, <2>4, <1>2
    <2>6. ~UnlinkFails /\ ~Crash
        BY <2>2 DEF UnlinkFails, Crash, Fault, ShapeInv, TypeOK
    <2>7. QED
        BY <2>2, <2>5, <2>6, <1>1, <1>2
<1>7. CASE Crash
    <2>1. /\ processed' = processed /\ faults' = faults + 1
          /\ abandoned' = [x \in Events |-> abandoned[x] + IF Asked /\ request = x THEN 1 ELSE 0]
        BY <1>7 DEF Crash, Fault
    <2>2. CASE Asked /\ request = e
        <3>1. abandoned'[e] = abandoned[e] + 1 /\ reply = "none"
            BY <2>1, <2>2 DEF Asked
        <3>2. ~UnlinkFails
            BY <3>1 DEF UnlinkFails, Answered
        <3>3. QED
            BY <2>1, <3>1, <3>2, <1>1, <1>2
    <2>3. CASE ~(Asked /\ request = e)
        <3>1. abandoned'[e] = abandoned[e]
            BY <2>1, <2>3, <1>1
        <3>2. QED
            BY <2>1, <3>1, <1>1, <1>2
    <2>4. QED
        BY <2>2, <2>3
<1>8. \/ UNCHANGED <<processed, abandoned>> \/ HubAccepts \/ HubFails \/ TimesOut
      \/ (\E x \in Events : HubIsLate(x)) \/ Crash
    BY DEF Next, Drain, StartPass, PostSpooled, Post, SpooledDelivered,
        SpooledUnreadable, UnlinkFails, SpooledRefused, SpoolDrained, Ship, ReadNewLines,
        NothingNew, SaveFails, PostLine, LineDelivered, SpoolLine, SpoolFails, BatchDone,
        Hub, HubRejects, Proxy, Emit, EmitFails, Recreate, Truncate, Restart, vars
<1>9. QED
    BY <1>3, <1>4, <1>5, <1>6, <1>7, <1>8

LEMMA LedgerStep ==
    ASSUME ShapeInv, OnceInFile, OnceInHand, LedgerInv, [Next]_vars
    PROVE  LedgerInv'
<1> SUFFICES ASSUME NEW e \in Events
             PROVE  processed'[e] + abandoned'[e] + (IF Owed(e)' THEN 1 ELSE 0) <= 1 + faults'
    BY DEF LedgerInv
<1> DEFINE had == processed[e] + abandoned[e]
           has == processed'[e] + abandoned'[e]
<1>1. had + (IF Owed(e) THEN 1 ELSE 0) <= 1 + faults
    BY DEF LedgerInv
<1>2. /\ had \in Nat /\ has \in Nat /\ faults \in Nat
      /\ \/ /\ has <= had
            /\ faults' = faults \/ faults' = faults + 1
            /\ UnlinkFails => faults' = faults + 1
            /\ Crash => faults' = faults + 1
         \/ /\ has = had + 1
            /\ faults' = faults + 1
            /\ reply = "none" /\ ~UnlinkFails
         \/ /\ HubAccepts /\ request = e
            /\ has = had + 1
            /\ faults' = faults
    BY AccountGrows
<1>3. Owed(e)' =>
        \/ Owed(e) /\ ~(HubAccepts /\ request = e)
        \/ (UnlinkFails \/ Crash) /\ reply = "accepted" /\ request = e
    BY OwedStays
<1>4. ASSUME HubAccepts, request = e PROVE Owed(e)
    <2>1. Asked /\ RequestInv /\ ListsInv /\ spool \in Seq(Lines) /\ todo \in Seq(Lines)
          /\ batch \in Seq(Lines)
        BY <1>4 DEF HubAccepts, ShapeInv, TypeOK
    <2>2. CASE pc = "drain" /\ todo # <<>> /\ request = Head(todo)
        BY <2>1, <2>2, <1>4, RemoveIs DEF Owed, InHand, Asked
    <2>3. CASE pc = "ship" /\ batch # <<>> /\ request = Head(batch)
        BY <2>1, <2>3, <1>4, TailElements DEF Owed, InHand, Asked
    <2>4. QED
        BY <2>1, <2>2, <2>3 DEF RequestInv, Asked
<1> HIDE DEF had, has
<1>5. CASE Owed(e)'
    <2>1. CASE Owed(e) /\ ~(HubAccepts /\ request = e)
        <3>1. had + 1 <= 1 + faults
            BY <1>1, <2>1
        <3>2. has + 1 <= 1 + faults'
            BY <3>1, <1>2, <2>1
        <3>3. QED
            BY <3>2, <1>5 DEF has
    <2>2. CASE (UnlinkFails \/ Crash) /\ reply = "accepted" /\ request = e
        <3>1. had <= 1 + faults
            BY <1>1, <1>2
        <3>2. has <= had /\ faults' = faults + 1
            BY <2>2, <1>2 DEF HubAccepts, Asked
        <3>3. has + 1 <= 1 + faults'
            BY <3>1, <3>2, <1>2
        <3>4. QED
            BY <3>3, <1>5 DEF has
    <2>3. QED
        BY <2>1, <2>2, <1>3, <1>5
<1>6. CASE ~Owed(e)'
    <2>1. CASE HubAccepts /\ request = e
        <3>1. had + 1 <= 1 + faults
            BY <2>1, <1>1, <1>4
        <3>2. has <= 1 + faults'
            BY <3>1, <1>2
        <3>3. has + 0 <= 1 + faults'
            BY <3>2, <1>2
        <3>4. QED
            BY <3>3, <1>6 DEF has
    <2>2. CASE ~(HubAccepts /\ request = e)
        <3>1. had <= 1 + faults
            BY <1>1, <1>2
        <3>2. has <= 1 + faults'
            BY <3>1, <1>2, <2>2
        <3>3. has + 0 <= 1 + faults'
            BY <3>2, <1>2
        <3>4. QED
            BY <3>3, <1>6 DEF has
    <2>3. QED
        BY <2>1, <2>2
<1>7. QED
    BY <1>5, <1>6

LEMMA OnceInit == Init => OnceInv
<1> SUFFICES ASSUME Init PROVE OnceInv
    OBVIOUS
<1>1. Elements(<<>>) = {} /\ Len(<<>>) = 0
    BY EmptyElements
<1>2. Once(<<>>)
    BY <1>1 DEF Once
<1>3. OnceInFile
    BY <1>1, <1>2 DEF Init, OnceInFile
<1>4. OnceInHand
    BY <1>1, <1>2 DEF Init, OnceInHand, InHand
<1>5. LedgerInv
    BY DEF Init, LedgerInv
<1>6. QED
    BY <1>3, <1>4, <1>5 DEF OnceInv

(* The retries alone never deliver an accepted event twice: all copies of   *)
(* an event the hub has processed, but for one, are paid for by faults.     *)
THEOREM DuplicatesArePaidFor == Spec => []DuplicatesNeedFaults
<1>1. Init => ShapeInv /\ OnceInv
    BY ShapeInit, OnceInit
<1>2. ShapeInv /\ OnceInv /\ [Next]_vars => (ShapeInv /\ OnceInv)'
    BY ShapeStep, FileOnceStep, HandOnceStep, LedgerStep DEF OnceInv
<1>3. ASSUME ShapeInv, OnceInv PROVE DuplicatesNeedFaults
    <2> SUFFICES ASSUME NEW e \in Events PROVE processed[e] <= 1 + faults
        BY DEF DuplicatesNeedFaults
    <2>1. processed[e] \in Nat /\ abandoned[e] \in Nat /\ faults \in Nat
        BY <1>3 DEF ShapeInv, TypeOK
    <2>2. processed[e] + abandoned[e] + (IF Owed(e) THEN 1 ELSE 0) <= 1 + faults
        BY <1>3 DEF OnceInv, LedgerInv
    <2>3. QED
        BY <2>1, <2>2
<1>4. QED
    BY <1>1, <1>2, <1>3, PTL DEF Spec

-----------------------------------------------------------------------------
(* Order is kept while nothing fails.                                      *)

(* What can still happen then.                                              *)
LEMMA CalmSteps ==
    ASSUME ShapeInv, CalmInv, [Next]_vars, faults' = 0
    PROVE  /\ faults = 0
           /\ \/ UNCHANGED vars
              \/ \E s \in Sessions : Emit(s)
              \/ HubAccepts \/ StartPass \/ SpoolDrained \/ ReadNewLines \/ NothingNew
              \/ PostLine \/ LineDelivered \/ BatchDone
<1>1. faults \in Nat /\ ListsInv /\ RequestInv /\ FileInv /\ TypeOK
      /\ todo \in Seq(Lines) /\ batch \in Seq(Lines) /\ file \in Seq(Lines)
    BY DEF ShapeInv, TypeOK
<1>2. /\ faults = 0 /\ ~UnlinkFails /\ ~SpooledUnreadable /\ ~SaveFails /\ ~SpoolFails
      /\ ~HubFails /\ ~TimesOut /\ ~Recreate /\ ~Truncate /\ ~Crash
      /\ \A s \in Sessions : ~EmitFails(s)
    <2>1. faults' # faults + 1
        BY <1>1
    <2>2. /\ ~UnlinkFails /\ ~SpooledUnreadable /\ ~SaveFails /\ ~SpoolFails
          /\ ~HubFails /\ ~TimesOut /\ ~Recreate /\ ~Truncate /\ ~Crash
          /\ \A s \in Sessions : ~EmitFails(s)
        BY <2>1 DEF UnlinkFails, SpooledUnreadable, SaveFails, SpoolFails, HubFails, TimesOut,
            Recreate, Truncate, Crash, EmitFails, Fault
    <2>3. faults' = faults
        BY <2>2 DEF Next, Drain, StartPass, PostSpooled, Post, SpooledDelivered,
            SpooledRefused, SpoolDrained, Ship, ReadNewLines,
            NothingNew, PostLine, LineDelivered, SpoolLine, BatchDone,
            Hub, HubAccepts, HubRejects, HubIsLate, Proxy, Emit, Restart, vars
    <2>4. QED
        BY <2>2, <2>3
<1>3. /\ pc # "down" /\ spool = <<>> /\ reply # "refused"
      /\ \A e \in Events : abandoned[e] = 0
      /\ \A i \in 1..Len(batch) : batch[i] = file[Done + i]
      /\ \A i \in 1..Len(file) : file[i] \in Events
      /\ base = 0 /\ Len(batch) <= StartAt
    BY <1>2 DEF CalmInv
<1>4. todo = <<>>
    <2>1. Len(todo) <= 0
        BY <1>1, <1>3, EmptySeq DEF ListsInv
    <2>2. QED
        BY <2>1, <1>1, EmptySeq
<1>5. ~PostSpooled /\ ~SpooledDelivered /\ ~SpooledRefused /\ ~SpoolLine /\ ~Restart
    <2>1. pc = "drain" => request = NoLine /\ reply = "none"
        BY <1>1, <1>4 DEF RequestInv
    <2>2. QED
        BY <2>1, <1>3, <1>4 DEF PostSpooled, SpooledDelivered, SpooledRefused, SpoolLine, Restart,
            Answered
<1>6. \A e \in Events : ~HubIsLate(e)
    BY <1>3 DEF HubIsLate
<1>7. ASSUME HubRejects PROVE FALSE
    <2>1. batch # <<>> /\ request = Head(batch) /\ request = Garbled
        BY <1>1, <1>4, <1>7, ShipperAssumption DEF HubRejects, Asked, RequestInv
    <2>2. batch[1] = Garbled /\ 1 \in 1..Len(batch) /\ Len(batch) \in Nat
        BY <2>1, <1>1, TailElements
    <2>3. file[Done + 1] = Garbled
        BY <2>2, <1>3
    <2>4. Done + 1 \in 1..Len(file)
        <3>1. StartAt \in Nat /\ StartAt <= Len(file) /\ Len(file) \in Nat
            BY <1>1, <1>3, UnreadIs DEF Size
        <3>2. QED
            BY <3>1, <2>2, <1>3 DEF Done
    <2>5. QED
        BY <2>3, <2>4, <1>3, ShipperAssumption
<1>8. QED
    BY <1>2, <1>5, <1>6, <1>7 DEF Next, Drain, Ship, Hub, Proxy

LEMMA CalmStep ==
    ASSUME ShapeInv, PositionInv, CalmInv, [Next]_vars
    PROVE  CalmInv'
<1> SUFFICES ASSUME faults' = 0
             PROVE  /\ ~struck' /\ ~torn' /\ base' = 0 /\ inode' = 1
                    /\ pc' # "down" /\ spool' = <<>> /\ reply' # "refused"
                    /\ \A e \in Events : abandoned'[e] = 0
                    /\ Len(batch') <= StartAt'
                    /\ \A i \in 1..Len(batch') : batch'[i] = file'[Done' + i]
                    /\ \A i \in 1..Len(file') : file'[i] \in Events
                    /\ \A i \in 1..Done' : processed'[file'[i]] > 0
                    /\ \A e \in Events : processed'[e] > 0 =>
                        \/ \E i \in 1..Done' : file'[i] = e
                        \/ request' = e /\ reply' = "accepted"
    BY DEF CalmInv
<1>1. /\ faults = 0
      /\ \/ UNCHANGED vars
         \/ \E s \in Sessions : Emit(s)
         \/ HubAccepts \/ StartPass \/ SpoolDrained \/ ReadNewLines \/ NothingNew
         \/ PostLine \/ LineDelivered \/ BatchDone
    BY CalmSteps
<1>2. ~struck /\ ~torn /\ base = 0 /\ inode = 1
    BY <1>1 DEF CalmInv
<1>3. /\ pc # "down" /\ spool = <<>> /\ reply # "refused"
      /\ \A e \in Events : abandoned[e] = 0
    BY <1>1 DEF CalmInv
<1>4. /\ Len(batch) <= StartAt
      /\ \A i \in 1..Len(batch) : batch[i] = file[Done + i]
      /\ \A i \in 1..Len(file) : file[i] \in Events
    BY <1>1 DEF CalmInv
<1>5. /\ \A i \in 1..Done : processed[file[i]] > 0
      /\ \A e \in Events : processed[e] > 0 =>
            \/ \E i \in 1..Done : file[i] = e
            \/ request = e /\ reply = "accepted"
    BY <1>1 DEF CalmInv
<1>6. /\ FileInv /\ ListsInv /\ RequestInv /\ TypeOK
      /\ batch \in Seq(Lines) /\ file \in Seq(Lines) /\ Len(batch) \in Nat /\ Len(file) \in Nat
      /\ StartAt \in Nat /\ StartAt <= Len(file) /\ Size = Len(file)
      /\ seen \in Nat /\ offset \in Nat /\ processed \in [Events -> Nat]
      /\ Done \in Nat /\ Done <= Len(file) /\ StartAt = Done + Len(batch)
    <2>1. /\ FileInv /\ ListsInv /\ RequestInv /\ TypeOK
          /\ batch \in Seq(Lines) /\ file \in Seq(Lines) /\ Len(batch) \in Nat /\ Len(file) \in Nat
          /\ seen \in Nat /\ offset \in Nat /\ processed \in [Events -> Nat]
        BY LenProperties DEF ShapeInv, TypeOK
    <2>2. StartAt \in Nat /\ StartAt <= Len(file) /\ Size = Len(file)
        BY <2>1, <1>2, UnreadIs DEF Size
    <2>3. QED
        BY <2>1, <2>2, <1>4 DEF Done
<1> DEFINE Calm == /\ ~struck' /\ ~torn' /\ base' = 0 /\ inode' = 1
                   /\ pc' # "down" /\ spool' = <<>> /\ reply' # "refused"
                   /\ \A e \in Events : abandoned'[e] = 0
           Files == /\ Len(batch') <= StartAt'
                    /\ \A i \in 1..Len(batch') : batch'[i] = file'[Done' + i]
                    /\ \A i \in 1..Len(file') : file'[i] \in Events
           Hubs == /\ \A i \in 1..Done' : processed'[file'[i]] > 0
                   /\ \A e \in Events : processed'[e] > 0 =>
                        \/ \E i \in 1..Done' : file'[i] = e
                        \/ request' = e /\ reply' = "accepted"
<1> SUFFICES Calm /\ Files /\ Hubs
    OBVIOUS
<1>7. Calm
    <2>1. base' = base /\ inode' = inode /\ struck' = struck /\ spool' = spool
          /\ abandoned' = abandoned
        BY <1>1 DEF vars, Emit, HubAccepts, StartPass, SpoolDrained, ReadNewLines, NothingNew,
            PostLine, Post, LineDelivered, BatchDone
    <2>2. /\ pc' = pc \/ pc' \in {"drain", "read", "ship", "top"}
          /\ reply' = reply \/ reply' \in {"none", "accepted"}
          /\ torn' = torn \/ torn' = FALSE
        BY <1>1 DEF vars, Emit, HubAccepts, StartPass, SpoolDrained, ReadNewLines, NothingNew,
            PostLine, Post, LineDelivered, BatchDone, Answered
    <2>3. base' = 0 /\ inode' = 1 /\ spool' = <<>> /\ \A e \in Events : abandoned'[e] = 0
        BY <2>1, <1>2, <1>3
    <2>4. pc' # "down" /\ reply' # "refused"
        BY <2>2, <1>3
    <2>5. ~struck' /\ ~torn'
        BY <2>1, <2>2, <1>2
    <2>6. QED
        BY <2>3, <2>4, <2>5
<1>8. ASSUME UNCHANGED <<file, base, inode, seen, offset, batch>>
      PROVE  Files /\ Done' = Done
    BY <1>4, <1>8, AheadStays DEF Done
<1>9. CASE UNCHANGED vars
    <2>1. UNCHANGED <<file, base, inode, seen, offset, batch, processed, request, reply>>
        BY <1>9 DEF vars
    <2>2. QED
        BY <2>1, <1>5, <1>7, <1>8
<1>10. CASE StartPass \/ SpoolDrained \/ BatchDone
    <2>1. UNCHANGED <<file, base, inode, seen, offset, batch, processed, request, reply>>
        BY <1>10 DEF StartPass, SpoolDrained, BatchDone
    <2>2. QED
        BY <2>1, <1>5, <1>7, <1>8
<1>11. CASE PostLine
    <2>1. UNCHANGED <<file, base, inode, seen, offset, batch, processed, reply>>
          /\ request = NoLine
        BY <1>11 DEF PostLine, Post
    <2>2. reply = "none"
        BY <2>1, <1>6 DEF RequestInv
    <2>3. QED
        BY <2>1, <2>2, <1>5, <1>7, <1>8
<1>12. CASE HubAccepts
    <2>1. /\ UNCHANGED <<file, base, inode, seen, offset, batch, request>>
          /\ request \in Events /\ reply = "none" /\ reply' = "accepted"
          /\ processed' = [processed EXCEPT ![request] = @ + 1]
        BY <1>12 DEF HubAccepts, Asked
    <2>2. \A e \in Events : processed'[e] = IF e = request THEN processed[e] + 1 ELSE processed[e]
        BY <2>1, <1>6, OneMore
    <2>3. Files /\ Done' = Done
        BY <2>1, <1>8
    <2>4. ASSUME NEW i \in 1..Done PROVE processed'[file[i]] > 0
        <3>1. file[i] \in Events /\ processed[file[i]] > 0 /\ processed[file[i]] \in Nat
            BY <1>4, <1>5, <1>6
        <3>2. QED
            BY <3>1, <2>2
    <2>5. ASSUME NEW e \in Events, processed'[e] > 0
          PROVE  \/ \E i \in 1..Done : file[i] = e
                 \/ request' = e /\ reply' = "accepted"
        <3>1. CASE e = request
            BY <3>1, <2>1
        <3>2. CASE e # request
            BY <3>2, <2>1, <2>2, <2>5, <1>5
        <3>3. QED
            BY <3>1, <3>2
    <2>6. Hubs
        BY <2>1, <2>3, <2>4, <2>5
    <2>7. QED
        BY <2>3, <2>6, <1>7
<1>13. CASE \E s \in Sessions : Emit(s)
    <2>1. PICK s \in Sessions : Emit(s)
        BY <1>13
    <2>2. /\ Len(file') = Len(file) + 1 /\ \A i \in 1..Len(file) : file'[i] = file[i]
          /\ file'[Len(file) + 1] = <<s, emitted[s] + 1>>
        BY <2>1, <1>2, EmitIs
    <2>3. UNCHANGED <<base, inode, seen, offset, batch, processed, request, reply>>
        BY <2>1 DEF Emit
    <2>4. <<s, emitted[s] + 1>> \in Events
        <3>1. emitted[s] < PerSession /\ emitted \in [Sessions -> 0..PerSession]
            BY <2>1, <1>6 DEF Emit, TypeOK
        <3>2. emitted[s] \in Nat /\ emitted[s] + 1 \in 1..PerSession
            BY <3>1, ShipperAssumption
        <3>3. QED
            BY <3>2 DEF Events
    <2>5. StartAt' = StartAt
        <3>1. Size' = Size + 1 /\ Size \in Nat
            BY <2>2, <2>3, <1>2, <1>6 DEF Size
        <3>2. seen = inode => offset <= Size
            BY <1>2, SavedIsRead
        <3>3. QED
            BY <3>1, <3>2, <2>3, <1>6 DEF StartAt
    <2>6. Done' = Done
        BY <2>3, <2>5 DEF Done
    <2>7. \A i \in 1..Len(file') : i \in 1..Len(file) \/ i = Len(file) + 1
        BY <2>2, <1>6
    <2>8. ASSUME NEW i \in 1..Len(batch) PROVE batch'[i] = file'[Done' + i]
        <3>1. Done + i \in 1..Len(file)
            BY <1>6
        <3>2. QED
            BY <3>1, <2>2, <2>3, <2>6, <1>4
    <2>9. \A i \in 1..Len(file') : file'[i] \in Events
        BY <2>2, <2>4, <2>7, <1>4
    <2>10. Files
        BY <2>3, <2>5, <2>8, <2>9, <1>4
    <2>11. \A i \in 1..Done : i \in 1..Len(file) /\ file'[i] = file[i]
        BY <2>2, <1>6
    <2>12. Hubs
        BY <2>3, <2>6, <2>11, <1>5
    <2>13. QED
        BY <2>10, <2>12, <1>7
<1>14. CASE ReadNewLines
    <2>1. /\ UNCHANGED <<file, base, inode, processed, request, reply>>
          /\ seen' = inode /\ offset' = Size /\ batch' = Unread /\ batch = <<>>
        BY <1>14, <1>6 DEF ReadNewLines, ListsInv
    <2>2. /\ Len(Unread) = Len(file) - StartAt
          /\ \A i \in 1..Len(Unread) : Unread[i] = file[StartAt + i]
        <3>1. /\ Len(Unread) = Size - StartAt
              /\ \A i \in 1..Len(Unread) : Unread[i] = file[base + StartAt + i]
            BY <1>6, UnreadIs
        <3>2. QED
            BY <3>1, <1>2, <1>6
    <2>3. StartAt' = Len(file)
        BY <2>1, <1>6 DEF StartAt, Size
    <2>4. Done = StartAt
        BY <2>1, <1>6, EmptyElements DEF Done
    <2>5. Done' = Done
        BY <2>1, <2>2, <2>3, <2>4, <1>6 DEF Done
    <2>6. Files
        BY <2>1, <2>2, <2>3, <2>4, <2>5, <1>4, <1>6
    <2>7. Hubs
        BY <2>1, <2>5, <1>5
    <2>8. QED
        BY <2>6, <2>7, <1>7
<1>15. CASE NothingNew
    <2>1. /\ UNCHANGED <<file, base, inode, batch, processed, request, reply>>
          /\ seen' = inode /\ offset' = StartAt
        BY <1>15 DEF NothingNew
    <2>2. StartAt' = StartAt
        BY <2>1, <1>6 DEF StartAt, Size
    <2>3. Done' = Done
        BY <2>1, <2>2 DEF Done
    <2>4. Files
        BY <2>1, <2>2, <2>3, <1>4
    <2>5. Hubs
        BY <2>1, <2>3, <1>5
    <2>6. QED
        BY <2>4, <2>5, <1>7
<1>16. CASE LineDelivered
    <2>1. /\ UNCHANGED <<file, base, inode, seen, offset, processed>>
          /\ pc = "ship" /\ reply = "accepted" /\ batch' = Tail(batch)
          /\ reply' = "none"
        BY <1>16 DEF LineDelivered, Answered
    <2>2. batch # <<>> /\ request = Head(batch) /\ request \in Events /\ processed[request] > 0
        BY <2>1, <1>6 DEF RequestInv
    <2>3. /\ Len(batch) > 0 /\ Len(batch') = Len(batch) - 1 /\ request = batch[1]
          /\ \A i \in 1..Len(batch) - 1 : batch'[i] = batch[i + 1]
        BY <2>1, <2>2, <1>6, TailElements
    <2>4. StartAt' = StartAt
        BY <2>1, AheadStays
    <2>5. Done' = Done + 1
        BY <2>3, <2>4, <1>6 DEF Done
    <2>6. file[Done + 1] = request
        BY <2>3, <1>4, <1>6
    <2>7. ASSUME NEW i \in 1..Len(batch') PROVE batch'[i] = file'[Done' + i]
        <3>1. i \in 1..Len(batch) - 1 /\ i + 1 \in 1..Len(batch) /\ Done' + i = Done + (i + 1)
            BY <2>3, <2>5, <1>6
        <3>2. batch'[i] = batch[i + 1] /\ batch[i + 1] = file[Done + (i + 1)]
            BY <3>1, <2>3, <1>4
        <3>3. QED
            BY <3>1, <3>2, <2>1
    <2>8. Files
        <3>1. Len(batch') <= StartAt'
            BY <2>3, <2>4, <1>6
        <3>2. \A i \in 1..Len(file') : file'[i] \in Events
            BY <2>1, <1>4
        <3>3. QED
            BY <3>1, <3>2, <2>7
    <2>9. \A i \in 1..Done' : i \in 1..Done \/ i = Done + 1
        BY <2>5, <1>6
    <2>10. \A i \in 1..Done' : processed'[file'[i]] > 0
        BY <2>1, <2>2, <2>6, <2>9, <1>5
    <2>11. ASSUME NEW e \in Events, processed[e] > 0 PROVE \E i \in 1..Done' : file[i] = e
        <3>1. CASE \E i \in 1..Done : file[i] = e
            <4>1. 1..Done \subseteq 1..Done'
                BY <2>5, <1>6
            <4>2. QED
                BY <3>1, <4>1
        <3>2. CASE request = e
            <4>1. Done + 1 \in 1..Done'
                BY <2>5, <1>6
            <4>2. QED
                BY <3>2, <4>1, <2>6
        <3>3. QED
            BY <3>1, <3>2, <2>11, <1>5
    <2>12. Hubs
        BY <2>1, <2>10, <2>11
    <2>13. QED
        BY <2>8, <2>12, <1>7
<1>17. QED
    BY <1>1, <1>9, <1>10, <1>11, <1>12, <1>13, <1>14, <1>15, <1>16

LEMMA OrderStep ==
    ASSUME ShapeInv, CalmInv, OnceInFile, InOrder, [Next]_vars
    PROVE  InOrder'
<1> SUFFICES ASSUME faults' = 0
             PROVE  /\ \A s \in Sessions : \A n \in 1..emitted'[s] :
                        \E i \in 1..Len(file') : file'[i] = <<s, n>>
                    /\ \A i, j \in 1..Len(file') :
                        file'[i][1] = file'[j][1] /\ file'[i][2] < file'[j][2] => i < j
    BY DEF InOrder
<1>1. /\ faults = 0
      /\ UNCHANGED <<file, emitted>> \/ \E s \in Sessions : Emit(s)
    BY CalmSteps DEF vars, HubAccepts, StartPass, SpoolDrained, ReadNewLines, NothingNew,
            PostLine, Post, LineDelivered, BatchDone
<1>2. /\ \A s \in Sessions : \A n \in 1..emitted[s] :
            \E i \in 1..Len(file) : file[i] = <<s, n>>
      /\ \A i, j \in 1..Len(file) :
            file[i][1] = file[j][1] /\ file[i][2] < file[j][2] => i < j
    BY <1>1 DEF InOrder
<1>3. ~torn /\ (\A i \in 1..Len(file) : file[i] \in Events) /\ Len(file) \in Nat
    BY <1>1, LenProperties DEF CalmInv, ShapeInv, TypeOK
<1>4. CASE UNCHANGED <<file, emitted>>
    BY <1>2, <1>4
<1>5. ASSUME NEW s \in Sessions, Emit(s)
      PROVE  /\ \A x \in Sessions : \A n \in 1..emitted'[x] :
                    \E i \in 1..Len(file') : file'[i] = <<x, n>>
             /\ \A i, j \in 1..Len(file') :
                    file'[i][1] = file'[j][1] /\ file'[i][2] < file'[j][2] => i < j
    <2> DEFINE line == <<s, emitted[s] + 1>>
    <2>1. /\ Len(file') = Len(file) + 1
          /\ \A i \in 1..Len(file) : file'[i] = file[i]
          /\ file'[Len(file) + 1] = line
          /\ emitted[s] \in Nat /\ emitted'[s] = emitted[s] + 1
          /\ \A x \in Sessions \ {s} : emitted'[x] = emitted[x]
        BY <1>3, <1>5, EmitIs
    <2>2. line[1] = s /\ line[2] = emitted[s] + 1
        OBVIOUS
    <2>3. \A i \in 1..Len(file') : i \in 1..Len(file) \/ i = Len(file) + 1
        BY <2>1, <1>3
    <2>4. ASSUME NEW x \in Sessions, NEW n \in 1..emitted'[x]
          PROVE  \E i \in 1..Len(file') : file'[i] = <<x, n>>
        <3>1. CASE x = s /\ n = emitted[s] + 1
            <4>1. Len(file) + 1 \in 1..Len(file')
                BY <2>1, <1>3
            <4>2. QED
                BY <3>1, <4>1, <2>1
        <3>2. CASE ~(x = s /\ n = emitted[s] + 1)
            <4>1. n \in 1..emitted[x]
                BY <3>2, <2>1
            <4>2. PICK i \in 1..Len(file) : file[i] = <<x, n>>
                BY <4>1, <1>2
            <4>3. i \in 1..Len(file') /\ file'[i] = <<x, n>>
                BY <4>2, <2>1, <1>3
            <4>4. QED
                BY <4>3
        <3>3. QED
            BY <3>1, <3>2
    <2>5. ASSUME NEW i \in 1..Len(file') , NEW j \in 1..Len(file'),
                 file'[i][1] = file'[j][1], file'[i][2] < file'[j][2]
          PROVE  i < j
        <3>1. CASE i \in 1..Len(file) /\ j \in 1..Len(file)
            <4>1. file'[i] = file[i] /\ file'[j] = file[j]
                BY <3>1, <2>1
            <4>2. QED
                BY <3>1, <4>1, <2>5, <1>2
        <3>2. CASE i \in 1..Len(file) /\ j = Len(file) + 1
            BY <3>2, <1>3
        <3>3. CASE i = Len(file) + 1 /\ j \in 1..Len(file)
            <4>1. file'[i] = line /\ file'[j] = file[j]
                BY <3>3, <2>1
            <4>2. file[j] \in Events /\ file[j] \in Elements(file)
                BY <3>3, <1>3 DEF Elements
            <4>3. file[j][2] <= emitted[file[j][1]] /\ file[j][2] \in Nat
                BY <4>2, ShipperAssumption DEF OnceInFile, Events
            <4>4. file[j][1] = s /\ emitted[s] + 1 < file[j][2]
                BY <4>1, <2>2, <2>5
            <4>5. QED
                BY <4>3, <4>4, <2>1
        <3>4. CASE i = Len(file) + 1 /\ j = Len(file) + 1
            BY <3>4, <2>1, <2>2, <2>5
        <3>5. QED
            BY <3>1, <3>2, <3>3, <3>4, <2>3
    <2>6. QED
        BY <2>4, <2>5
<1>6. QED
    BY <1>1, <1>4, <1>5

LEMMA CalmInit == Init => CalmInv /\ InOrder
<1> SUFFICES ASSUME Init PROVE CalmInv /\ InOrder
    OBVIOUS
<1>1. Len(<<>>) = 0
    BY EmptyElements
<1>2. StartAt = 0 /\ Len(batch) = 0 /\ Len(file) = 0 /\ Done = 0
    <2>1. seen = 0 /\ inode = 1 /\ file = <<>> /\ batch = <<>>
        BY DEF Init
    <2>2. StartAt = 0
        BY <2>1 DEF StartAt
    <2>3. Len(batch) = 0 /\ Len(file) = 0
        BY <2>1, <1>1
    <2>4. QED
        BY <2>2, <2>3 DEF Done
<1>3. ~struck /\ ~torn
    BY DEF Init
<1>4. /\ base = 0 /\ inode = 1 /\ pc # "down" /\ spool = <<>> /\ reply # "refused"
      /\ \A e \in Events : abandoned[e] = 0 /\ processed[e] = 0
    BY DEF Init
<1>5. CalmInv
    BY <1>2, <1>3, <1>4 DEF CalmInv
<1>6. \A s \in Sessions : emitted[s] = 0
    BY DEF Init
<1>7. InOrder
    BY <1>2, <1>6 DEF InOrder
<1>8. QED
    BY <1>5, <1>7

(* "Ordering is preserved by sending sequentially": while nothing fails, an *)
(* event of a session reaches the hub after all the earlier ones.           *)
THEOREM OrderIsKept == Spec => []OrderedWithoutFaults
<1> DEFINE All == ShapeInv /\ PositionInv /\ OnceInv /\ CalmInv /\ InOrder
<1>1. Init => All
    BY ShapeInit, KeptInit, OnceInit, CalmInit
<1>2. All /\ [Next]_vars => All'
    BY ShapeStep, PositionStep, FileOnceStep, HandOnceStep, LedgerStep, CalmStep, OrderStep
       DEF OnceInv
<1>3. ASSUME All PROVE OrderedWithoutFaults
    <2> SUFFICES ASSUME faults = 0, NEW s \in Sessions, NEW m \in 1..PerSession,
                        NEW n \in 1..PerSession, m < n, processed[<<s, n>>] > 0
                 PROVE  processed[<<s, m>>] > 0
        BY DEF OrderedWithoutFaults
    <2>1. /\ base = 0 /\ spool = <<>> /\ Len(batch) <= StartAt
          /\ \A i \in 1..Len(batch) : batch[i] = file[Done + i]
        BY <1>3 DEF CalmInv
    <2>2. /\ \A i \in 1..Done : processed[file[i]] > 0
          /\ \A e \in Events : processed[e] > 0 =>
                \/ \E i \in 1..Done : file[i] = e
                \/ request = e /\ reply = "accepted"
        BY <1>3 DEF CalmInv
    <2>3. /\ \A x \in Sessions : \A k \in 1..emitted[x] :
                \E i \in 1..Len(file) : file[i] = <<x, k>>
          /\ \A i, j \in 1..Len(file) :
                file[i][1] = file[j][1] /\ file[i][2] < file[j][2] => i < j
        BY <1>3 DEF InOrder
    <2>4. /\ ListsInv /\ RequestInv /\ batch \in Seq(Lines) /\ todo \in Seq(Lines)
          /\ Len(batch) \in Nat /\ Len(file) \in Nat /\ Len(todo) \in Nat
          /\ emitted \in [Sessions -> 0..PerSession]
        BY <1>3, LenProperties DEF ShapeInv, TypeOK
    <2>5. /\ StartAt \in Nat /\ StartAt <= Len(file) /\ Done \in Nat /\ Done <= Len(file)
          /\ StartAt = Done + Len(batch)
        <3>1. StartAt \in Nat /\ StartAt <= Len(file)
            BY <1>3, <2>1, <2>4, UnreadIs DEF ShapeInv, Size
        <3>2. QED
            BY <3>1, <2>1, <2>4 DEF Done
    <2>6. <<s, n>> \in Events /\ <<s, m>> \in Events /\ m \in Nat /\ n \in Nat /\ m >= 1
        BY ShipperAssumption DEF Events
    <2>7. \E j \in 1..Len(file) : j <= Done + 1 /\ file[j] = <<s, n>>
        <3>1. CASE \E i \in 1..Done : file[i] = <<s, n>>
            <4>1. \A i \in 1..Done : i \in 1..Len(file) /\ i <= Done + 1
                BY <2>5, <2>4
            <4>2. QED
                BY <3>1, <4>1
        <3>2. CASE request = <<s, n>> /\ reply = "accepted"
            <4>1. todo = <<>>
                <5>1. Len(todo) <= 0
                    BY <2>1, <2>4, EmptyElements DEF ListsInv
                <5>2. QED
                    BY <5>1, <2>4, EmptySeq
            <4>2. batch # <<>> /\ request = Head(batch)
                BY <4>1, <3>2, <2>4 DEF RequestInv
            <4>3. Len(batch) > 0 /\ request = batch[1]
                BY <4>2, <2>4, TailElements
            <4>4. file[Done + 1] = <<s, n>> /\ Done + 1 \in 1..Len(file)
                <5>1. 1 \in 1..Len(batch) /\ Done + 1 \in 1..Len(file)
                    BY <4>3, <2>4, <2>5
                <5>2. QED
                    BY <5>1, <4>3, <3>2, <2>1
            <4>5. QED
                BY <4>4, <2>5
        <3>3. QED
            BY <3>1, <3>2, <2>2, <2>6
    <2>8. PICK j \in 1..Len(file) : j <= Done + 1 /\ file[j] = <<s, n>>
        BY <2>7
    <2>9. n <= emitted[s]
        <3>1. <<s, n>> \in Elements(file)
            BY <2>8 DEF Elements
        <3>2. <<s, n>>[2] <= emitted[<<s, n>>[1]]
            BY <3>1, <2>6, <1>3 DEF OnceInv, OnceInFile
        <3>3. QED
            BY <3>2
    <2>10. m \in 1..emitted[s]
        BY <2>9, <2>6, <2>4, ShipperAssumption
    <2>11. PICK i \in 1..Len(file) : file[i] = <<s, m>>
        BY <2>10, <2>3
    <2>12. i < j
        <3>1. file[i][1] = file[j][1] /\ file[i][2] < file[j][2]
            BY <2>8, <2>11
        <3>2. QED
            BY <3>1, <2>3
    <2>13. i \in 1..Done
        BY <2>8, <2>12, <2>4, <2>5
    <2>14. QED
        BY <2>11, <2>13, <2>2
<1>4. QED
    <2> HIDE DEF All
    <2>1. QED
        BY <1>1, <1>2, <1>3, PTL DEF Spec

=============================================================================
