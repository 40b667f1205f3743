--------------------------- MODULE HubIngestProofs ---------------------------
(***************************************************************************)
(* What the hub's stores keep of the events, for any number of sessions,   *)
(* handlers and faults.                                                    *)
(***************************************************************************)
EXTENDS HubIngest, FoldProofs, FiniteSetTheorems, SequenceTheorems,
        WellFoundedInduction, TLAPS

-----------------------------------------------------------------------------
(* The sessions: an event names the peer as its source, and as its attacker *)
(* the peer or whoever is at the keyboard.                                  *)
StampInv == \A s \in Sessions : stamp[s].attacker \in {Peer(s), Owner[s]}

Genuine(e) == e.src = Peer(e.session) /\ e.attacker \in {e.src, Owner[e.session]}

SessionsInv == SessionsTypeOK /\ StampInv /\ \A n \in Lines : Genuine(log[n])

(* What a step of the sessions does to the log, seen from the hub.          *)
LogGrows ==
    /\ Len(log') >= Len(log)
    /\ \A n \in Lines : n \in DOMAIN log' /\ log'[n] = log[n]

(* The hub: what a handler may hold.                                        *)
Iocs == {"ip", "hassh", "username"} \X (Attackers \cup {JumpHost})
Job == [line : Nat, step : Steps, todo : Seq(Iocs), doc : Doc \cup {NoDoc},
        row : Row \cup {NoRow}]

ShipInv ==
    /\ next \in Nat /\ 1 <= next /\ next <= Len(log) + 1
    /\ waiting \in Handlers \cup {NoHandler}
    /\ spool \subseteq 1..next - 1

(* The counters are kept for each line, the documents and rows are whole.   *)
CountInv ==
    /\ indexed \in [Lines -> Nat]
    /\ alerts \in [Lines -> Nat]
    /\ committed \in [Lines -> Nat]
StoreInv ==
    /\ \A i \in DOMAIN iocs : iocs[i] \in Doc
    /\ DOMAIN rows \subseteq Sessions
    /\ \A s \in DOMAIN rows : rows[s] \in Row

WorkInv ==
    /\ work \in [Handlers -> Job]
    /\ \A h \in Handlers :
        /\ work[h] # Idle => work[h].line \in 1..next - 1 /\ work[h].step # "idle"
        /\ work[h].step \in {"get", "put"} => work[h].todo # <<>>
    /\ waiting # NoHandler => work[waiting] # Idle

(* No line is lost on its way from the log to Postgres.                     *)
HeldInv ==
    \A n \in 1..next - 1 :
        \/ committed[n] > 0
        \/ n \in spool
        \/ waiting # NoHandler /\ work[waiting].line = n

(* Two requests are never in service at once before one was given up.       *)
AloneInv == ~overlapped => \A g, h \in Busy : g = h

(* Every commit of a line, and every handler that is still at it, is of an  *)
(* attempt that indexed it.                                                 *)
AtLine(n) == {h \in Handlers : work[h].line = n}
IndexInv ==
    \A n \in Lines : IsFiniteSet(AtLine(n)) /\ committed[n] + Cardinality(AtLine(n)) <= indexed[n]

(* Every commit of a line that deserves an alert has stored one, and the    *)
(* commits there are or may be of such lines, by the requests in service    *)
(* and those the shipper has to send again, are no more than the lines and  *)
(* the faults.                                                              *)
AlertsInv == \A n \in Lines : alerts[n] = IF RaisesAlert(log[n]) THEN committed[n] ELSE 0
Deserving == {n \in 1..next - 1 : RaisesAlert(log[n])}
LoadOf(n) ==
    IF RaisesAlert(log[n])
    THEN committed[n] + (IF n \in spool THEN 1 ELSE 0) + Cardinality(AtLine(n)) ELSE 0
Loads == [n \in Lines |-> LoadOf(n)]
LoadInv == faults \in Nat /\ Total(Loads, Lines) <= Cardinality(Deserving) + faults

(* A row is there once an event of its session is committed, and it never   *)
(* goes back from the owner to the jump host, whatever a handler has read.  *)
Attributed(row, s) == row.attacker \in {Peer(s), Owner[s]}
RowInv ==
    /\ \A n \in Lines : committed[n] > 0 => log[n].session \in DOMAIN rows
    /\ \A s \in DOMAIN rows : Attributed(rows[s], s)
    /\ \A h \in Handlers : work[h].row # NoRow =>
        LET s == EventOf(h).session IN
            /\ s \in DOMAIN rows
            /\ Attributed(work[h].row, s)
            /\ work[h].row.attacker = Owner[s] => rows[s].attacker = Owner[s]
    /\ \A n \in Lines : committed[n] > 0 /\ log[n].attacker = Owner[log[n].session] =>
        rows[log[n].session].attacker = Owner[log[n].session]

(* The graph has what an event adds before its row is looked up.            *)
GraphInv ==
    \A h \in Handlers : work[h].step \in {"select", "commit"} =>
        Range(MergesOf(EventOf(h))) \subseteq graph

(* An IOC of an event is written, or still to do; and what a handler is     *)
(* about to write over is what it has read.                                 *)
WrittenIn(docs, i, e) ==
    /\ i \in DOMAIN docs
    /\ e.session \in docs[i].sessions
    /\ docs[i].threat >= ThreatScore(e.kind)
Written(i, e) == WrittenIn(iocs, i, e)
Calm == ~overlapped /\ ~forgotten
DoneInv == \A n \in Lines : committed[n] > 0 =>
    \A i \in Range(IocsOf(log[n])) : Written(i, log[n])
TodoInv == \A h \in Handlers : work[h].step # "idle" =>
    \A i \in Range(IocsOf(EventOf(h))) :
        \/ Written(i, EventOf(h))
        \/ work[h].step \in {"get", "put"} /\ i \in Range(work[h].todo)
ReadInv == \A h \in Handlers : work[h].step = "put" => work[h].doc = Stored(work[h].todo[1])
IocInv == Calm => DoneInv /\ TodoInv /\ ReadInv

-----------------------------------------------------------------------------
(* Lemmas about the operators of the model.                                 *)

(* The greater of two numbers is one of them, and above both.               *)
LEMMA MaxOfTwo ==
    ASSUME NEW a \in Int, NEW b \in Int
    PROVE  Max({a, b}) \in {a, b} /\ Max({a, b}) >= a /\ Max({a, b}) >= b
<1>1. \E x \in {a, b} : \A y \in {a, b} : x >= y
    BY SMT
<1>2. QED BY <1>1 DEF Max

(* So the greater of two scores is a score.                                 *)
LEMMA MaxOfScores ==
    ASSUME NEW a \in 0..100, NEW b \in 0..100
    PROVE  Max({a, b}) \in 0..100 /\ Max({a, b}) >= a /\ Max({a, b}) >= b
<1>1. a \in Int /\ b \in Int
    OBVIOUS
<1>2. Max({a, b}) \in {a, b} /\ Max({a, b}) >= a /\ Max({a, b}) >= b
    BY <1>1, MaxOfTwo
<1>3. Max({a, b}) = a \/ Max({a, b}) = b
    BY <1>2
<1>4. QED
    BY <1>2, <1>3

(* The lesser of two numbers is one of them, and below both.                *)
LEMMA MinOfTwo ==
    ASSUME NEW a \in Int, NEW b \in Int
    PROVE  Min({a, b}) \in {a, b} /\ Min({a, b}) <= a /\ Min({a, b}) <= b
<1>1. \E x \in {a, b} : \A y \in {a, b} : x <= y
    BY SMT
<1>2. QED BY <1>1 DEF Min

(* The first of a set of lines is one of them.                              *)
LEMMA MinOfLines ==
    ASSUME NEW S, S # {}, S \subseteq Nat
    PROVE  Min(S) \in S
<1>1. \E x \in S : \A y \in S : ~(<<y, x>> \in OpToRel(<, Nat))
    BY NatLessThanWellFounded, WFMin
<1>2. PICK x \in S : \A y \in S : ~(<<y, x>> \in OpToRel(<, Nat))
    BY <1>1
<1>3. \A y \in S : x <= y
    <2>1. TAKE y \in S
    <2>2. x \in Nat /\ y \in Nat
        OBVIOUS
    <2>3. <<y, x>> \in OpToRel(<, Nat) <=> y < x
        BY <2>2 DEF OpToRel
    <2>4. ~(y < x)
        BY <2>3, <1>2
    <2>5. QED
        BY <2>2, <2>4
<1>4. QED
    BY <1>3 DEF Min

(* What a sequence that is not empty starts with, and what comes after it.  *)
LEMMA HeadAndRest ==
    ASSUME NEW S, NEW q \in Seq(S), q # <<>>
    PROVE  /\ q[1] \in S
           /\ Tail(q) \in Seq(S)
           /\ \A i \in Range(q) : i = q[1] \/ i \in Range(Tail(q))
<1>1. Len(q) \in Nat /\ Len(q) > 0 /\ DOMAIN q = 1..Len(q)
    BY LenProperties, EmptySeq
<1>2. q[1] \in S
    BY <1>1, ElementOfSeq
<1>3. /\ Tail(q) \in Seq(S) /\ Len(Tail(q)) = Len(q) - 1
      /\ \A i \in 1..Len(Tail(q)) : Tail(q)[i] = q[i + 1]
    BY HeadTailProperties
<1>4. DOMAIN Tail(q) = 1..Len(q) - 1
    BY <1>3, LenProperties
<1>5. ASSUME NEW k \in 1..Len(q), k # 1
      PROVE  q[k] \in Range(Tail(q))
    <2>1. k - 1 \in 1..Len(q) - 1
        BY <1>1, <1>5
    <2>2. Tail(q)[k - 1] = q[k]
        BY <2>1, <1>1, <1>3
    <2>3. QED
        BY <2>1, <2>2, <1>4 DEF Range
<1>6. QED
    BY <1>1, <1>2, <1>3, <1>5 DEF Range

(* A threat score is a percentage.                                          *)
LEMMA ThreatIsPercentage ==
    ASSUME NEW kind \in Kinds
    PROVE  ThreatScore(kind) \in 0..100
<1>1. BaseScore(kind) \in 0..100
    BY DEF BaseScore, Kinds
<1>2. DEFINE raised == BaseScore(kind) + (IF kind \in HighValue THEN 20 ELSE 0)
<1>3. raised \in 0..120
    BY <1>1
<1>4. Min({raised + 15, 100}) \in 0..100 /\ Min({raised, 100}) \in 0..100
    <2>1. raised \in Int /\ raised + 15 \in Int /\ 100 \in Int
        BY <1>3
    <2>2. HIDE DEF raised
    <2>3. Min({raised + 15, 100}) \in {raised + 15, 100}
        BY <2>1, MinOfTwo
    <2>4. Min({raised, 100}) \in {raised, 100}
        BY <2>1, MinOfTwo
    <2>5. Min({raised + 15, 100}) <= 100 /\ Min({raised, 100}) <= 100
        BY <2>1, MinOfTwo
    <2>6. QED
        BY <1>3, <2>3, <2>4, <2>5
<1>5. QED
    BY <1>4 DEF ThreatScore

(* A document that is there differs from one that is not; so does a row.    *)
LEMMA DocIsThere == \A d \in Doc : d # NoDoc
BY DEF Doc, NoDoc
(* A row is never the answer that there is none.                            *)
LEMMA RowIsThere == \A r \in Row : r # NoRow
BY DEF Row, NoRow

(* The IOCs of an event, of which there is one at least.                    *)
LEMMA IocsAreIocs ==
    ASSUME NEW e \in Event
    PROVE  IocsOf(e) \in Seq(Iocs) /\ IocsOf(e) # <<>>
<1>1. /\ e.src \in Attackers \cup {JumpHost} /\ e.session \in Sessions
    BY DEF Event
<1>2. Owner[e.session] \in Attackers
    BY <1>1, SessionsAssumption
<1>3. DEFINE first == <<<<"ip", e.src>>>>
             second == IF e.hassh THEN <<<<"hassh", Owner[e.session]>>>> ELSE <<>>
             third == IF e.user THEN <<<<"username", Owner[e.session]>>>> ELSE <<>>
<1>4. first \in Seq(Iocs) /\ Len(first) = 1
    BY <1>1 DEF Iocs
<1>5. second \in Seq(Iocs) /\ Len(second) \in Nat
    <2>1. <<<<"hassh", Owner[e.session]>>>> \in Seq(Iocs) /\ <<>> \in Seq(Iocs)
        BY <1>2 DEF Iocs
    <2>2. second \in Seq(Iocs)
        BY <2>1
    <2>3. QED
        BY <2>2, LenProperties
<1>6. third \in Seq(Iocs) /\ Len(third) \in Nat
    <2>1. <<<<"username", Owner[e.session]>>>> \in Seq(Iocs) /\ <<>> \in Seq(Iocs)
        BY <1>2 DEF Iocs
    <2>2. third \in Seq(Iocs)
        BY <2>1
    <2>3. QED
        BY <2>2, LenProperties
<1>7. HIDE DEF first, second, third
<1>8. first \o second \in Seq(Iocs) /\ Len(first \o second) = Len(first) + Len(second)
    BY <1>4, <1>5, ConcatProperties
<1>9. /\ (first \o second) \o third \in Seq(Iocs)
      /\ Len((first \o second) \o third) = Len(first \o second) + Len(third)
    BY <1>6, <1>8, ConcatProperties
<1>10. Len((first \o second) \o third) > 0
    BY <1>4, <1>5, <1>6, <1>8, <1>9
<1>11. (first \o second) \o third # <<>>
    BY <1>10, EmptySeq
<1>12. IocsOf(e) = (first \o second) \o third
    BY DEF IocsOf, first, second, third
<1>13. QED
    BY <1>9, <1>11, <1>12

(* A document stays whole when an event is merged into it, and keeps what   *)
(* was in it.                                                               *)
LEMMA MergeKeeps ==
    ASSUME NEW doc \in Doc \cup {NoDoc}, NEW e \in Event
    PROVE  /\ MergedDoc(doc, e) \in Doc
           /\ e.session \in MergedDoc(doc, e).sessions
           /\ MergedDoc(doc, e).threat >= ThreatScore(e.kind)
           /\ doc # NoDoc => /\ doc.sessions \subseteq MergedDoc(doc, e).sessions
                             /\ MergedDoc(doc, e).threat >= doc.threat
<1>1. e.session \in Sessions /\ e.kind \in Kinds
    BY DEF Event
<1>2. ThreatScore(e.kind) \in 0..100
    BY <1>1, ThreatIsPercentage
<1>3. CASE doc = NoDoc
    BY <1>1, <1>2, <1>3 DEF MergedDoc, Doc
<1>4. CASE doc # NoDoc
    <2>1. doc \in Doc
        BY <1>4
    <2>2. doc.hits \in Nat /\ doc.sessions \subseteq Sessions /\ doc.threat \in 0..100
        BY <2>1 DEF Doc
    <2>3. /\ Max({doc.threat, ThreatScore(e.kind)}) \in 0..100
          /\ Max({doc.threat, ThreatScore(e.kind)}) >= doc.threat
          /\ Max({doc.threat, ThreatScore(e.kind)}) >= ThreatScore(e.kind)
        BY <1>2, <2>2, MaxOfScores
    <2>4. MergedDoc(doc, e) =
            [hits |-> doc.hits + 1, sessions |-> doc.sessions \cup {e.session},
             threat |-> Max({doc.threat, ThreatScore(e.kind)})]
        BY <1>4 DEF MergedDoc
    <2>5. MergedDoc(doc, e) \in Doc
        BY <1>1, <2>2, <2>3, <2>4 DEF Doc
    <2>6. QED
        BY <2>3, <2>4, <2>5
<1>5. QED
    BY <1>3, <1>4

(* The row of an event is a row.                                            *)
LEMMA NewRowIsRow ==
    ASSUME NEW e \in Event
    PROVE  NewRow(e) \in Row
<1>1. /\ e.kind \in Kinds /\ e.attacker \in Attackers \cup {JumpHost}
      /\ e.adaptive \in BOOLEAN /\ e.at \in Nat /\ e.hassh \in BOOLEAN
    BY DEF Event
<1>2. ThreatScore(e.kind) \in 0..100
    BY <1>1, ThreatIsPercentage
<1>3. QED
    BY <1>1, <1>2 DEF NewRow, Row

(* So is a row with some of its columns set.                                *)
LEMMA RowWith ==
    ASSUME NEW r \in Row, NEW who \in Attackers \cup {JumpHost},
           NEW end \in Nat \cup {NoEnd}, NEW count \in Nat, NEW logins \in Nat,
           NEW seen \in BOOLEAN, NEW threat \in 0..100
    PROVE  [r EXCEPT !.count = count, !.threat = threat, !.logins = logins,
                     !.ended = end, !.hassh = seen, !.attacker = who] \in Row
BY DEF Row

(* So is one brought up to date, and its attacker is corrected only if the  *)
(* row that was read has another.                                           *)
Columns == {"attacker", "adaptive", "started", "ended", "count", "logins", "hassh", "threat"}

(* What an update writes is a row again.                                    *)
LEMMA UpdatedIsRow ==
    ASSUME NEW now \in Row, NEW read \in Row, NEW e \in Event
    PROVE  /\ Updated(now, read, e) \in Row
           /\ Updated(now, read, e).attacker =
                 IF CorrectedAttacker(read, e) # read.attacker
                 THEN CorrectedAttacker(read, e) ELSE now.attacker
<1>1. /\ e.kind \in Kinds /\ e.attacker \in Attackers \cup {JumpHost}
      /\ e.adaptive \in BOOLEAN /\ e.at \in Nat /\ e.hassh \in BOOLEAN
    BY DEF Event
<1>2. ThreatScore(e.kind) \in 0..100
    BY <1>1, ThreatIsPercentage
<1>3. DEFINE wants == [read EXCEPT
            !.count = @ + 1,
            !.threat = Max({@, ThreatScore(e.kind)}),
            !.logins = IF e.kind = "login_failed" THEN @ + 1 ELSE @,
            !.ended = IF e.kind = "closed" /\ Lasted(e) THEN e.at ELSE @,
            !.hassh = @ \/ e.hassh,
            !.attacker = CorrectedAttacker(read, e)]
<1>4. Max({read.threat, ThreatScore(e.kind)}) \in 0..100
    <2>1. read.threat \in 0..100
        BY DEF Row
    <2>2. QED
        BY <2>1, <1>2, MaxOfScores
<1>5. CorrectedAttacker(read, e) \in Attackers \cup {JumpHost}
    BY <1>1 DEF CorrectedAttacker, Row
<1>6. wants \in Row
    <2>1. /\ read.count \in Nat /\ read.logins \in Nat /\ read.ended \in Nat \cup {NoEnd}
          /\ read.adaptive \in BOOLEAN /\ read.started \in Nat
        BY DEF Row
    <2>2. (read.hassh \/ e.hassh) \in BOOLEAN
        OBVIOUS
    <2>3. (IF e.kind = "login_failed" THEN read.logins + 1 ELSE read.logins) \in Nat
        BY <2>1
    <2>4. (IF e.kind = "closed" /\ Lasted(e) THEN e.at ELSE read.ended) \in Nat \cup {NoEnd}
        BY <1>1, <2>1
    <2>5. read.count + 1 \in Nat
        BY <2>1
    <2>6. DEFINE who == CorrectedAttacker(read, e)
                 end == IF e.kind = "closed" /\ Lasted(e) THEN e.at ELSE read.ended
                 count == read.count + 1
                 logins == IF e.kind = "login_failed" THEN read.logins + 1 ELSE read.logins
                 seen == read.hassh \/ e.hassh
                 threat == Max({read.threat, ThreatScore(e.kind)})
    <2>7. /\ who \in Attackers \cup {JumpHost} /\ end \in Nat \cup {NoEnd}
          /\ count \in Nat /\ logins \in Nat /\ threat \in 0..100
        BY <1>4, <1>5, <2>3, <2>4, <2>5
    <2>8. seen \in BOOLEAN
        BY <2>2
    <2>9. wants = [read EXCEPT !.count = count, !.threat = threat, !.logins = logins,
                               !.ended = end, !.hassh = seen, !.attacker = who]
        OBVIOUS
    <2>10. HIDE DEF who, end, count, logins, seen, threat, wants
    <2>11. QED
        BY <2>7, <2>8, <2>9, RowWith
<1>7. wants.attacker = CorrectedAttacker(read, e)
    BY DEF Row
<1>8. DOMAIN now = Columns
    BY DEF Row, Columns
<1>9. Updated(now, read, e) =
        [column \in Columns |->
            IF wants[column] # read[column] THEN wants[column] ELSE now[column]]
    BY <1>8 DEF Updated
<1>10. HIDE DEF wants
<1>11. Updated(now, read, e) \in Row
    <2>1. DEFINE r == [column \in Columns |->
            IF wants[column] # read[column] THEN wants[column] ELSE now[column]]
    <2>2. r = [attacker |-> r.attacker, adaptive |-> r.adaptive, started |-> r.started,
               ended |-> r.ended, count |-> r.count, logins |-> r.logins,
               hassh |-> r.hassh, threat |-> r.threat]
        BY DEF Columns
    <2>3. /\ r.attacker \in {wants.attacker, now.attacker}
          /\ r.adaptive \in {wants.adaptive, now.adaptive}
          /\ r.started \in {wants.started, now.started}
          /\ r.ended \in {wants.ended, now.ended}
          /\ r.count \in {wants.count, now.count}
          /\ r.logins \in {wants.logins, now.logins}
          /\ r.hassh \in {wants.hassh, now.hassh}
          /\ r.threat \in {wants.threat, now.threat}
        BY DEF Columns
    <2>4. HIDE DEF r
    <2>5. \A row \in Row :
            /\ row.attacker \in Attackers \cup {JumpHost} /\ row.adaptive \in BOOLEAN
            /\ row.started \in Nat /\ row.ended \in Nat \cup {NoEnd}
            /\ row.count \in Nat /\ row.logins \in Nat /\ row.hassh \in BOOLEAN
            /\ row.threat \in 0..100
        BY DEF Row
    <2>6. /\ r.attacker \in Attackers \cup {JumpHost} /\ r.adaptive \in BOOLEAN
          /\ r.started \in Nat /\ r.ended \in Nat \cup {NoEnd}
          /\ r.count \in Nat /\ r.logins \in Nat /\ r.hassh \in BOOLEAN
          /\ r.threat \in 0..100
        BY <2>3, <2>5, <1>6
    <2>7. [attacker |-> r.attacker, adaptive |-> r.adaptive, started |-> r.started,
           ended |-> r.ended, count |-> r.count, logins |-> r.logins,
           hassh |-> r.hassh, threat |-> r.threat] \in Row
        BY <2>6 DEF Row
    <2>8. r \in Row
        BY <2>2, <2>7
    <2>9. QED
        BY <2>8, <1>9 DEF r
<1>12. QED
    BY <1>7, <1>9, <1>11 DEF Columns

-----------------------------------------------------------------------------
(* The sessions.                                                            *)

(* An event the sessions build is an event, of whom it says it is.          *)
LEMMA BuildsGenuine ==
    ASSUME NEW s \in Sessions, NEW kind \in Kinds, clock \in Nat,
           NEW by \in [attacker : Attackers \cup {JumpHost}, adaptive : BOOLEAN,
                       hassh : BOOLEAN],
           by.attacker \in {Peer(s), Owner[s]}
    PROVE  Build(s, kind, by) \in Event /\ Genuine(Build(s, kind, by))
<1>1. Peer(s) \in Attackers \cup {JumpHost}
    BY SessionsAssumption DEF Peer
<1>2. (kind \in {"login_failed", "login_success", "command"}) \in BOOLEAN
    OBVIOUS
<1>3. /\ by.attacker \in Attackers \cup {JumpHost}
      /\ by.adaptive \in BOOLEAN /\ by.hassh \in BOOLEAN
    OBVIOUS
<1>4. Build(s, kind, by) \in Event
    BY <1>1, <1>2, <1>3 DEF Build, Event
<1>5. /\ Build(s, kind, by).src = Peer(s)
      /\ Build(s, kind, by).session = s
      /\ Build(s, kind, by).attacker = by.attacker
    BY DEF Build
<1>6. QED
    BY <1>4, <1>5 DEF Genuine

(* A log that grows by such events is still a log of them.                  *)
LogsGenuine ==
    \/ log' = log
    \/ \E e \in Event : Genuine(e) /\ log' = Append(log, e)
    \/ \E d, e \in Event : Genuine(d) /\ Genuine(e) /\ log' = log \o <<d, e>>

(* Two lines are added after those there are.                               *)
LEMMA TwoMore ==
    ASSUME NEW S, NEW s \in Seq(S), NEW d \in S, NEW e \in S
    PROVE  /\ s \o <<d, e>> \in Seq(S) /\ Len(s \o <<d, e>>) = Len(s) + 2
           /\ DOMAIN (s \o <<d, e>>) = 1..Len(s) + 2
           /\ \A i \in 1..Len(s) : (s \o <<d, e>>)[i] = s[i]
           /\ (s \o <<d, e>>)[Len(s) + 1] = d /\ (s \o <<d, e>>)[Len(s) + 2] = e
<1>1. <<d, e>> \in Seq(S) /\ Len(<<d, e>>) = 2
    OBVIOUS
<1>2. Len(s) \in Nat
    BY LenProperties
<1>3. /\ s \o <<d, e>> \in Seq(S) /\ Len(s \o <<d, e>>) = Len(s) + 2
      /\ \A i \in 1..Len(s) + 2 : (s \o <<d, e>>)[i] =
            IF i <= Len(s) THEN s[i] ELSE <<d, e>>[i - Len(s)]
    BY <1>1, ConcatProperties
<1>4. DOMAIN (s \o <<d, e>>) = 1..Len(s) + 2
    BY <1>3, LenProperties
<1>5. \A i \in 1..Len(s) : (s \o <<d, e>>)[i] = s[i]
    BY <1>2, <1>3
<1>6. (s \o <<d, e>>)[Len(s) + 1] = <<d, e>>[1] /\ (s \o <<d, e>>)[Len(s) + 2] = <<d, e>>[2]
    BY <1>2, <1>3
<1>7. QED
    BY <1>3, <1>4, <1>5, <1>6

(* A log that grows by genuine events keeps its lines, all genuine.         *)
LEMMA LogKeeps ==
    ASSUME log \in Seq(Event), \A n \in Lines : Genuine(log[n]), LogsGenuine
    PROVE  /\ log' \in Seq(Event)
           /\ \A n \in DOMAIN log' : Genuine(log'[n])
           /\ LogGrows
<1>1. CASE log' = log
    <2>1. Len(log) \in Nat
        BY LenProperties
    <2>2. QED
        BY <2>1, <1>1 DEF LogGrows, Lines
<1>2. CASE \E e \in Event : Genuine(e) /\ log' = Append(log, e)
    <2>1. PICK e \in Event : Genuine(e) /\ log' = Append(log, e)
        BY <1>2
    <2>2. /\ Append(log, e) \in Seq(Event)
          /\ Len(Append(log, e)) = Len(log) + 1
          /\ \A i \in 1..Len(log) : Append(log, e)[i] = log[i]
          /\ Append(log, e)[Len(log) + 1] = e
        BY AppendProperties
    <2>3. Len(log) \in Nat /\ DOMAIN log = 1..Len(log)
        BY LenProperties
    <2>4. DOMAIN Append(log, e) = 1..Len(log) + 1
        BY <2>2, LenProperties
    <2>5. LogGrows
        BY <2>1, <2>2, <2>3, <2>4 DEF LogGrows, Lines
    <2>6. ASSUME NEW n \in 1..Len(log) + 1
          PROVE  Genuine(Append(log, e)[n])
        <3>1. CASE n = Len(log) + 1
            BY <3>1, <2>1, <2>2
        <3>2. CASE n # Len(log) + 1
            <4>1. n \in 1..Len(log)
                BY <3>2, <2>3
            <4>2. QED
                BY <4>1, <2>2, <2>3 DEF Lines
        <3>3. QED
            BY <3>1, <3>2
    <2>7. QED
        BY <2>1, <2>2, <2>4, <2>5, <2>6
<1>3. CASE \E d, e \in Event : Genuine(d) /\ Genuine(e) /\ log' = log \o <<d, e>>
    <2>1. PICK d \in Event, e \in Event :
            Genuine(d) /\ Genuine(e) /\ log' = log \o <<d, e>>
        BY <1>3
    <2>2. /\ log' \in Seq(Event) /\ Len(log') = Len(log) + 2
          /\ DOMAIN log' = 1..Len(log) + 2
          /\ \A i \in 1..Len(log) : log'[i] = log[i]
          /\ log'[Len(log) + 1] = d /\ log'[Len(log) + 2] = e
        BY <2>1, TwoMore
    <2>3. Len(log) \in Nat /\ DOMAIN log = 1..Len(log)
        BY LenProperties
    <2>4. LogGrows
        BY <2>2, <2>3 DEF LogGrows, Lines
    <2>5. ASSUME NEW n \in 1..Len(log) + 2
          PROVE  Genuine(log'[n])
        <3>1. n \in 1..Len(log) \/ n = Len(log) + 1 \/ n = Len(log) + 2
            BY <2>3
        <3>2. CASE n \in 1..Len(log)
            BY <2>2, <2>3, <3>2 DEF Lines
        <3>3. CASE n = Len(log) + 1
            BY <2>1, <2>2, <3>3
        <3>4. CASE n = Len(log) + 2
            BY <2>1, <2>2, <3>4
        <3>5. QED
            BY <3>1, <3>2, <3>3, <3>4
    <2>6. QED
        BY <2>2, <2>4, <2>5
<1>4. QED
    BY <1>1, <1>2, <1>3 DEF LogsGenuine

(* What a session keeps, apart from its pending command.                    *)
StampType == [attacker : Attackers \cup {JumpHost}, adaptive : BOOLEAN, hassh : BOOLEAN]
StateTypes ==
    /\ clock \in 0..MaxClock
    /\ conn \in [Sessions -> {"none", "open", "lost"}]
    /\ tries \in [Sessions -> 0..MaxAuthTries]
    /\ resolve \in [Sessions -> {"none", "asked", "found", "refused"}]
    /\ process \in [Sessions -> {"none", "started", "bridged", "done"}]
    /\ commands \in [Sessions -> 0..MaxCommands]
StampTypes == stamp \in [Sessions -> StampType] /\ StampInv

(* A step of a session leaves its state in order ...                        *)
LEMMA StateTypesNext ==
    ASSUME StateTypes, NEW s \in Sessions, SessionStep(s)
    PROVE  StateTypes'
<1>1. {MaxAuthTries, MaxCommands, MaxClock} \subseteq Nat
    BY SessionsAssumption
<1>2. CASE Connect(s) BY <1>2 DEF Connect, StateTypes
<1>3. CASE ConnectPivot(s) BY <1>3 DEF ConnectPivot, StateTypes
<1>4. CASE Disconnect(s) BY <1>4 DEF Disconnect, StateTypes
<1>5. CASE ResolveOwner(s) BY <1>5 DEF ResolveOwner, StateTypes
<1>6. CASE ResolveRefused(s) BY <1>6 DEF ResolveRefused, StateTypes
<1>7. CASE Fingerprint(s) BY <1>7 DEF Fingerprint, StateTypes
<1>8. CASE LoginFails(s) BY <1>1, <1>8 DEF LoginFails, MayTry, StateTypes
<1>9. CASE LoginSucceeds(s) BY <1>9 DEF LoginSucceeds, StateTypes
<1>10. CASE Bridge(s) BY <1>10 DEF Bridge, SetProcess, StateTypes
<1>11. CASE OneShot(s) BY <1>1, <1>11 DEF OneShot, SetProcess, StateTypes
<1>12. CASE Refuse(s) BY <1>12 DEF Refuse, SetProcess, StateTypes
<1>13. CASE Submit(s) BY <1>1, <1>13 DEF Submit, StateTypes
<1>14. CASE Echo(s) BY <1>14 DEF Echo, StateTypes
<1>15. CASE ProcessEnds(s) BY <1>15 DEF ProcessEnds, SetProcess, StateTypes
<1>16. CASE Forward(s) BY <1>16 DEF Forward, StateTypes
<1>17. QED
    BY <1>2, <1>3, <1>4, <1>5, <1>6, <1>7, <1>8, <1>9, <1>10, <1>11, <1>12, <1>13,
       <1>14, <1>15, <1>16 DEF SessionStep

(* ... so its pending flag ...                                              *)
LEMMA PendingNext ==
    ASSUME pending \in [Sessions -> BOOLEAN], NEW s \in Sessions, SessionStep(s)
    PROVE  pending' \in [Sessions -> BOOLEAN]
<1>1. \/ pending' = pending
      \/ pending' = [pending EXCEPT ![s] = TRUE]
      \/ pending' = [pending EXCEPT ![s] = FALSE]
    BY Zenon DEF SessionStep, Connect, ConnectPivot, Disconnect, ResolveOwner, ResolveRefused,
       Fingerprint, LoginFails, LoginSucceeds, Bridge, OneShot, Refuse, Submit, Echo,
       ProcessEnds, Forward
<1>2. QED
    BY <1>1

(* ... and its stamp, with which it writes events of its own.               *)
LEMMA StampsNext ==
    ASSUME StampTypes, clock \in Nat, NEW s \in Sessions, SessionStep(s)
    PROVE  StampTypes' /\ LogsGenuine
<1>1. /\ Peer(s) \in Attackers \cup {JumpHost}
      /\ Owner[s] \in Attackers
    BY SessionsAssumption DEF Peer
<1>2. stamp[s] \in StampType /\ stamp[s].attacker \in {Peer(s), Owner[s]}
    BY DEF StampTypes, StampInv
<1>3. \A a : IsAdaptive(a) \in BOOLEAN
    BY DEF IsAdaptive
<1>4. ASSUME NEW by \in StampType, by.attacker \in {Peer(s), Owner[s]},
             Stamped(s, by)
      PROVE  StampTypes'
    BY <1>4 DEF StampTypes, StampInv, Stamped
<1>5. ASSUME NEW by \in StampType, by.attacker \in {Peer(s), Owner[s]},
             NEW kind \in Kinds, EmitAs(s, kind, by)
      PROVE  LogsGenuine
    BY <1>5, BuildsGenuine DEF EmitAs, LogsGenuine, StampType
<1>6. ASSUME NEW kind \in Kinds, Emit(s, kind)
      PROVE  LogsGenuine
    BY <1>6, <1>5, <1>2 DEF Emit
<1>7. ASSUME UNCHANGED stamp
      PROVE  StampTypes'
    BY <1>7 DEF StampTypes, StampInv
<1>8. ASSUME UNCHANGED log
      PROVE  LogsGenuine
    BY <1>8 DEF LogsGenuine
<1>9. CASE Connect(s)
    <2>1. DEFINE known == [NewStamp(s) EXCEPT !.adaptive = IsAdaptive(Peer(s))]
    <2>2. known \in StampType /\ known.attacker = Peer(s)
        BY <1>1, <1>3 DEF NewStamp, StampType
    <2>3. Stamped(s, known) /\ EmitAs(s, "connect", known)
        BY <1>9, Zenon DEF Connect
    <2>4. HIDE DEF known
    <2>5. QED
        BY <2>2, <2>3, <1>4, <1>5 DEF Kinds
<1>10. CASE ConnectPivot(s)
    BY <1>10, <1>6, <1>7 DEF ConnectPivot, Kinds
<1>11. CASE Disconnect(s)
    BY <1>11, <1>6, <1>7 DEF Disconnect, Kinds
<1>12. CASE ResolveOwner(s)
    <2>1. DEFINE known == [stamp[s] EXCEPT !.attacker = Owner[s],
                                           !.adaptive = IsAdaptive(Owner[s])]
    <2>2. known \in StampType /\ known.attacker = Owner[s]
        BY <1>1, <1>2, <1>3 DEF StampType
    <2>3. Stamped(s, known) /\ UNCHANGED log
        BY <1>12, Zenon DEF ResolveOwner
    <2>4. HIDE DEF known
    <2>5. QED
        BY <2>2, <2>3, <1>4, <1>8
<1>13. CASE ResolveRefused(s)
    BY <1>13, <1>7, <1>8 DEF ResolveRefused
<1>14. CASE Fingerprint(s)
    <2>1. DEFINE known == [stamp[s] EXCEPT !.hassh = TRUE]
    <2>2. known \in StampType /\ known.attacker = stamp[s].attacker
        BY <1>2 DEF StampType
    <2>3. Stamped(s, known)
        BY <1>14, Zenon DEF Fingerprint
    <2>4. log' = log \o <<Build(s, "version", stamp[s]), Build(s, "kex", known)>>
        BY <1>14, Zenon DEF Fingerprint
    <2>5. HIDE DEF known
    <2>6. /\ Build(s, "version", stamp[s]) \in Event /\ Genuine(Build(s, "version", stamp[s]))
          /\ Build(s, "kex", known) \in Event /\ Genuine(Build(s, "kex", known))
        BY <1>2, <2>2, BuildsGenuine DEF Kinds, StampType
    <2>7. LogsGenuine
        BY <2>4, <2>6, Zenon DEF LogsGenuine
    <2>8. QED
        BY <1>2, <1>4, <2>2, <2>3, <2>7
<1>15. CASE LoginFails(s)
    BY <1>15, <1>6, <1>7 DEF LoginFails, Kinds
<1>16. CASE LoginSucceeds(s)
    BY <1>16, <1>6, <1>7 DEF LoginSucceeds, Kinds
<1>17. CASE Bridge(s)
    BY <1>17, <1>7, <1>8 DEF Bridge
<1>18. CASE OneShot(s)
    BY <1>18, <1>6, <1>7 DEF OneShot, Kinds
<1>19. CASE Refuse(s)
    BY <1>19, <1>7, <1>8 DEF Refuse
<1>20. CASE Submit(s)
    BY <1>20, <1>7, <1>8 DEF Submit
<1>21. CASE Echo(s)
    BY <1>21, <1>6, <1>7 DEF Echo, Kinds
<1>22. CASE ProcessEnds(s)
    <2>1. UNCHANGED stamp /\ (Emit(s, "command") \/ UNCHANGED log)
        BY <1>22, Zenon DEF ProcessEnds
    <2>2. QED
        BY <2>1, <1>6, <1>7, <1>8 DEF Kinds
<1>23. CASE Forward(s)
    BY <1>23, <1>6, <1>7 DEF Forward, Kinds
<1>24. QED
    BY <1>9, <1>10, <1>11, <1>12, <1>13, <1>14, <1>15, <1>16, <1>17, <1>18, <1>19,
       <1>20, <1>21, <1>22, <1>23 DEF SessionStep

(* SessionsInv in these parts.                                              *)
SessionsApart ==
    /\ StateTypes /\ StampTypes
    /\ pending \in [Sessions -> BOOLEAN]
    /\ log \in Seq(Event) /\ \A n \in Lines : Genuine(log[n])
(* The invariant of the sessions, as what each session satisfies alone.     *)
LEMMA SessionParts == SessionsInv <=> SessionsApart
BY Zenon DEF SessionsApart, SessionsInv, SessionsTypeOK, StateTypes, StampTypes, StampType

(* What any step of them leaves for the hub.                                *)
LEMMA SessionsNext ==
    SessionsInv /\ (\E s \in Sessions : SessionStep(s)) => SessionsInv' /\ LogGrows
<1> SUFFICES ASSUME SessionsInv, NEW s \in Sessions, SessionStep(s)
             PROVE  SessionsInv' /\ LogGrows
    OBVIOUS
<1>1. /\ StateTypes /\ StampTypes
      /\ pending \in [Sessions -> BOOLEAN]
      /\ log \in Seq(Event) /\ \A n \in Lines : Genuine(log[n])
    BY SessionParts DEF SessionsApart
<1>2. clock \in Nat
    BY <1>1, SessionsAssumption DEF StateTypes
<1>3. StampTypes' /\ LogsGenuine
    BY <1>1, <1>2, StampsNext
<1>4. /\ log' \in Seq(Event)
      /\ \A n \in DOMAIN log' : Genuine(log'[n])
      /\ LogGrows
    BY <1>1, <1>3, LogKeeps
<1>5. StateTypes' /\ pending' \in [Sessions -> BOOLEAN]
    BY <1>1, StateTypesNext, PendingNext
<1>6. SessionsInv' <=> SessionsApart'
    BY SessionParts, PTL
<1>7. QED
    BY <1>3, <1>4, <1>5, <1>6, Zenon DEF SessionsApart, Lines

(* Time passing, and a step of the hub, leave the sessions as they are.     *)
LEMMA SessionsRest ==
    /\ SessionsInv /\ Tick => SessionsInv'
    /\ SessionsInv /\ UNCHANGED sessionVars => SessionsInv'
<1>1. ASSUME SessionsInv, Tick
      PROVE  SessionsInv'
    <2>1. /\ clock' \in 0..MaxClock
        BY <1>1, SessionsAssumption DEF Tick, SessionsInv, SessionsTypeOK
    <2>2. UNCHANGED <<conn, stamp, tries, resolve, process, commands, pending, log>>
        BY <1>1 DEF Tick
    <2>3. QED
        BY <2>1, <2>2, <1>1, Zenon DEF SessionsInv, SessionsTypeOK, StampInv, Lines
<1>2. ASSUME SessionsInv, UNCHANGED sessionVars
      PROVE  SessionsInv'
    BY <1>2 DEF sessionVars, SessionsInv, SessionsTypeOK, StampInv, Lines
<1>3. QED
    BY <1>1, <1>2

-----------------------------------------------------------------------------
(* The steps of the hub, by what they do to the requests in service.        *)
BaseInv == SessionsInv /\ ShipInv /\ CountInv /\ StoreInv /\ WorkInv

(* Lines are added to the log.                                              *)
Grows ==
    /\ LogGrows
    /\ indexed' = Grow(indexed) /\ alerts' = Grow(alerts) /\ committed' = Grow(committed)
    /\ UNCHANGED <<shipVars, work, iocs, graph, rows, overlapped, forgotten>>

(* A line is posted: the next one, or one that has to be posted again.      *)
NewJob(n) == [Idle EXCEPT !.line = n, !.step = "get", !.todo = IocsOf(log[n])]
Takes(h, n) ==
    /\ waiting = NoHandler /\ work[h] = Idle
    /\ \/ n = next /\ next <= Len(log) /\ next' = next + 1 /\ spool' = spool
       \/ n \in spool /\ next' = next /\ spool' = spool \ {n}
    /\ work' = [work EXCEPT ![h] = NewJob(n)]
    /\ waiting' = h
    /\ overlapped' = (overlapped \/ Busy # {})
    /\ indexed' = [indexed EXCEPT ![n] = @ + 1]
    /\ UNCHANGED <<log, iocs, graph, rows, alerts, committed, forgotten>>

(* A handler goes on with its line.                                         *)
Turns(h) ==
    /\ \E job \in Job :
        /\ job.line = work[h].line /\ job.step # "idle"
        /\ job.step \in {"get", "put"} => job.todo # <<>>
        /\ work' = [work EXCEPT ![h] = job]
    /\ work[h] # Idle
    /\ UNCHANGED <<log, shipVars, indexed, rows, alerts, committed, overlapped>>

(* A handler answers; only a line that is committed counts as delivered.    *)
Leaves(h, ok) ==
    /\ work[h] # Idle
    /\ Answer(h, ok)
    /\ \/ ~ok /\ UNCHANGED <<committed, alerts, rows>>
       \/ Store(h)
    /\ graph \subseteq graph'
    /\ UNCHANGED <<log, indexed, iocs, overlapped, forgotten>>

Pauses == UNCHANGED <<log, shipVars, work, storeVars, ghostVars>>

(* The lines are numbered from 1, and each is an event.                     *)
LEMMA LinesAre ==
    ASSUME log \in Seq(Event)
    PROVE  /\ Len(log) \in Nat /\ Lines = 1..Len(log)
           /\ \A n \in Lines : log[n] \in Event
BY LenProperties, ElementOfSeq DEF Lines

(* The line of a busy handler is a line of the log.                         *)
LEMMA BusyLines ==
    ASSUME BaseInv, NEW h \in Handlers, work[h] # Idle
    PROVE  /\ work[h] \in Job
           /\ work[h].line \in Lines /\ work[h].line \in 1..next - 1
           /\ EventOf(h) \in Event
<1>1. log \in Seq(Event)
    BY DEF BaseInv, SessionsInv, SessionsTypeOK
<1>2. work[h].line \in 1..next - 1 /\ work[h] \in Job
    BY DEF BaseInv, WorkInv
<1>3. next <= Len(log) + 1 /\ next \in Nat
    BY DEF BaseInv, ShipInv
<1>4. work[h].line \in Lines
    BY <1>1, <1>2, <1>3, LinesAre
<1>5. QED
    BY <1>1, <1>2, <1>4, LinesAre DEF EventOf

(* What a job is made of; an idle handler has none.                         *)
LEMMA JobIs ==
    /\ \A j \in Job : /\ j.line \in Nat /\ j.step \in Steps /\ j.todo \in Seq(Iocs)
                      /\ j.doc \in Doc \cup {NoDoc} /\ j.row \in Row \cup {NoRow}
    /\ Idle \in Job /\ Idle.line = 0 /\ Idle.step = "idle" /\ Idle.row = NoRow
BY DEF Job, Idle, Steps

(* A handler that is at a step of process_event is busy.                    *)
LEMMA AtIsBusy ==
    ASSUME NEW h, NEW step, At(h, step), step # "idle"
    PROVE  work[h] # Idle
BY JobIs DEF At

(* The step of a job can be set alone.                                      *)
LEMMA JobWith ==
    ASSUME NEW j \in Job, NEW step \in Steps
    PROVE  /\ [j EXCEPT !.step = step] \in Job
           /\ [j EXCEPT !.step = step].line = j.line
           /\ [j EXCEPT !.step = step].step = step
           /\ [j EXCEPT !.step = step].todo = j.todo
           /\ [j EXCEPT !.step = step].row = j.row
BY DEF Job

(* What is stored of an IOC is a document or none.                          *)
LEMMA StoredIs ==
    ASSUME StoreInv, NEW i
    PROVE  Stored(i) \in Doc \cup {NoDoc}
BY DEF StoreInv, Stored

(* Each step of a handler that stays at its line is a turn.                 *)
LEMMA TurnsAre ==
    ASSUME BaseInv, NEW h \in Handlers,
           ReadIoc(h) \/ ReadIocFails(h) \/ WriteIoc(h) \/ WriteGraph(h) \/ SelectRow(h)
    PROVE  Turns(h)
<1>1. work \in [Handlers -> Job]
    BY DEF BaseInv, WorkInv
<1>2. work[h] # Idle /\ work[h] \in Job
    BY <1>1, AtIsBusy DEF ReadIoc, ReadIocFails, WriteIoc, WriteGraph, SelectRow
<1>3. work[h].step \in {"get", "put"} => work[h].todo # <<>>
    BY DEF BaseInv, WorkInv
<1>4. CASE ReadIoc(h)
    <2>1. DEFINE doc == Stored(work[h].todo[1])
                 job == [work[h] EXCEPT !.doc = doc, !.step = "put"]
    <2>2. doc \in Doc \cup {NoDoc}
        BY StoredIs DEF BaseInv
    <2>3. work' = [work EXCEPT ![h] = job] /\ At(h, "get")
        BY <1>4 DEF ReadIoc, Continue
    <2>4. "put" \in Steps /\ job = [work[h] EXCEPT !.doc = doc, !.step = "put"]
        BY DEF Steps
    <2>5. HIDE DEF job, doc
    <2>6. job \in Job /\ job.line = work[h].line /\ job.step = "put" /\ job.todo = work[h].todo
        BY <1>2, <2>2, <2>4 DEF Job
    <2>7. UNCHANGED <<log, shipVars, indexed, rows, alerts, committed, overlapped>>
        BY <1>4 DEF ReadIoc, sessionVars, storeVars, ghostVars
    <2>8. QED
        BY <1>2, <1>3, <2>3, <2>6, <2>7 DEF Turns, At
<1>5. CASE ReadIocFails(h)
    <2>1. DEFINE job == [work[h] EXCEPT !.doc = NoDoc, !.step = "put"]
    <2>2. work' = [work EXCEPT ![h] = job] /\ At(h, "get")
        BY <1>5 DEF ReadIocFails, Continue
    <2>3. "put" \in Steps /\ job = [work[h] EXCEPT !.doc = NoDoc, !.step = "put"]
        BY DEF Steps
    <2>4. HIDE DEF job
    <2>5. job \in Job /\ job.line = work[h].line /\ job.step = "put" /\ job.todo = work[h].todo
        BY <1>2, <2>3 DEF Job
    <2>6. UNCHANGED <<log, shipVars, indexed, rows, alerts, committed, overlapped>>
        BY <1>5 DEF ReadIocFails, sessionVars, storeVars
    <2>7. QED
        BY <1>2, <1>3, <2>2, <2>5, <2>6 DEF Turns, At
<1>6. CASE WriteIoc(h)
    <2>1. DEFINE rest == Tail(work[h].todo)
                 step == IF rest = <<>> THEN "graph" ELSE "get"
                 job == [work[h] EXCEPT !.todo = rest, !.doc = NoDoc, !.step = step]
    <2>2. At(h, "put") /\ work' = [work EXCEPT ![h] = job]
        BY <1>6 DEF WriteIoc, Continue
    <2>3. work[h].todo \in Seq(Iocs) /\ work[h].todo # <<>>
        BY <1>2, <1>3, <2>2, JobIs DEF At
    <2>4. rest \in Seq(Iocs) /\ step \in Steps
        BY <2>3, HeadAndRest DEF Steps
    <2>5. UNCHANGED <<log, shipVars, indexed, rows, alerts, committed, overlapped>>
        BY <1>6 DEF WriteIoc, sessionVars, ghostVars
    <2>6. step # "idle" /\ (step \in {"get", "put"} => rest # <<>>)
        OBVIOUS
    <2>7. job = [work[h] EXCEPT !.todo = rest, !.doc = NoDoc, !.step = step]
        OBVIOUS
    <2>8. HIDE DEF job, step, rest
    <2>9. job \in Job /\ job.line = work[h].line /\ job.step = step /\ job.todo = rest
        BY <1>2, <2>4, <2>7 DEF Job
    <2>10. QED
        BY <1>2, <2>2, <2>5, <2>6, <2>9 DEF Turns
<1>7. CASE WriteGraph(h)
    <2>1. DEFINE job == [work[h] EXCEPT !.step = "select"]
    <2>2. job \in Job /\ job.line = work[h].line /\ job.step = "select"
        BY <1>2, JobWith DEF Steps
    <2>3. work' = [work EXCEPT ![h] = job]
        BY <1>7 DEF WriteGraph, GoTo, Continue
    <2>4. UNCHANGED <<log, shipVars, indexed, rows, alerts, committed, overlapped>>
        BY <1>7 DEF WriteGraph, sessionVars, ghostVars
    <2>5. HIDE DEF job
    <2>6. QED
        BY <1>2, <2>2, <2>3, <2>4 DEF Turns
<1>8. CASE SelectRow(h)
    <2>1. DEFINE s == EventOf(h).session
                 row == IF s \in DOMAIN rows THEN rows[s] ELSE NoRow
                 job == [work[h] EXCEPT !.row = row, !.step = "commit"]
    <2>2. row \in Row \cup {NoRow}
        BY DEF BaseInv, StoreInv
    <2>3. work' = [work EXCEPT ![h] = job]
        BY <1>8 DEF SelectRow, Continue
    <2>4. "commit" \in Steps /\ job = [work[h] EXCEPT !.row = row, !.step = "commit"]
        BY DEF Steps
    <2>5. HIDE DEF job, row
    <2>6. job \in Job /\ job.line = work[h].line /\ job.step = "commit"
        BY <1>2, <2>2, <2>4 DEF Job
    <2>7. UNCHANGED <<log, shipVars, indexed, rows, alerts, committed, overlapped>>
        BY <1>8 DEF SelectRow, sessionVars, storeVars, ghostVars
    <2>8. QED
        BY <1>2, <2>3, <2>6, <2>7 DEF Turns
<1>9. QED
    BY <1>4, <1>5, <1>6, <1>7, <1>8

(* Each step of a handler that is done with its line, one way or the other. *)
LEMMA LeavesAre ==
    ASSUME NEW h \in Handlers,
           \/ Commit(h) \/ PublishFails(h) \/ InsertCollides(h)
           \/ StoreFails(h) \/ GraphFails(h)
    PROVE  \E ok \in BOOLEAN : Leaves(h, ok)
<1>1. work[h] # Idle
    BY AtIsBusy, JobIs
       DEF Commit, PublishFails, Store, InsertCollides, StoreFails, GraphFails
<1>2. ASSUME Store(h)
      PROVE  UNCHANGED <<log, indexed, iocs, graph, overlapped, forgotten>>
    BY <1>2 DEF Store, sessionVars
<1>3. CASE Commit(h)
    BY <1>1, <1>2, <1>3 DEF Commit, Leaves
<1>4. CASE PublishFails(h)
    BY <1>1, <1>2, <1>4 DEF PublishFails, Leaves
<1>5. CASE InsertCollides(h) \/ StoreFails(h)
    <2>1. /\ Answer(h, FALSE)
          /\ UNCHANGED <<sessionVars, storeVars, ghostVars>>
        BY <1>5 DEF InsertCollides, StoreFails
    <2>2. Leaves(h, FALSE)
        BY <1>1, <2>1 DEF Leaves, sessionVars, storeVars, ghostVars
    <2>3. QED
        BY <2>2
<1>6. CASE GraphFails(h)
    <2>1. /\ Answer(h, FALSE)
          /\ UNCHANGED <<sessionVars, indexed, iocs, rows, alerts, ghostVars>>
        BY <1>6 DEF GraphFails
    <2>2. graph \subseteq graph'
        BY <1>6, Zenon DEF GraphFails
    <2>3. Leaves(h, FALSE)
        BY <1>1, <2>1, <2>2 DEF Leaves, sessionVars, ghostVars
    <2>4. QED
        BY <2>3
<1>7. QED
    BY <1>3, <1>4, <1>5, <1>6

(* And a post takes a line.                                                 *)
LEMMA TakesAre ==
    ASSUME ShipInv, NEW h \in Handlers, PostNext(h) \/ PostAgain(h)
    PROVE  \E n \in Nat : Takes(h, n)
<1>1. next \in Nat /\ spool \subseteq Nat
    BY DEF ShipInv
<1>2. CASE PostNext(h)
    <2>1. Takes(h, next)
        BY <1>2 DEF PostNext, Post, Takes, NewJob, sessionVars
    <2>2. QED
        BY <2>1, <1>1
<1>3. CASE PostAgain(h)
    <2>1. Min(spool) \in spool
        BY <1>1, <1>3, MinOfLines DEF PostAgain
    <2>2. Takes(h, Min(spool))
        BY <1>3, <2>1 DEF PostAgain, Post, Takes, NewJob, sessionVars
    <2>3. QED
        BY <1>1, <2>1, <2>2
<1>4. QED
    BY <1>2, <1>3

(* So each step is of one of these kinds.                                   *)
LEMMA KindsOfStep ==
    BaseInv /\ [Next]_vars =>
        \/ Pauses
        \/ Grows
        \/ \E h \in Handlers, n \in Nat : Takes(h, n)
        \/ TimesOut
        \/ \E h \in Handlers : Turns(h)
        \/ \E h \in Handlers : \E ok \in BOOLEAN : Leaves(h, ok)
<1> SUFFICES ASSUME BaseInv, [Next]_vars
             PROVE  \/ Pauses
                    \/ Grows
                    \/ \E h \in Handlers, n \in Nat : Takes(h, n)
                    \/ TimesOut
                    \/ \E h \in Handlers : Turns(h)
                    \/ \E h \in Handlers : \E ok \in BOOLEAN : Leaves(h, ok)
    OBVIOUS
<1>1. CASE SessionsMove
    <2>1. LogGrows
        BY <1>1, SessionsNext DEF SessionsMove, BaseInv
    <2>2. QED
        BY <1>1, <2>1 DEF SessionsMove, Grows
<1>2. CASE TimePasses \/ UNCHANGED vars
    BY <1>2 DEF TimePasses, Tick, hubVars, vars, Pauses, sessionVars
<1>3. CASE ShipperStep
    BY <1>3, TakesAre DEF ShipperStep, BaseInv
<1>4. ASSUME NEW h \in Handlers, HandlerStep(h) \/ HandlerFault(h)
      PROVE  Turns(h) \/ \E ok \in BOOLEAN : Leaves(h, ok)
    BY <1>4, TurnsAre, LeavesAre DEF HandlerStep, HandlerFault
<1>5. QED
    BY <1>1, <1>2, <1>3, <1>4 DEF Next

-----------------------------------------------------------------------------
(* The shipper and the requests in service.                                 *)

(* The sessions stay in order whatever the hub does.                        *)
LEMMA SessionsKept == SessionsInv /\ [Next]_vars => SessionsInv'
<1> SUFFICES ASSUME SessionsInv, [Next]_vars
             PROVE  SessionsInv'
    OBVIOUS
<1>1. CASE SessionsMove
    BY <1>1, SessionsNext DEF SessionsMove
<1>2. CASE TimePasses
    BY <1>2, SessionsRest DEF TimePasses
<1>3. CASE ShipperStep \/ TimesOut \/ UNCHANGED vars
    <2>1. UNCHANGED sessionVars
        BY <1>3 DEF ShipperStep, PostNext, PostAgain, Post, TimesOut, vars
    <2>2. QED
        BY <2>1, SessionsRest
<1>4. ASSUME NEW h \in Handlers, HandlerStep(h) \/ HandlerFault(h)
      PROVE  SessionsInv'
    <2>1. UNCHANGED sessionVars
        BY <1>4, Zenon DEF HandlerStep, HandlerFault, ReadIoc, ReadIocFails, WriteIoc, WriteGraph,
           GraphFails, SelectRow, Commit, PublishFails, Store, InsertCollides, StoreFails
    <2>2. QED
        BY <2>1, SessionsRest
<1>5. QED
    BY <1>1, <1>2, <1>3, <1>4 DEF Next

(* What the shipper waits for and has to post again stays in bounds ...     *)
LEMMA ShipNext == BaseInv /\ [Next]_vars => ShipInv'
<1> SUFFICES ASSUME BaseInv, [Next]_vars
             PROVE  ShipInv'
    OBVIOUS
<1>1. /\ next \in Nat /\ 1 <= next /\ next <= Len(log) + 1
      /\ waiting \in Handlers \cup {NoHandler}
      /\ spool \subseteq 1..next - 1
    BY DEF BaseInv, ShipInv
<1>2. log \in Seq(Event)
    BY DEF BaseInv, SessionsInv, SessionsTypeOK
<1>3. Len(log) \in Nat
    BY <1>2, LinesAre
<1>4. CASE Pauses
    BY <1>1, <1>4 DEF Pauses, ShipInv, shipVars
<1>5. CASE Grows
    <2>1. Len(log') >= Len(log) /\ UNCHANGED <<next, waiting, spool>>
        BY <1>5 DEF Grows, LogGrows, shipVars
    <2>2. log' \in Seq(Event)
        <3>1. SessionsInv'
            BY SessionsKept DEF BaseInv
        <3>2. QED
            BY <3>1 DEF SessionsInv, SessionsTypeOK
    <2>3. Len(log') \in Nat
        BY <2>2, LenProperties
    <2>4. QED
        BY <1>1, <1>3, <2>1, <2>3 DEF ShipInv
<1>6. ASSUME NEW h \in Handlers, NEW n \in Nat, Takes(h, n)
      PROVE  ShipInv'
    <2>1. CASE n = next /\ next <= Len(log) /\ next' = next + 1 /\ spool' = spool
        BY <1>1, <1>3, <1>6, <2>1 DEF Takes, ShipInv
    <2>2. CASE n \in spool /\ next' = next /\ spool' = spool \ {n}
        BY <1>1, <1>3, <1>6, <2>2 DEF Takes, ShipInv
    <2>3. QED
        BY <1>6, <2>1, <2>2 DEF Takes
<1>7. CASE TimesOut
    <2>1. waiting \in Handlers /\ work[waiting] # Idle
        BY <1>1, <1>7 DEF TimesOut, BaseInv, WorkInv
    <2>2. work[waiting].line \in 1..next - 1
        BY <2>1, BusyLines
    <2>3. UNCHANGED <<log, next>> /\ waiting' = NoHandler
        BY <1>7 DEF TimesOut, sessionVars
    <2>4. spool' = spool \cup {work[waiting].line}
        BY <1>7 DEF TimesOut
    <2>5. QED
        BY <1>1, <2>2, <2>3, <2>4 DEF ShipInv
<1>8. ASSUME NEW h \in Handlers, Turns(h)
      PROVE  ShipInv'
    BY <1>1, <1>8 DEF Turns, ShipInv, shipVars
<1>9. ASSUME NEW h \in Handlers, NEW ok \in BOOLEAN, Leaves(h, ok)
      PROVE  ShipInv'
    <2>1. work[h].line \in 1..next - 1
        BY <1>9, BusyLines DEF Leaves
    <2>2. UNCHANGED <<log, next>>
        BY <1>9 DEF Leaves, Answer
    <2>3. waiting' \in {waiting, NoHandler}
        BY <1>9 DEF Leaves, Answer
    <2>4. spool' \subseteq spool \cup {work[h].line}
        BY <1>9, Zenon DEF Leaves, Answer
    <2>5. QED
        BY <1>1, <2>1, <2>2, <2>3, <2>4 DEF ShipInv
<1>10. QED
    BY <1>4, <1>5, <1>6, <1>7, <1>8, <1>9, KindsOfStep

(* A new job is one.                                                        *)
LEMMA NewJobIs ==
    ASSUME log \in Seq(Event), NEW n \in Lines
    PROVE  /\ NewJob(n) \in Job
           /\ NewJob(n).line = n /\ NewJob(n).step = "get" /\ NewJob(n).row = NoRow
           /\ NewJob(n).todo = IocsOf(log[n]) /\ NewJob(n).todo # <<>>
<1>1. log[n] \in Event /\ n \in Nat
    BY LinesAre
<1>2. IocsOf(log[n]) \in Seq(Iocs) /\ IocsOf(log[n]) # <<>>
    BY <1>1, IocsAreIocs
<1>3. QED
    BY <1>1, <1>2, JobIs DEF NewJob, Job, Idle, Steps

(* A line that is taken is one of the log.                                  *)
LEMMA TakenIsLine ==
    ASSUME BaseInv, NEW h, NEW n, Takes(h, n)
    PROVE  /\ n \in Lines /\ n \in 1..next' - 1
           /\ 1..next - 1 \subseteq 1..next' - 1
           /\ NewJob(n) \in Job /\ NewJob(n).line = n /\ NewJob(n).step = "get"
           /\ NewJob(n).row = NoRow
           /\ NewJob(n).todo = IocsOf(log[n]) /\ NewJob(n).todo # <<>>
<1>1. /\ next \in Nat /\ 1 <= next /\ next <= Len(log) + 1
      /\ spool \subseteq 1..next - 1
    BY DEF BaseInv, ShipInv
<1>2. log \in Seq(Event)
    BY DEF BaseInv, SessionsInv, SessionsTypeOK
<1>3. Len(log) \in Nat /\ Lines = 1..Len(log)
    BY <1>2, LinesAre
<1>4. n \in Lines /\ n \in 1..next' - 1 /\ 1..next - 1 \subseteq 1..next' - 1
    <2>1. CASE n = next /\ next <= Len(log) /\ next' = next + 1
        BY <1>1, <1>3, <2>1
    <2>2. CASE n \in spool /\ next' = next
        BY <1>1, <1>3, <2>2
    <2>3. QED
        BY <2>1, <2>2 DEF Takes
<1>5. QED
    BY <1>2, <1>4, NewJobIs

(* ... every handler is idle or at a line that was posted ...               *)
LEMMA WorkNext == BaseInv /\ [Next]_vars => WorkInv'
<1> SUFFICES ASSUME BaseInv, [Next]_vars
             PROVE  WorkInv'
    OBVIOUS
<1>1. WorkInv
    BY DEF BaseInv
<1>2. CASE Pauses
    BY <1>1, <1>2 DEF Pauses, WorkInv, shipVars
<1>3. CASE Grows
    BY <1>1, <1>3 DEF Grows, WorkInv, shipVars
<1>4. ASSUME NEW h \in Handlers, NEW n \in Nat, Takes(h, n)
      PROVE  WorkInv'
    <2>1. /\ n \in 1..next' - 1 /\ 1..next - 1 \subseteq 1..next' - 1
          /\ NewJob(n) \in Job /\ NewJob(n).line = n /\ NewJob(n).step = "get"
          /\ NewJob(n).todo # <<>>
        BY <1>4, TakenIsLine
    <2>2. work' = [work EXCEPT ![h] = NewJob(n)] /\ waiting' = h
        BY <1>4 DEF Takes
    <2>3. NewJob(n) # Idle
        BY <2>1, JobIs
    <2>4. ASSUME NEW g \in Handlers
          PROVE  /\ work'[g] # Idle => work'[g].line \in 1..next' - 1 /\ work'[g].step # "idle"
                 /\ work'[g].step \in {"get", "put"} => work'[g].todo # <<>>
        <3>1. CASE g = h
            BY <1>1, <2>1, <2>2, <3>1 DEF WorkInv
        <3>2. CASE g # h
            BY <1>1, <2>1, <2>2, <3>2 DEF WorkInv
        <3>3. QED
            BY <3>1, <3>2
    <2>5. QED
        BY <1>1, <2>1, <2>2, <2>3, <2>4 DEF WorkInv
<1>5. CASE TimesOut
    BY <1>1, <1>5 DEF TimesOut, WorkInv
<1>6. ASSUME NEW h \in Handlers, Turns(h)
      PROVE  WorkInv'
    <2>1. PICK job \in Job :
            /\ job.line = work[h].line /\ job.step # "idle"
            /\ job.step \in {"get", "put"} => job.todo # <<>>
            /\ work' = [work EXCEPT ![h] = job]
        BY <1>6 DEF Turns
    <2>2. UNCHANGED <<next, waiting>> /\ work[h] # Idle
        BY <1>6 DEF Turns, shipVars
    <2>3. job # Idle /\ job.line \in 1..next - 1
        BY <1>1, <2>1, <2>2, JobIs DEF WorkInv
    <2>4. QED
        BY <1>1, <2>1, <2>2, <2>3 DEF WorkInv
<1>7. ASSUME NEW h \in Handlers, NEW ok \in BOOLEAN, Leaves(h, ok)
      PROVE  WorkInv'
    <2>1. /\ work' = [work EXCEPT ![h] = Idle] /\ next' = next
          /\ waiting' = IF waiting = h THEN NoHandler ELSE waiting
        BY <1>7 DEF Leaves, Answer
    <2>2. Idle \in Job /\ Idle.step \notin {"get", "put"}
        BY JobIs
    <2>3. QED
        BY <1>1, <2>1, <2>2 DEF WorkInv
<1>8. QED
    BY <1>2, <1>3, <1>4, <1>5, <1>6, <1>7, KindsOfStep

(* ... and one at most is, until a request was given up.                    *)
LEMMA AloneNext == BaseInv /\ AloneInv /\ [Next]_vars => AloneInv'
<1> SUFFICES ASSUME BaseInv, AloneInv, [Next]_vars, ~overlapped',
                    NEW g \in Busy', NEW k \in Busy'
             PROVE  g = k
    BY DEF AloneInv
<1>1. work \in [Handlers -> Job]
    BY DEF BaseInv, WorkInv
<1>2. CASE Pauses
    BY <1>2 DEF Pauses, ghostVars, AloneInv, Busy
<1>3. CASE Grows
    BY <1>3 DEF Grows, AloneInv, Busy
<1>4. ASSUME NEW h \in Handlers, NEW n \in Nat, Takes(h, n)
      PROVE  g = k
    <2>1. Busy = {}
        BY <1>4 DEF Takes
    <2>2. Busy' \subseteq {h}
        BY <1>1, <1>4, <2>1 DEF Takes, Busy
    <2>3. QED
        BY <2>2
<1>5. CASE TimesOut
    BY <1>5 DEF TimesOut, ghostVars, AloneInv, Busy
<1>6. ASSUME NEW h \in Handlers, Turns(h)
      PROVE  g = k
    <2>1. h \in Busy
        BY <1>6 DEF Turns, Busy
    <2>2. Busy' \subseteq Busy \cup {h}
        BY <1>1, <1>6 DEF Turns, Busy
    <2>3. QED
        BY <1>6, <2>1, <2>2 DEF Turns, AloneInv
<1>7. ASSUME NEW h \in Handlers, NEW ok \in BOOLEAN, Leaves(h, ok)
      PROVE  g = k
    <2>1. Busy' \subseteq Busy
        BY <1>1, <1>7 DEF Leaves, Answer, Busy
    <2>2. QED
        BY <1>7, <2>1 DEF Leaves, AloneInv
<1>8. QED
    BY <1>2, <1>3, <1>4, <1>5, <1>6, <1>7, KindsOfStep

-----------------------------------------------------------------------------
(* The counters and the stores.                                             *)

(* Old lines keep their counts when the log grows; new ones start at zero.  *)
LEMMA GrowIs ==
    ASSUME log \in Seq(Event), log' \in Seq(Event), LogGrows,
           NEW count \in [Lines -> Nat]
    PROVE  /\ Grow(count) \in [Lines' -> Nat]
           /\ \A n \in Lines : n \in Lines' /\ Grow(count)[n] = count[n] /\ log'[n] = log[n]
           /\ \A n \in Lines' : n \notin Lines => Grow(count)[n] = 0
BY DEF Grow, Lines, LogGrows

(* The counters are kept for each line.                                     *)
LEMMA CountNext == BaseInv /\ [Next]_vars => CountInv'
<1> SUFFICES ASSUME BaseInv, [Next]_vars
             PROVE  CountInv'
    OBVIOUS
<1>1. /\ indexed \in [Lines -> Nat] /\ alerts \in [Lines -> Nat]
      /\ committed \in [Lines -> Nat]
    BY DEF BaseInv, CountInv
<1>2. log \in Seq(Event) /\ log' \in Seq(Event)
    BY SessionsKept DEF BaseInv, SessionsInv, SessionsTypeOK
<1>3. CASE Pauses
    BY <1>1, <1>3 DEF Pauses, storeVars, ghostVars, CountInv, Lines
<1>4. CASE Grows
    BY <1>1, <1>2, <1>4, GrowIs DEF Grows, CountInv
<1>5. ASSUME NEW h \in Handlers, NEW n \in Nat, Takes(h, n)
      PROVE  CountInv'
    <2>1. n \in Lines
        BY <1>5, TakenIsLine
    <2>2. QED
        BY <1>1, <1>5, <2>1 DEF Takes, CountInv, Lines
<1>6. CASE TimesOut
    BY <1>1, <1>6 DEF TimesOut, sessionVars, storeVars, ghostVars, CountInv, Lines
<1>7. ASSUME NEW h \in Handlers, Turns(h)
      PROVE  CountInv'
    BY <1>1, <1>7 DEF Turns, CountInv, Lines
<1>8. ASSUME NEW h \in Handlers, NEW ok \in BOOLEAN, Leaves(h, ok)
      PROVE  CountInv'
    <2>1. UNCHANGED <<log, indexed>>
        BY <1>8 DEF Leaves
    <2>2. work[h].line \in Lines
        BY <1>8, BusyLines DEF Leaves
    <2>3. CASE UNCHANGED <<committed, alerts, rows>>
        BY <1>1, <2>1, <2>3 DEF CountInv, Lines
    <2>4. CASE Store(h)
        <3>1. committed' = [committed EXCEPT ![work[h].line] = @ + 1]
            BY <2>4 DEF Store
        <3>2. alerts' = alerts \/ alerts' = [alerts EXCEPT ![work[h].line] = @ + 1]
            BY <2>4 DEF Store, AlertsAfter
        <3>3. alerts' \in [Lines -> Nat] /\ committed' \in [Lines -> Nat]
            BY <1>1, <2>2, <3>1, <3>2
        <3>4. QED
            BY <1>1, <2>1, <3>3 DEF CountInv, Lines
    <2>5. QED
        BY <1>8, <2>3, <2>4 DEF Leaves
<1>9. QED
    BY <1>3, <1>4, <1>5, <1>6, <1>7, <1>8, KindsOfStep

(* What a commit does to the rows.                                          *)
LEMMA StoreRows ==
    ASSUME BaseInv, NEW h \in Handlers, Store(h)
    PROVE  LET e == EventOf(h) IN
           /\ work[h] # Idle /\ e \in Event /\ e.session \in Sessions
           /\ \/ /\ work[h].row = NoRow /\ e.session \notin DOMAIN rows
                 /\ DOMAIN rows' = DOMAIN rows \cup {e.session}
                 /\ rows'[e.session] = NewRow(e)
              \/ /\ work[h].row \in Row
                 /\ DOMAIN rows' = DOMAIN rows
                 /\ e.session \in DOMAIN rows =>
                        rows'[e.session] = Updated(rows[e.session], work[h].row, e)
           /\ \A s \in DOMAIN rows : s # e.session => rows'[s] = rows[s]
<1>1. At(h, "commit")
    BY DEF Store
<1>2. work[h] # Idle
    BY <1>1, AtIsBusy
<1>3. EventOf(h) \in Event /\ work[h] \in Job
    BY <1>2, BusyLines
<1>4. EventOf(h).session \in Sessions /\ work[h].row \in Row \cup {NoRow}
    BY <1>3, JobIs DEF Event
<1>5. DEFINE e == EventOf(h)
<1>6. CASE /\ work[h].row = NoRow /\ e.session \notin DOMAIN rows
           /\ rows' = With(rows, e.session, NewRow(e))
    <2>1. /\ DOMAIN rows' = DOMAIN rows \cup {e.session}
          /\ rows'[e.session] = NewRow(e)
        BY <1>6 DEF With
    <2>2. \A s \in DOMAIN rows : s # e.session => rows'[s] = rows[s]
        BY <1>6 DEF With
    <2>3. QED
        BY <1>2, <1>3, <1>4, <1>6, <2>1, <2>2
<1>7. CASE /\ work[h].row # NoRow
           /\ rows' = [rows EXCEPT ![e.session] = Updated(@, work[h].row, e)]
    <2>1. DOMAIN rows' = DOMAIN rows
        BY <1>7
    <2>2. \A s \in DOMAIN rows : s # e.session => rows'[s] = rows[s]
        BY <1>7
    <2>3. e.session \in DOMAIN rows => rows'[e.session] = Updated(rows[e.session], work[h].row, e)
        BY <1>7
    <2>4. QED
        BY <1>2, <1>3, <1>4, <1>7, <2>1, <2>2, <2>3
<1>8. QED
    BY <1>6, <1>7 DEF Store

(* The documents and rows stay whole.                                       *)
LEMMA StoreNext == BaseInv /\ [Next]_vars => StoreInv'
<1> SUFFICES ASSUME BaseInv, [Next]_vars
             PROVE  StoreInv'
    OBVIOUS
<1>1. StoreInv
    BY DEF BaseInv
<1>2. CASE UNCHANGED <<iocs, rows>>
    BY <1>1, <1>2 DEF StoreInv
<1>3. ASSUME NEW h \in Handlers, WriteIoc(h)
      PROVE  StoreInv'
    <2>1. work[h] # Idle
        BY <1>3, AtIsBusy DEF WriteIoc
    <2>2. work[h] \in Job /\ EventOf(h) \in Event
        BY <2>1, BusyLines
    <2>3. MergedDoc(work[h].doc, EventOf(h)) \in Doc
        BY <2>2, JobIs, MergeKeeps
    <2>4. iocs' = With(iocs, work[h].todo[1], MergedDoc(work[h].doc, EventOf(h)))
        BY <1>3 DEF WriteIoc
    <2>5. \A i \in DOMAIN iocs' : iocs'[i] \in Doc
        <3>1. /\ DOMAIN iocs' = DOMAIN iocs \cup {work[h].todo[1]}
              /\ iocs'[work[h].todo[1]] \in Doc
            BY <2>3, <2>4 DEF With
        <3>2. \A i \in DOMAIN iocs : i # work[h].todo[1] => iocs'[i] = iocs[i]
            BY <2>4 DEF With
        <3>3. QED
            BY <1>1, <3>1, <3>2 DEF StoreInv
    <2>6. rows' = rows
        BY <1>3 DEF WriteIoc
    <2>7. QED
        BY <1>1, <2>5, <2>6 DEF StoreInv
<1>4. ASSUME NEW h \in Handlers, NEW ok \in BOOLEAN, Leaves(h, ok)
      PROVE  StoreInv'
    <2>1. iocs' = iocs
        BY <1>4 DEF Leaves
    <2>2. CASE rows' = rows
        BY <2>1, <2>2, <1>2
    <2>3. CASE Store(h)
        <3>1. DEFINE e == EventOf(h)
        <3>2. e \in Event /\ e.session \in Sessions
            BY <2>3, StoreRows
        <3>3. NewRow(e) \in Row
            BY <3>2, NewRowIsRow
        <3>4. \A now, read \in Row : Updated(now, read, e) \in Row
            BY <3>2, UpdatedIsRow
        <3>5. \A s \in DOMAIN rows' : s \in Sessions /\ rows'[s] \in Row
            <4>1. TAKE s \in DOMAIN rows'
            <4>2. HIDE DEF e
            <4>3. \A t \in DOMAIN rows : t # e.session => rows'[t] = rows[t]
                BY <2>3, StoreRows DEF e
            <4>4. \A t \in DOMAIN rows : t \in Sessions /\ rows[t] \in Row
                BY <1>1 DEF StoreInv
            <4>5. CASE /\ e.session \notin DOMAIN rows
                       /\ DOMAIN rows' = DOMAIN rows \cup {e.session}
                       /\ rows'[e.session] = NewRow(e)
                BY <3>2, <3>3, <4>3, <4>4, <4>5
            <4>6. CASE /\ work[h].row \in Row
                       /\ DOMAIN rows' = DOMAIN rows
                       /\ e.session \in DOMAIN rows =>
                            rows'[e.session] = Updated(rows[e.session], work[h].row, e)
                BY <3>2, <3>4, <4>3, <4>4, <4>6
            <4>7. QED
                BY <2>3, <4>5, <4>6, StoreRows DEF e
        <3>6. QED
            BY <1>1, <2>1, <3>5 DEF StoreInv
    <2>4. QED
        BY <1>4, <2>2, <2>3 DEF Leaves
<1>5. ASSUME NEW h \in Handlers,
             ReadIoc(h) \/ ReadIocFails(h) \/ WriteGraph(h) \/ SelectRow(h)
      PROVE  StoreInv'
    BY <1>2, <1>5 DEF ReadIoc, ReadIocFails, WriteGraph, SelectRow, storeVars
<1>6. CASE SessionsMove \/ TimePasses \/ ShipperStep \/ TimesOut \/ UNCHANGED vars
    BY <1>2, <1>6 DEF SessionsMove, TimePasses, ShipperStep, PostNext, PostAgain, Post, TimesOut,
       storeVars, hubVars, vars
<1>7. ASSUME NEW h \in Handlers, HandlerStep(h) \/ HandlerFault(h)
      PROVE  StoreInv'
    BY <1>3, <1>4, <1>5, <1>7, LeavesAre DEF HandlerStep, HandlerFault
<1>8. QED
    BY <1>6, <1>7 DEF Next

(* All of it together.                                                      *)
LEMMA BaseNext == BaseInv /\ [Next]_vars => BaseInv'
BY SessionsKept, ShipNext, CountNext, StoreNext, WorkNext DEF BaseInv

(* It holds when nothing has happened yet.                                  *)
LEMMA InitBase == Init => BaseInv
<1> SUFFICES ASSUME Init
             PROVE  BaseInv
    OBVIOUS
<1>1. log = <<>> /\ SessionsInit
    BY DEF Init, SessionsInit
<1>2. Len(log) = 0 /\ Lines = {}
    BY <1>1 DEF Lines
<1>3. SessionsInv
    <2>1. log \in Seq(Event) /\ \A n \in Lines : Genuine(log[n])
        BY <1>1, <1>2, EmptySeq
    <2>2. StateTypes
        BY <1>1, SessionsAssumption DEF SessionsInit, StateTypes
    <2>3. pending \in [Sessions -> BOOLEAN]
        BY <1>1 DEF SessionsInit
    <2>4. \A s \in Sessions : NewStamp(s) \in StampType /\ NewStamp(s).attacker = Peer(s)
        BY SessionsAssumption DEF NewStamp, StampType, Peer
    <2>5. StampTypes
        BY <1>1, <2>4 DEF SessionsInit, StampTypes, StampInv
    <2>6. QED
        BY <2>1, <2>2, <2>3, <2>5, SessionParts DEF SessionsApart
<1>4. ShipInv
    BY <1>2 DEF Init, ShipInv
<1>5. CountInv
    BY <1>2 DEF Init, CountInv
<1>6. StoreInv
    BY DEF Init, Nothing, StoreInv
<1>7. WorkInv
    BY JobIs DEF Init, WorkInv
<1>8. QED
    BY <1>3, <1>4, <1>5, <1>6, <1>7 DEF BaseInv

-----------------------------------------------------------------------------
(* No line is lost, none is committed that was not indexed, and the alerts  *)
(* follow the commits.                                                      *)

(* A commit counts its own line.                                            *)
LEMMA CommitCounts ==
    ASSUME BaseInv, NEW h \in Handlers, Store(h)
    PROVE  /\ work[h].line \in Lines
           /\ committed'[work[h].line] = committed[work[h].line] + 1
           /\ \A n \in Lines : n # work[h].line => committed'[n] = committed[n]
           /\ \A n \in Lines : committed[n] \in Nat /\ committed'[n] >= committed[n]
<1>1. work[h].line \in Lines
    BY StoreRows, BusyLines
<1>2. committed \in [Lines -> Nat]
    BY DEF BaseInv, CountInv
<1>3. committed' = [committed EXCEPT ![work[h].line] = @ + 1]
    BY DEF Store
<1>4. QED
    BY <1>1, <1>2, <1>3

(* What was committed stays so, and what was posted is in the log.          *)
LEMMA CommitsStay ==
    ASSUME BaseInv, [Next]_vars
    PROVE  /\ 1..next - 1 \subseteq Lines
           /\ \A n \in Lines : n \in Lines' /\ log'[n] = log[n]
           /\ \A n \in Lines : committed[n] \in Nat /\ committed'[n] >= committed[n]
<1>1. log \in Seq(Event) /\ log' \in Seq(Event)
    BY SessionsKept DEF BaseInv, SessionsInv, SessionsTypeOK
<1>2. Len(log) \in Nat /\ Lines = 1..Len(log)
    BY <1>1, LinesAre
<1>3. 1..next - 1 \subseteq Lines
    BY <1>2 DEF BaseInv, ShipInv
<1>4. committed \in [Lines -> Nat]
    BY DEF BaseInv, CountInv
<1>5. CASE Grows
    BY <1>1, <1>3, <1>4, <1>5, GrowIs DEF Grows
<1>6. CASE UNCHANGED <<log, committed>>
    BY <1>3, <1>4, <1>6 DEF Lines
<1>7. ASSUME NEW h \in Handlers, NEW ok \in BOOLEAN, Leaves(h, ok)
      PROVE  /\ 1..next - 1 \subseteq Lines
             /\ \A n \in Lines : n \in Lines' /\ log'[n] = log[n]
             /\ \A n \in Lines : committed[n] \in Nat /\ committed'[n] >= committed[n]
    <2>1. log' = log
        BY <1>7 DEF Leaves
    <2>2. CASE committed' = committed
        BY <1>6, <2>1, <2>2
    <2>3. CASE Store(h)
        BY <1>3, <2>1, <2>3, CommitCounts DEF Lines
    <2>4. QED
        BY <1>7, <2>2, <2>3 DEF Leaves
<1>8. CASE Pauses \/ TimesOut \/ (\E h \in Handlers : Turns(h) \/ \E n \in Nat : Takes(h, n))
    BY <1>6, <1>8 DEF Pauses, TimesOut, Turns, Takes, ghostVars, sessionVars
<1>9. QED
    BY <1>5, <1>7, <1>8, KindsOfStep

(* A line the shipper has posted is committed, or waited for, or spooled.   *)
LEMMA HeldNext == BaseInv /\ HeldInv /\ [Next]_vars => HeldInv'
<1> SUFFICES ASSUME BaseInv, HeldInv, [Next]_vars, NEW m \in 1..next' - 1
             PROVE  \/ committed'[m] > 0
                    \/ m \in spool'
                    \/ waiting' # NoHandler /\ work'[waiting'].line = m
    BY DEF HeldInv
<1>1. /\ next \in Nat /\ 1 <= next
      /\ waiting \in Handlers \cup {NoHandler}
    BY DEF BaseInv, ShipInv
<1>2. work \in [Handlers -> Job]
    BY DEF BaseInv, WorkInv
<1>3. ASSUME m \in 1..next - 1, committed[m] > 0
      PROVE  committed'[m] > 0
    <2>1. m \in Lines /\ committed[m] \in Nat /\ committed'[m] >= committed[m]
        BY <1>3, CommitsStay
    <2>2. committed' \in [Lines' -> Nat] /\ m \in Lines'
        BY <2>1, CountNext, CommitsStay DEF CountInv
    <2>3. committed'[m] \in Nat
        BY <2>2
    <2>4. QED
        BY <1>3, <2>1, <2>3
<1>4. CASE Pauses \/ Grows
    <2>1. UNCHANGED <<next, waiting, spool, work>>
        BY <1>4 DEF Pauses, Grows, shipVars
    <2>2. QED
        BY <1>3, <2>1 DEF HeldInv
<1>5. ASSUME NEW h \in Handlers, NEW n \in Nat, Takes(h, n)
      PROVE  \/ committed'[m] > 0
             \/ m \in spool'
             \/ waiting' # NoHandler /\ work'[waiting'].line = m
    <2>1. /\ work' = [work EXCEPT ![h] = NewJob(n)] /\ waiting' = h /\ waiting = NoHandler
          /\ NewJob(n).line = n
        BY <1>5, TakenIsLine DEF Takes
    <2>2. CASE m = n
        BY <1>2, <2>1, <2>2, HubAssumption
    <2>3. CASE m # n
        <3>1. m \in 1..next - 1 /\ (m \in spool => m \in spool')
            <4>1. CASE n = next /\ next' = next + 1 /\ spool' = spool
                BY <1>1, <2>3, <4>1
            <4>2. CASE next' = next /\ spool' = spool \ {n}
                BY <2>3, <4>2
            <4>3. QED
                BY <1>5, <4>1, <4>2 DEF Takes
        <3>2. QED
            BY <1>3, <2>1, <3>1 DEF HeldInv
    <2>4. QED
        BY <2>2, <2>3
<1>6. CASE TimesOut
    <2>1. spool' = spool \cup {work[waiting].line} /\ next' = next
        BY <1>6 DEF TimesOut
    <2>2. QED
        BY <1>3, <2>1 DEF HeldInv
<1>7. ASSUME NEW h \in Handlers, Turns(h)
      PROVE  \/ committed'[m] > 0
             \/ m \in spool'
             \/ waiting' # NoHandler /\ work'[waiting'].line = m
    <2>1. UNCHANGED <<next, waiting, spool>>
        BY <1>7 DEF Turns, shipVars
    <2>2. \A g \in Handlers : work'[g].line = work[g].line
        BY <1>2, <1>7 DEF Turns
    <2>3. QED
        BY <1>1, <1>3, <2>1, <2>2 DEF HeldInv
<1>8. ASSUME NEW h \in Handlers, NEW ok \in BOOLEAN, Leaves(h, ok)
      PROVE  \/ committed'[m] > 0
             \/ m \in spool'
             \/ waiting' # NoHandler /\ work'[waiting'].line = m
    <2>1. /\ work' = [work EXCEPT ![h] = Idle] /\ next' = next
          /\ waiting' = IF waiting = h THEN NoHandler ELSE waiting
          /\ spool' = IF waiting = h /\ ~ok THEN spool \cup {work[h].line} ELSE spool
        BY <1>8 DEF Leaves, Answer
    <2>2. CASE committed[m] > 0
        BY <1>3, <2>1, <2>2
    <2>3. CASE m \in spool
        BY <2>1, <2>3
    <2>4. CASE waiting # NoHandler /\ work[waiting].line = m
        <3>1. CASE waiting # h
            BY <1>2, <2>1, <2>4, <3>1
        <3>2. CASE waiting = h /\ ~ok
            BY <2>1, <2>4, <3>2
        <3>3. CASE waiting = h /\ ok
            <4>1. Store(h)
                BY <1>8, <3>3 DEF Leaves
            <4>2. committed'[m] = committed[m] + 1 /\ committed[m] \in Nat
                BY <2>4, <3>3, <4>1, CommitCounts
            <4>3. QED
                BY <4>2
        <3>4. QED
            BY <3>1, <3>2, <3>3
    <2>5. QED
        BY <2>1, <2>2, <2>3, <2>4 DEF HeldInv
<1>9. QED
    BY <1>4, <1>5, <1>6, <1>7, <1>8, KindsOfStep

(* Indexing runs ahead of committing.                                       *)
LEMMA IndexNext == BaseInv /\ IndexInv /\ [Next]_vars => IndexInv'
<1> SUFFICES ASSUME BaseInv, IndexInv, [Next]_vars, NEW m \in Lines'
             PROVE  /\ IsFiniteSet(AtLine(m)')
                    /\ committed'[m] + Cardinality(AtLine(m)') <= indexed'[m]
    BY DEF IndexInv, AtLine
<1>1. log \in Seq(Event) /\ log' \in Seq(Event)
    BY SessionsKept DEF BaseInv, SessionsInv, SessionsTypeOK
<1>2. /\ indexed \in [Lines -> Nat] /\ committed \in [Lines -> Nat]
    BY DEF BaseInv, CountInv
<1>3. work \in [Handlers -> Job]
    BY DEF BaseInv, WorkInv
<1>4. ASSUME m \in Lines
      PROVE  /\ IsFiniteSet(AtLine(m)) /\ Cardinality(AtLine(m)) \in Nat
             /\ committed[m] + Cardinality(AtLine(m)) <= indexed[m]
             /\ committed[m] \in Nat /\ indexed[m] \in Nat
    BY <1>2, <1>4, FS_CardinalityType DEF IndexInv
<1>5. ASSUME UNCHANGED <<log, work, committed, indexed>>
      PROVE  /\ IsFiniteSet(AtLine(m)')
             /\ committed'[m] + Cardinality(AtLine(m)') <= indexed'[m]
    BY <1>4, <1>5 DEF AtLine, Lines
<1>6. CASE Pauses \/ TimesOut
    BY <1>5, <1>6 DEF Pauses, TimesOut, sessionVars, storeVars, ghostVars
<1>7. CASE Grows
    <2>1. AtLine(m)' = AtLine(m)
        BY <1>7 DEF Grows, AtLine
    <2>2. /\ indexed' = Grow(indexed) /\ committed' = Grow(committed) /\ LogGrows
        BY <1>7 DEF Grows
    <2>3. CASE m \in Lines
        <3>1. indexed'[m] = indexed[m] /\ committed'[m] = committed[m]
            BY <1>1, <1>2, <2>2, <2>3, GrowIs
        <3>2. QED
            BY <1>4, <2>1, <2>3, <3>1
    <2>4. CASE m \notin Lines
        <3>1. indexed'[m] = 0 /\ committed'[m] = 0
            BY <1>1, <1>2, <2>2, <2>4, GrowIs
        <3>2. AtLine(m) = {}
            <4>1. ASSUME NEW g \in Handlers, work[g].line = m
                  PROVE  FALSE
                <5>1. m # 0
                    BY <1>1, LenProperties DEF Lines
                <5>2. work[g] # Idle
                    BY <4>1, <5>1, JobIs
                <5>3. QED
                    BY <2>4, <4>1, <5>2, BusyLines
            <4>2. QED
                BY <4>1 DEF AtLine
        <3>3. QED
            BY <2>1, <3>1, <3>2, FS_EmptySet
    <2>5. QED
        BY <2>3, <2>4
<1>8. ASSUME NEW h \in Handlers, NEW n \in Nat, Takes(h, n)
      PROVE  /\ IsFiniteSet(AtLine(m)')
             /\ committed'[m] + Cardinality(AtLine(m)') <= indexed'[m]
    <2>1. /\ n \in Lines /\ NewJob(n).line = n
          /\ work' = [work EXCEPT ![h] = NewJob(n)]
          /\ indexed' = [indexed EXCEPT ![n] = @ + 1] /\ UNCHANGED <<log, committed>>
        BY <1>8, TakenIsLine DEF Takes
    <2>2. m \in Lines /\ m # 0
        BY <1>1, <2>1, LinesAre DEF Lines
    <2>3. work[h].line = 0
        BY <1>8, JobIs DEF Takes
    <2>4. CASE m # n
        <3>1. AtLine(m)' = AtLine(m)
            BY <1>3, <2>1, <2>2, <2>3, <2>4 DEF AtLine
        <3>2. indexed'[m] = indexed[m] /\ committed'[m] = committed[m]
            BY <1>2, <2>1, <2>2, <2>4
        <3>3. QED
            BY <1>4, <2>2, <3>1, <3>2
    <2>5. CASE m = n
        <3>1. AtLine(m)' = AtLine(m) \cup {h} /\ h \notin AtLine(m)
            BY <1>3, <2>1, <2>2, <2>3, <2>5 DEF AtLine
        <3>2. /\ IsFiniteSet(AtLine(m)')
              /\ Cardinality(AtLine(m)') = Cardinality(AtLine(m)) + 1
            BY <1>4, <2>2, <3>1, FS_AddElement
        <3>3. indexed'[m] = indexed[m] + 1 /\ committed'[m] = committed[m]
            BY <1>2, <2>1, <2>2, <2>5
        <3>4. QED
            BY <1>4, <2>2, <3>2, <3>3
    <2>6. QED
        BY <2>4, <2>5
<1>9. ASSUME NEW h \in Handlers, Turns(h)
      PROVE  /\ IsFiniteSet(AtLine(m)')
             /\ committed'[m] + Cardinality(AtLine(m)') <= indexed'[m]
    <2>1. UNCHANGED <<log, committed, indexed>>
        BY <1>9 DEF Turns
    <2>2. AtLine(m)' = AtLine(m)
        BY <1>3, <1>9 DEF Turns, AtLine
    <2>3. QED
        BY <1>4, <2>1, <2>2 DEF Lines
<1>10. ASSUME NEW h \in Handlers, NEW ok \in BOOLEAN, Leaves(h, ok)
       PROVE  /\ IsFiniteSet(AtLine(m)')
              /\ committed'[m] + Cardinality(AtLine(m)') <= indexed'[m]
    <2>1. work' = [work EXCEPT ![h] = Idle] /\ UNCHANGED <<log, indexed>>
        BY <1>10 DEF Leaves, Answer
    <2>2. m \in Lines /\ m # 0
        BY <1>1, <2>1, LinesAre DEF Lines
    <2>3. AtLine(m)' = AtLine(m) \ {h}
        BY <1>3, <2>1, <2>2, JobIs DEF AtLine
    <2>4. /\ IsFiniteSet(AtLine(m)') /\ Cardinality(AtLine(m)') \in Nat
          /\ Cardinality(AtLine(m)') <= Cardinality(AtLine(m))
          /\ h \in AtLine(m) => Cardinality(AtLine(m)') = Cardinality(AtLine(m)) - 1
        <3>1. /\ IsFiniteSet(AtLine(m)) /\ Cardinality(AtLine(m)) \in Nat
            BY <1>4, <2>2
        <3>2. /\ IsFiniteSet(AtLine(m)')
              /\ Cardinality(AtLine(m)') = IF h \in AtLine(m) THEN Cardinality(AtLine(m)) - 1
                                           ELSE Cardinality(AtLine(m))
            BY <2>3, <3>1, FS_RemoveElement
        <3>3. Cardinality(AtLine(m)') \in Nat
            BY <3>2, FS_CardinalityType
        <3>4. QED
            BY <3>1, <3>2, <3>3
    <2>5. CASE committed' = committed
        BY <1>4, <2>1, <2>2, <2>4, <2>5
    <2>6. CASE Store(h)
        <3>1. CASE m # work[h].line
            <4>1. committed'[m] = committed[m]
                BY <2>2, <2>6, <3>1, CommitCounts
            <4>2. QED
                BY <1>4, <2>1, <2>2, <2>4, <4>1
        <3>2. CASE m = work[h].line
            <4>1. committed'[m] = committed[m] + 1
                BY <2>6, <3>2, CommitCounts
            <4>2. h \in AtLine(m)
                BY <3>2 DEF AtLine
            <4>3. QED
                BY <1>4, <2>1, <2>2, <2>4, <4>1, <4>2
        <3>3. QED
            BY <3>1, <3>2
    <2>7. QED
        BY <1>10, <2>5, <2>6 DEF Leaves
<1>11. QED
    BY <1>6, <1>7, <1>8, <1>9, <1>10, KindsOfStep

(* The alerts are those of the commits.                                     *)
LEMMA AlertsNext == BaseInv /\ AlertsInv /\ [Next]_vars => AlertsInv'
<1> SUFFICES ASSUME BaseInv, AlertsInv, [Next]_vars, NEW m \in Lines'
             PROVE  alerts'[m] = IF RaisesAlert(log'[m]) THEN committed'[m] ELSE 0
    BY DEF AlertsInv, RaisesAlert
<1>1. log \in Seq(Event) /\ log' \in Seq(Event)
    BY SessionsKept DEF BaseInv, SessionsInv, SessionsTypeOK
<1>2. /\ alerts \in [Lines -> Nat] /\ committed \in [Lines -> Nat]
    BY DEF BaseInv, CountInv
<1>3. CASE UNCHANGED <<log, alerts, committed>>
    BY <1>3 DEF AlertsInv, Lines
<1>4. CASE Pauses \/ TimesOut \/ (\E h \in Handlers : Turns(h) \/ \E n \in Nat : Takes(h, n))
    BY <1>3, <1>4 DEF Pauses, TimesOut, Turns, Takes, ghostVars, sessionVars, storeVars
<1>5. CASE Grows
    <2>1. alerts' = Grow(alerts) /\ committed' = Grow(committed) /\ LogGrows
        BY <1>5 DEF Grows
    <2>2. CASE m \in Lines
        <3>1. alerts'[m] = alerts[m] /\ committed'[m] = committed[m] /\ log'[m] = log[m]
            BY <1>1, <1>2, <2>1, <2>2, GrowIs
        <3>2. QED
            BY <2>2, <3>1 DEF AlertsInv
    <2>3. CASE m \notin Lines
        BY <1>1, <1>2, <2>1, <2>3, GrowIs
    <2>4. QED
        BY <2>2, <2>3
<1>6. ASSUME NEW h \in Handlers, NEW ok \in BOOLEAN, Leaves(h, ok), Store(h)
      PROVE  alerts'[m] = IF RaisesAlert(log'[m]) THEN committed'[m] ELSE 0
    <2>1. log' = log /\ m \in Lines
        BY <1>6 DEF Leaves, Lines
    <2>2. /\ work[h].line \in Lines
          /\ committed'[work[h].line] = committed[work[h].line] + 1
          /\ \A n \in Lines : n # work[h].line => committed'[n] = committed[n]
        BY <1>6, CommitCounts
    <2>3. alerts' = IF RaisesAlert(log[work[h].line])
                    THEN [alerts EXCEPT ![work[h].line] = @ + 1] ELSE alerts
        BY <1>6 DEF Store, AlertsAfter, EventOf
    <2>4. alerts[m] = IF RaisesAlert(log[m]) THEN committed[m] ELSE 0
        BY <2>1 DEF AlertsInv
    <2>5. CASE m = work[h].line
        BY <1>2, <2>1, <2>2, <2>3, <2>4, <2>5
    <2>6. CASE m # work[h].line
        BY <1>2, <2>1, <2>2, <2>3, <2>4, <2>6
    <2>7. QED
        BY <2>5, <2>6
<1>7. ASSUME NEW h \in Handlers, NEW ok \in BOOLEAN, Leaves(h, ok)
      PROVE  alerts'[m] = IF RaisesAlert(log'[m]) THEN committed'[m] ELSE 0
    BY <1>3, <1>6, <1>7 DEF Leaves
<1>8. QED
    BY <1>4, <1>5, <1>7, KindsOfStep

(* The load is counted in numbers.                                          *)
LEMMA LoadsAre ==
    ASSUME BaseInv, IndexInv
    PROVE  /\ IsFiniteSet(Lines) /\ Lines \subseteq Nat \ {0}
           /\ \A n \in Lines : LoadOf(n) \in Nat /\ Loads[n] = LoadOf(n)
           /\ IsFiniteSet(Deserving) /\ Cardinality(Deserving) \in Nat
           /\ Deserving \subseteq Lines
<1>1. Len(log) \in Nat /\ Lines = 1..Len(log)
    BY LinesAre DEF BaseInv, SessionsInv, SessionsTypeOK
<1>2. next \in Nat /\ next <= Len(log) + 1
    BY DEF BaseInv, ShipInv
<1>3. IsFiniteSet(Lines)
    BY <1>1, FS_Interval
<1>4. Deserving \subseteq Lines
    BY <1>1, <1>2 DEF Deserving
<1>5. IsFiniteSet(Deserving) /\ Cardinality(Deserving) \in Nat
    BY <1>3, <1>4, FS_Subset, FS_CardinalityType
<1>6. ASSUME NEW n \in Lines
      PROVE  LoadOf(n) \in Nat
    <2>1. committed[n] \in Nat
        BY DEF BaseInv, CountInv
    <2>2. Cardinality(AtLine(n)) \in Nat
        BY FS_CardinalityType DEF IndexInv
    <2>3. QED
        BY <2>1, <2>2 DEF LoadOf
<1>7. \A n \in Lines : Loads[n] = LoadOf(n)
    BY DEF Loads
<1>8. QED
    BY <1>1, <1>3, <1>4, <1>5, <1>6, <1>7

(* So it is in the next state.                                              *)
LoadsCount ==
    IsFiniteSet(Lines) /\ \A n \in Lines : LoadOf(n) \in Nat /\ Loads[n] = LoadOf(n)
LEMMA LoadsCounted == BaseInv /\ IndexInv => LoadsCount
BY LoadsAre DEF LoadsCount

(* A step that adds to the load of one line no more than to the faults.     *)
LEMMA LoadShifts ==
    ASSUME BaseInv, IndexInv, LoadInv, BaseInv', IndexInv',
           log' = log, next' = next, faults' \in Nat,
           NEW m \in Lines, LoadOf(m)' - LoadOf(m) <= faults' - faults,
           \A n \in Lines : n # m => LoadOf(n)' = LoadOf(n)
    PROVE  LoadInv'
<1>1. /\ IsFiniteSet(Lines)
      /\ \A n \in Lines : LoadOf(n) \in Nat /\ Loads[n] = LoadOf(n)
      /\ Cardinality(Deserving) \in Nat
    BY LoadsAre
<1>2. Lines' = Lines /\ Deserving' = Deserving
    BY DEF Lines, Deserving, RaisesAlert
<1>3. \A n \in Lines' : LoadOf(n)' \in Nat /\ Loads'[n] = LoadOf(n)'
    <2>1. LoadsCount'
        BY LoadsCounted, PTL
    <2>2. QED
        BY <2>1 DEF LoadsCount
<1>4. PICK k \in Int : k = LoadOf(m)' - LoadOf(m)
    BY <1>1, <1>2, <1>3
<1>5. Loads'[m] = Loads[m] + k
    BY <1>1, <1>2, <1>3, <1>4
<1>6. \A n \in Lines : n # m => Loads'[n] = Loads[n]
    BY <1>1, <1>2, <1>3
<1>7. \A n \in Lines : Loads[n] \in Int
    BY <1>1
<1>8. Total(Loads', Lines) = Total(Loads, Lines) + k
    BY <1>1, <1>5, <1>6, <1>7, TotalBumps
<1>9. Total(Loads, Lines) \in Int
    BY <1>1, <1>7, TotalType
<1>10. faults \in Nat /\ Total(Loads, Lines) <= Cardinality(Deserving) + faults
    BY DEF LoadInv
<1>11. k <= faults' - faults
    <2>1. PICK x : x = LoadOf(m)' - LoadOf(m)
        OBVIOUS
    <2>2. x <= faults' - faults
        BY <2>1, Zenon
    <2>3. QED
        BY <1>4, <2>1, <2>2
<1>12. Total(Loads', Lines) <= Cardinality(Deserving) + faults'
    <2>1. PICK a, b, c, d, e : /\ a = Total(Loads, Lines) /\ b = Total(Loads', Lines)
                               /\ c = Cardinality(Deserving) /\ d = faults /\ e = faults'
        OBVIOUS
    <2>2. /\ a \in Int /\ c \in Nat /\ d \in Nat /\ e \in Nat
          /\ b = a + k /\ a <= c + d /\ k <= e - d
        BY <1>1, <1>8, <1>9, <1>10, <1>11, <2>1
    <2>3. k \in Int
        BY <1>4
    <2>4. b <= c + e
        BY <2>2, <2>3
    <2>5. QED
        BY <2>1, <2>4
<1>13. QED
    BY <1>2, <1>12 DEF LoadInv

(* What an answer does to the line at work.                                 *)
LEMMA AnswersAre ==
    ASSUME BaseInv, NEW h \in Handlers,
           \/ Commit(h) \/ PublishFails(h) \/ InsertCollides(h)
           \/ StoreFails(h) \/ GraphFails(h)
    PROVE  /\ work[h] # Idle /\ work' = [work EXCEPT ![h] = Idle]
           /\ log' = log /\ next' = next
           /\ spool \subseteq spool' /\ spool' \subseteq spool \cup {work[h].line}
           /\ \/ committed' = committed /\ faults' \in {faults, faults + 1}
              \/ /\ committed' = [committed EXCEPT ![work[h].line] = @ + 1]
                 /\ (spool' = spool /\ faults' = faults) \/ faults' = faults + 1
<1>1. work[h] # Idle
    BY AtIsBusy, JobIs
       DEF Commit, PublishFails, Store, InsertCollides, StoreFails, GraphFails
<1>2. ASSUME NEW ok \in BOOLEAN, Answer(h, ok)
      PROVE  /\ work' = [work EXCEPT ![h] = Idle] /\ next' = next
             /\ spool \subseteq spool' /\ spool' \subseteq spool \cup {work[h].line}
             /\ ok => spool' = spool
    BY <1>2 DEF Answer
<1>3. ASSUME Store(h)
      PROVE  log' = log /\ committed' = [committed EXCEPT ![work[h].line] = @ + 1]
    BY <1>3 DEF Store, sessionVars
<1>4. CASE Commit(h)
    BY <1>1, <1>2, <1>3, <1>4 DEF Commit
<1>5. CASE PublishFails(h)
    BY <1>1, <1>2, <1>3, <1>5 DEF PublishFails, Fault
<1>6. CASE InsertCollides(h) \/ StoreFails(h)
    <2>1. /\ Answer(h, FALSE) /\ UNCHANGED <<log, committed>>
          /\ faults' \in {faults, faults + 1}
        BY <1>6 DEF InsertCollides, StoreFails, Fault, sessionVars, ghostVars
    <2>2. QED
        BY <1>1, <1>2, <2>1
<1>7. CASE GraphFails(h)
    <2>1. /\ Answer(h, FALSE) /\ UNCHANGED <<log, committed>>
          /\ faults' = faults + 1
        BY <1>7 DEF GraphFails, Fault, sessionVars, ghostVars
    <2>2. QED
        BY <1>1, <1>2, <2>1
<1>8. QED
    BY <1>4, <1>5, <1>6, <1>7

(* Only faults make more commits, done or to come, than lines.              *)
LEMMA LoadNext == BaseInv /\ IndexInv /\ LoadInv /\ [Next]_vars => LoadInv'
<1> SUFFICES ASSUME BaseInv, IndexInv, LoadInv, [Next]_vars
             PROVE  LoadInv'
    OBVIOUS
<1>1. BaseInv' /\ IndexInv'
    BY BaseNext, IndexNext
<1>2. /\ IsFiniteSet(Lines) /\ Lines \subseteq Nat \ {0}
      /\ \A n \in Lines : LoadOf(n) \in Nat /\ Loads[n] = LoadOf(n)
      /\ IsFiniteSet(Deserving) /\ Cardinality(Deserving) \in Nat
      /\ Deserving \subseteq Lines
    BY LoadsAre
<1>3. /\ work \in [Handlers -> Job] /\ spool \subseteq 1..next - 1 /\ next \in Nat
      /\ \A n \in Lines : committed[n] \in Nat
      /\ \A n \in Lines : IsFiniteSet(AtLine(n)) /\ Cardinality(AtLine(n)) \in Nat
    BY FS_CardinalityType DEF BaseInv, WorkInv, ShipInv, CountInv, IndexInv
<1>4. faults \in Nat /\ Total(Loads, Lines) <= Cardinality(Deserving) + faults
    BY DEF LoadInv
<1>5. /\ IsFiniteSet(Lines')
      /\ \A n \in Lines' : LoadOf(n)' \in Nat /\ Loads'[n] = LoadOf(n)'
    <2>1. LoadsCount'
        BY <1>1, LoadsCounted, PTL
    <2>2. QED
        BY <2>1 DEF LoadsCount
<1>6. ASSUME UNCHANGED <<log, next, spool, committed>>, faults' \in Nat, faults' >= faults,
             \A n : AtLine(n)' = AtLine(n)
      PROVE  LoadInv'
    <2>1. \A n \in Lines : LoadOf(n)' = LoadOf(n)
        BY <1>6 DEF LoadOf, RaisesAlert
    <2>2. CASE Lines = {}
        <3>1. Lines' = {} /\ Deserving' = Deserving
            BY <1>6, <2>2 DEF Lines, Deserving, RaisesAlert
        <3>2. Total(Loads', Lines') = 0
            BY <3>1, TotalEmpty
        <3>3. QED
            BY <1>2, <1>6, <3>1, <3>2 DEF LoadInv
    <2>3. CASE Lines # {}
        <3>1. PICK m \in Lines : TRUE
            BY <2>3
        <3>2. LoadOf(m)' - LoadOf(m) <= faults' - faults
            BY <1>2, <1>4, <1>6, <2>1, <3>1
        <3>3. QED
            BY <1>1, <1>6, <2>1, <3>1, <3>2, LoadShifts
    <2>4. QED
        BY <2>2, <2>3
<1>7. CASE (TimePasses \/ UNCHANGED vars)
    BY <1>4, <1>6, <1>7 DEF TimePasses, Tick, hubVars, vars, sessionVars, shipVars,
       ghostVars, AtLine
<1>8. CASE SessionsMove
    <2>1. Grows /\ faults' = faults
        BY <1>8, SessionsNext DEF SessionsMove, Grows, BaseInv
    <2>2. UNCHANGED <<next, spool, work>>
        BY <2>1 DEF Grows, shipVars
    <2>3. log \in Seq(Event) /\ log' \in Seq(Event) /\ committed \in [Lines -> Nat]
        BY <1>1 DEF BaseInv, SessionsInv, SessionsTypeOK, CountInv
    <2>4. /\ \A n \in Lines : n \in Lines' /\ committed'[n] = committed[n] /\ log'[n] = log[n]
          /\ \A n \in Lines' : n \notin Lines => committed'[n] = 0
        BY <2>1, <2>3, GrowIs DEF Grows
    <2>5. \A n : AtLine(n)' = AtLine(n)
        BY <2>2 DEF AtLine
    <2>6. \A n \in Lines : LoadOf(n)' = LoadOf(n)
        BY <2>2, <2>4, <2>5 DEF LoadOf, RaisesAlert
    <2>7. ASSUME NEW n \in Lines' \ Lines
          PROVE  LoadOf(n)' = 0
        <3>1. committed'[n] = 0
            BY <2>4
        <3>2. n \notin spool
            <4>1. spool \subseteq Lines
                BY CommitsStay, <1>3
            <4>2. QED
                BY <4>1
        <3>3. AtLine(n) = {}
            <4>1. ASSUME NEW g \in Handlers, work[g].line = n
                  PROVE  FALSE
                <5>1. n # 0
                    <6>1. Lines' = 1..Len(log')
                        BY <2>3, LenProperties DEF Lines
                    <6>2. n \in 1..Len(log')
                        BY <6>1
                    <6>3. QED
                        BY <6>2
                <5>2. work[g] # Idle
                    BY <4>1, <5>1, JobIs
                <5>3. QED
                    BY <4>1, <5>2, BusyLines
            <4>2. QED
                BY <4>1 DEF AtLine
        <3>4. n \notin spool' /\ Cardinality(AtLine(n)') = 0
            BY <2>2, <2>5, <3>2, <3>3, FS_EmptySet
        <3>5. QED
            BY <3>1, <3>4 DEF LoadOf
    <2>8. Lines \subseteq Lines' /\ \A n \in Lines' : Loads'[n] \in Int
        BY <1>5, <2>4
    <2>9. \A n \in Lines' \ Lines : Loads'[n] = 0
        BY <1>5, <2>7
    <2>10. Total(Loads', Lines') = Total(Loads', Lines)
        BY <1>5, <2>8, <2>9, TotalZeros
    <2>11. \A n \in Lines : Loads[n] \in Int /\ Loads'[n] = Loads[n]
        BY <1>2, <1>5, <2>6, <2>8
    <2>12. Total(Loads', Lines) = Total(Loads, Lines)
        BY <1>2, <2>11, TotalSame
    <2>13. Deserving' = Deserving
        <3>1. 1..next - 1 \subseteq Lines
            BY CommitsStay
        <3>2. QED
            BY <2>2, <2>4, <3>1 DEF Deserving, RaisesAlert
    <2>14. QED
        BY <1>4, <2>1, <2>10, <2>12, <2>13 DEF LoadInv
<1>9. CASE ShipperStep
    <2>1. PICK h \in Handlers : PostNext(h) \/ PostAgain(h)
        BY <1>9 DEF ShipperStep
    <2>2. PICK n \in Nat : Takes(h, n)
        BY <2>1, TakesAre DEF BaseInv
    <2>3. faults' = faults
        BY <2>1 DEF PostNext, PostAgain, Post
    <2>4. /\ n \in Lines /\ NewJob(n).line = n
          /\ work' = [work EXCEPT ![h] = NewJob(n)] /\ work[h] = Idle
          /\ UNCHANGED <<log, committed>>
        BY <2>2, TakenIsLine DEF Takes
    <2>5. n # 0 /\ work[h].line = 0
        BY <1>2, <2>4, JobIs
    <2>6. AtLine(n)' = AtLine(n) \cup {h} /\ h \notin AtLine(n)
        BY <1>3, <2>4, <2>5 DEF AtLine
    <2>7. Cardinality(AtLine(n)') = Cardinality(AtLine(n)) + 1
        BY <1>3, <2>4, <2>6, FS_AddElement
    <2>8. \A m \in Lines : m # n => AtLine(m)' = AtLine(m)
        BY <1>2, <1>3, <2>4, <2>5 DEF AtLine
    <2>9. Lines' = Lines
        BY <2>4 DEF Lines
    <2>10. CASE n \in spool /\ next' = next /\ spool' = spool \ {n}
        <3>1. LoadOf(n)' = LoadOf(n)
            BY <1>3, <2>4, <2>7, <2>10 DEF LoadOf, RaisesAlert
        <3>2. \A m \in Lines : m # n => LoadOf(m)' = LoadOf(m)
            BY <2>4, <2>8, <2>10 DEF LoadOf, RaisesAlert
        <3>3. LoadOf(n)' - LoadOf(n) <= faults' - faults
            BY <1>2, <1>4, <2>3, <2>4, <3>1
        <3>4. QED
            BY <1>1, <1>4, <2>3, <2>4, <2>10, <3>2, <3>3, LoadShifts
    <2>11. CASE n = next /\ next' = next + 1 /\ spool' = spool
        <3>1. n \notin spool /\ n \notin Deserving
            BY <1>3, <2>11 DEF Deserving
        <3>2. \A m \in Lines : m # n => LoadOf(m)' = LoadOf(m)
            BY <2>4, <2>8, <2>11 DEF LoadOf, RaisesAlert
        <3>3. \A m \in Lines : m # n => Loads'[m] = Loads[m]
            BY <1>2, <1>5, <2>9, <3>2
        <3>4. \A m \in Lines : Loads[m] \in Int
            BY <1>2
        <3>5. Total(Loads, Lines) \in Int
            BY <1>2, <3>4, TotalType
        <3>6. (1..next' - 1) = (1..next - 1) \cup {n}
            BY <1>2, <1>3, <2>4, <2>11
        <3>7. CASE RaisesAlert(log[n])
            <4>1. LoadOf(n)' = LoadOf(n) + 1
                BY <1>3, <2>4, <2>7, <2>11, <3>1, <3>7 DEF LoadOf, RaisesAlert
            <4>2. Loads'[n] = Loads[n] + 1
                BY <1>2, <1>5, <2>4, <2>9, <4>1
            <4>3. Total(Loads', Lines) = Total(Loads, Lines) + 1
                <5>1. IsFiniteSet(Lines) /\ n \in Lines
                    BY <1>2, <2>4
                <5>2. PICK k \in Int : k = 1
                    OBVIOUS
                <5>3. Loads'[n] = Loads[n] + k
                    BY <4>2, <5>2
                <5>4. \A m \in Lines : m # n => Loads'[m] = Loads[m]
                    BY <3>3
                <5>5. Total(Loads', Lines) = Total(Loads, Lines) + k
                    BY <3>4, <5>1, <5>3, <5>4, TotalBumps
                <5>6. QED
                    BY <5>2, <5>5
            <4>4. Deserving' = Deserving \cup {n}
                BY <2>4, <3>6, <3>7 DEF Deserving, RaisesAlert
            <4>5. Cardinality(Deserving') = Cardinality(Deserving) + 1
                BY <1>2, <3>1, <4>4, FS_AddElement
            <4>6. QED
                BY <1>2, <1>4, <2>3, <2>9, <3>5, <4>3, <4>5 DEF LoadInv
        <3>8. CASE ~RaisesAlert(log[n])
            <4>1. LoadOf(n)' = 0 /\ LoadOf(n) = 0
                BY <2>4, <3>8 DEF LoadOf, RaisesAlert
            <4>2. \A m \in Lines : Loads'[m] = Loads[m]
                BY <1>2, <1>5, <2>4, <2>9, <3>3, <4>1
            <4>3. Total(Loads', Lines) = Total(Loads, Lines)
                BY <1>2, <3>4, <4>2, TotalSame
            <4>4. Deserving' = Deserving
                BY <2>4, <3>6, <3>8 DEF Deserving, RaisesAlert
            <4>5. QED
                BY <1>4, <2>3, <2>9, <4>3, <4>4 DEF LoadInv
        <3>9. QED
            BY <3>7, <3>8
    <2>12. QED
        BY <2>2, <2>10, <2>11 DEF Takes
<1>10. CASE TimesOut
    <2>1. /\ waiting # NoHandler /\ faults' = faults + 1
          /\ spool' = spool \cup {work[waiting].line}
          /\ UNCHANGED <<log, next, work, committed>>
        BY <1>10 DEF TimesOut, Fault, sessionVars, ghostVars
    <2>2. PICK m : m = work[waiting].line
        OBVIOUS
    <2>3. m \in Lines
        <3>1. waiting \in Handlers /\ work[waiting] # Idle
            BY <2>1 DEF BaseInv, ShipInv, WorkInv
        <3>2. QED
            BY <2>2, <3>1, BusyLines
    <2>4. \A n : AtLine(n)' = AtLine(n)
        BY <2>1 DEF AtLine
    <2>5. \A n \in Lines : n # m => LoadOf(n)' = LoadOf(n)
        BY <2>1, <2>2, <2>4 DEF LoadOf, RaisesAlert
    <2>6. LoadOf(m)' - LoadOf(m) <= 1
        BY <1>3, <2>1, <2>3, <2>4 DEF LoadOf, RaisesAlert
    <2>7. faults' - faults = 1 /\ faults' \in Nat
        BY <1>4, <2>1
    <2>8. LoadOf(m)' - LoadOf(m) <= faults' - faults
        BY <2>6, <2>7
    <2>9. QED
        BY <1>1, <2>1, <2>3, <2>5, <2>7, <2>8, LoadShifts
<1>11. ASSUME NEW h \in Handlers,
              ReadIoc(h) \/ ReadIocFails(h) \/ WriteIoc(h) \/ WriteGraph(h) \/ SelectRow(h)
       PROVE  LoadInv'
    <2>1. Turns(h)
        BY <1>11, TurnsAre
    <2>2. faults' \in {faults, faults + 1}
        BY <1>11 DEF ReadIoc, ReadIocFails, WriteIoc, WriteGraph, SelectRow, Fault
    <2>3. UNCHANGED <<log, next, spool, committed>>
        BY <2>1 DEF Turns, shipVars
    <2>4. \A n : AtLine(n)' = AtLine(n)
        BY <1>3, <2>1 DEF Turns, AtLine
    <2>5. faults' \in Nat /\ faults' >= faults
        BY <1>4, <2>2
    <2>6. QED
        BY <1>6, <2>3, <2>4, <2>5
<1>12. ASSUME NEW h \in Handlers,
              \/ Commit(h) \/ PublishFails(h) \/ InsertCollides(h)
              \/ StoreFails(h) \/ GraphFails(h)
       PROVE  LoadInv'
    <2>1. PICK m : m = work[h].line
        OBVIOUS
    <2>2. /\ work[h] # Idle /\ work' = [work EXCEPT ![h] = Idle]
          /\ log' = log /\ next' = next
          /\ spool \subseteq spool' /\ spool' \subseteq spool \cup {m}
          /\ \/ committed' = committed /\ faults' \in {faults, faults + 1}
             \/ /\ committed' = [committed EXCEPT ![m] = @ + 1]
                /\ (spool' = spool /\ faults' = faults) \/ faults' = faults + 1
        BY <1>12, <2>1, AnswersAre
    <2>3. m \in Lines
        BY <2>1, <2>2, BusyLines
    <2>4. AtLine(m)' = AtLine(m) \ {h} /\ h \in AtLine(m)
        BY <1>2, <1>3, <2>1, <2>2, <2>3, JobIs DEF AtLine
    <2>5. Cardinality(AtLine(m)') = Cardinality(AtLine(m)) - 1
        BY <1>3, <2>3, <2>4, FS_RemoveElement
    <2>6. \A n \in Lines : n # m => AtLine(n)' = AtLine(n)
        BY <1>2, <1>3, <2>1, <2>2, JobIs DEF AtLine
    <2>7. committed \in [Lines -> Nat]
        BY DEF BaseInv, CountInv
    <2>8. \A n \in Lines : n # m => LoadOf(n)' = LoadOf(n)
        <3>1. \A n \in Lines : n # m => committed'[n] = committed[n] /\ (n \in spool' <=> n \in spool)
            BY <2>2, <2>7
        <3>2. QED
            BY <2>2, <2>6, <3>1 DEF LoadOf, RaisesAlert
    <2>9. faults' \in Nat /\ faults' - faults \in {0, 1}
        BY <1>4, <2>2
    <2>10. \/ committed'[m] = committed[m]
           \/ committed'[m] = committed[m] + 1 /\ (spool' = spool \/ faults' - faults = 1)
        BY <1>4, <2>2, <2>3, <2>7
    <2>11. LoadOf(m)' - LoadOf(m) <= faults' - faults
        <3>1. RaisesAlert(log[m])' = RaisesAlert(log[m])
            BY <2>2 DEF RaisesAlert
        <3>2. PICK a, b, c, d, p, q :
                /\ a = committed[m] /\ b = committed'[m]
                /\ c = Cardinality(AtLine(m)) /\ d = Cardinality(AtLine(m)')
                /\ p = (IF m \in spool THEN 1 ELSE 0) /\ q = (IF m \in spool' THEN 1 ELSE 0)
            OBVIOUS
        <3>3. /\ a \in Nat /\ c \in Nat /\ d = c - 1 /\ p \in 0..1 /\ q \in 0..1
              /\ \/ b = a
                 \/ b = a + 1 /\ (q = p \/ faults' - faults = 1)
            BY <1>3, <2>3, <2>5, <2>10, <3>2
        <3>4. (b + q + d) - (a + p + c) <= faults' - faults
            BY <2>9, <3>3
        <3>5. CASE RaisesAlert(log[m])
            BY <3>1, <3>2, <3>4, <3>5 DEF LoadOf
        <3>6. CASE ~RaisesAlert(log[m])
            <4>1. LoadOf(m)' = 0 /\ LoadOf(m) = 0
                BY <3>1, <3>6 DEF LoadOf
            <4>2. QED
                BY <2>9, <4>1
        <3>7. QED
            BY <3>5, <3>6
    <2>12. QED
        BY <1>1, <2>2, <2>3, <2>8, <2>9, <2>11, LoadShifts
<1>13. QED
    BY <1>7, <1>8, <1>9, <1>10, <1>11, <1>12 DEF Next, HandlerStep, HandlerFault

(* The types of the hub, and that no line is lost or committed unindexed.   *)
LedgerInv == HeldInv /\ IndexInv /\ AlertsInv /\ LoadInv

(* At the start the log is empty, and the books of the hub hold.            *)
LEMMA InitLedger == Init => LedgerInv
<1> SUFFICES ASSUME Init
             PROVE  LedgerInv
    OBVIOUS
<1>1. Lines = {} /\ next = 1
    BY DEF Init, SessionsInit, Lines
<1>2. Deserving = {} /\ faults = 0 /\ Total(Loads, Lines) = 0
    BY <1>1, TotalEmpty DEF Init, Deserving
<1>3. LoadInv
    BY <1>2, FS_EmptySet DEF LoadInv
<1>4. QED
    BY <1>1, <1>3 DEF LedgerInv, HeldInv, IndexInv, AlertsInv

(* The books of the hub hold in every reachable state.                      *)
LEMMA LedgerAlways == Spec => [](BaseInv /\ LedgerInv)
<1>1. Init => BaseInv /\ LedgerInv
    BY InitBase, InitLedger
<1>2. BaseInv /\ LedgerInv /\ [Next]_vars => (BaseInv /\ LedgerInv)'
    BY BaseNext, HeldNext, IndexNext, AlertsNext, LoadNext DEF LedgerInv
<1>3. QED
    BY <1>1, <1>2, PTL DEF Spec

(* Whatever times out, fails or is posted twice: every line the shipper has *)
(* posted is committed, waits to be posted again or is being waited for;    *)
(* and a line is indexed at least as often as it is committed.  Steps,      *)
(* counters, documents and rows are of their kind.                          *)
THEOREM HubTypes == Spec => []HubTypeOK
<1>1. BaseInv /\ LedgerInv => HubTypeOK
    <2> SUFFICES ASSUME BaseInv, LedgerInv
                 PROVE  HubTypeOK
        OBVIOUS
    <2>1. SessionsTypeOK /\ log \in Seq(Event)
        BY DEF BaseInv, SessionsInv, SessionsTypeOK
    <2>2. Len(log) \in Nat /\ Lines = 1..Len(log)
        BY <2>1, LinesAre
    <2>3. /\ next \in 1..Len(log) + 1 /\ waiting \in Handlers \cup {NoHandler}
          /\ spool \subseteq 1..next - 1
        BY <2>2 DEF BaseInv, ShipInv
    <2>4. \A h \in Handlers : work[h].line \in 0..next - 1 /\ work[h].step \in Steps
        <3>1. TAKE h \in Handlers
        <3>2. CASE work[h] = Idle
            BY <2>3, <3>2, JobIs
        <3>3. CASE work[h] # Idle
            <4>1. work[h].line \in 1..next - 1 /\ work[h] \in Job
                BY <3>3, BusyLines
            <4>2. QED
                BY <4>1, JobIs
        <3>4. QED
            BY <3>2, <3>3
    <2>5. \A n \in 1..next - 1 :
           \/ committed[n] > 0
           \/ n \in spool
           \/ waiting # NoHandler /\ work[waiting].line = n
        BY DEF LedgerInv, HeldInv
    <2>6. \A n \in Lines : committed[n] <= indexed[n]
        <3>1. TAKE n \in Lines
        <3>2. /\ IsFiniteSet(AtLine(n))
              /\ committed[n] + Cardinality(AtLine(n)) <= indexed[n]
            BY DEF LedgerInv, IndexInv
        <3>3. Cardinality(AtLine(n)) \in Nat
            BY <3>2, FS_CardinalityType
        <3>4. committed[n] \in Nat /\ indexed[n] \in Nat
            BY DEF BaseInv, CountInv
        <3>5. QED
            BY <3>2, <3>3, <3>4
    <2>7. QED
        BY <2>1, <2>3, <2>4, <2>5, <2>6 DEF HubTypeOK, BaseInv, CountInv, StoreInv
<1>2. QED
    BY <1>1, LedgerAlways, PTL

(* However requests fail, are given up, are repeated or collide: a line     *)
(* that deserves an alert has raised one or is still under way, and beyond  *)
(* one for each such line there are no more alerts than there were faults.  *)
THEOREM AlertsBounded == Spec => []AlertsAreBounded
<1>1. BaseInv /\ LedgerInv => AlertsAreBounded
    <2> SUFFICES ASSUME BaseInv, LedgerInv
                 PROVE  AlertsAreBounded
        OBVIOUS
    <2>1. BaseInv /\ HeldInv /\ IndexInv /\ AlertsInv /\ LoadInv
        BY DEF LedgerInv
    <2>2. /\ IsFiniteSet(Lines)
          /\ \A n \in Lines : LoadOf(n) \in Nat /\ Loads[n] = LoadOf(n)
          /\ Cardinality(Deserving) \in Nat /\ Deserving \subseteq Lines
        BY <2>1, LoadsAre
    <2>3. /\ alerts \in [Lines -> Nat] /\ committed \in [Lines -> Nat]
        BY <2>1 DEF BaseInv, CountInv
    <2>4. \A n \in Deserving :
            alerts[n] > 0 \/ n \in spool \/ (waiting # NoHandler /\ work[waiting].line = n)
        BY <2>1, <2>2 DEF HeldInv, AlertsInv, Deserving
    <2>5. \A n \in Lines : alerts[n] \in Int /\ Loads[n] \in Int /\ alerts[n] <= Loads[n]
        <3>1. TAKE n \in Lines
        <3>2. Cardinality(AtLine(n)) \in Nat
            BY <2>1, FS_CardinalityType DEF IndexInv
        <3>3. alerts[n] = IF RaisesAlert(log[n]) THEN committed[n] ELSE 0
            BY <2>1 DEF AlertsInv
        <3>4. alerts[n] <= LoadOf(n)
            BY <2>3, <3>2, <3>3 DEF LoadOf
        <3>5. QED
            BY <2>2, <2>3, <3>4
    <2>6. Total(alerts, Lines) <= Total(Loads, Lines)
        BY <2>2, <2>5, TotalBelow
    <2>7. Total(alerts, Lines) \in Int /\ Total(Loads, Lines) \in Int
        BY <2>2, <2>5, TotalType
    <2>8. Counted(alerts, Lines) = Total(alerts, Lines)
        BY <2>2, <2>5, CountedTotal
    <2>9. FoldSet(LAMBDA n, sum : sum + alerts[n], 0, Lines) = Total(alerts, Lines)
        BY <2>8 DEF Counted
    <2>10. Total(alerts, Lines) <= Cardinality(Deserving) + faults
        <3>1. faults \in Nat /\ Total(Loads, Lines) <= Cardinality(Deserving) + faults
            BY <2>1 DEF LoadInv
        <3>2. QED
            BY <2>2, <2>6, <2>7, <3>1
    <2>11. QED
        BY <2>4, <2>9, <2>10 DEF AlertsAreBounded, Deserving
<1>2. QED
    BY <1>1, LedgerAlways, PTL

-----------------------------------------------------------------------------
(* Who did it: a handler's own step is the only one that moves it, and only *)
(* a commit makes a line committed.                                         *)
LEMMA WhoMoves ==
    ASSUME BaseInv, [Next]_vars, NEW g \in Handlers, work'[g] # work[g]
    PROVE  \/ \E n \in Nat : Takes(g, n)
           \/ ReadIoc(g) \/ ReadIocFails(g) \/ WriteIoc(g) \/ WriteGraph(g) \/ SelectRow(g)
           \/ \E ok \in BOOLEAN : Leaves(g, ok)
<1>1. ASSUME NEW h \in Handlers, NEW job, work' = [work EXCEPT ![h] = job]
      PROVE  g = h
    BY <1>1 DEF BaseInv, WorkInv
<1>2. CASE SessionsMove \/ TimePasses \/ TimesOut \/ UNCHANGED vars
    BY <1>2 DEF SessionsMove, TimePasses, TimesOut, hubVars, vars
<1>3. CASE ShipperStep
    <2>1. PICK h \in Handlers, n \in Nat : Takes(h, n)
        BY <1>3, TakesAre DEF ShipperStep, BaseInv
    <2>2. g = h
        BY <1>1, <2>1 DEF Takes
    <2>3. QED
        BY <2>1, <2>2
<1>4. ASSUME NEW h \in Handlers, HandlerStep(h) \/ HandlerFault(h)
      PROVE  \/ ReadIoc(g) \/ ReadIocFails(g) \/ WriteIoc(g) \/ WriteGraph(g) \/ SelectRow(g)
             \/ \E ok \in BOOLEAN : Leaves(g, ok)
    <2>1. CASE ReadIoc(h) \/ ReadIocFails(h) \/ WriteIoc(h) \/ WriteGraph(h) \/ SelectRow(h)
        <3>1. g = h
            BY <1>1, <2>1, TurnsAre DEF Turns
        <3>2. QED
            BY <2>1, <3>1
    <2>2. CASE \E ok \in BOOLEAN : Leaves(h, ok)
        <3>1. g = h
            BY <1>1, <2>2 DEF Leaves, Answer
        <3>2. QED
            BY <2>2, <3>1
    <2>3. QED
        BY <1>4, <2>1, <2>2, LeavesAre DEF HandlerStep, HandlerFault
<1>5. QED
    BY <1>2, <1>3, <1>4 DEF Next

(* Which steps commit a line, and what the others leave.                    *)
LEMMA WhoCommits ==
    ASSUME BaseInv, [Next]_vars, NEW n \in Lines', committed'[n] > 0
    PROVE  /\ n \in Lines /\ log'[n] = log[n]
           /\ committed[n] > 0 \/ \E h \in Handlers : Store(h) /\ work[h].line = n
<1>1. log \in Seq(Event) /\ log' \in Seq(Event)
    BY SessionsKept DEF BaseInv, SessionsInv, SessionsTypeOK
<1>2. committed \in [Lines -> Nat]
    BY DEF BaseInv, CountInv
<1>3. CASE UNCHANGED <<log, committed>>
    BY <1>3 DEF Lines
<1>4. CASE Pauses \/ TimesOut \/ (\E h \in Handlers : Turns(h) \/ \E m \in Nat : Takes(h, m))
    BY <1>3, <1>4 DEF Pauses, TimesOut, Turns, Takes, ghostVars, sessionVars
<1>5. CASE Grows
    <2>1. committed' = Grow(committed) /\ LogGrows
        BY <1>5 DEF Grows
    <2>2. n \in Lines
        <3>1. CASE n \notin Lines
            <4>1. committed'[n] = 0
                BY <1>1, <1>2, <2>1, <3>1, GrowIs
            <4>2. QED
                BY <4>1
        <3>2. QED
            BY <3>1
    <2>3. QED
        BY <1>1, <1>2, <2>1, <2>2, GrowIs
<1>6. ASSUME NEW h \in Handlers, NEW ok \in BOOLEAN, Leaves(h, ok)
      PROVE  /\ n \in Lines /\ log'[n] = log[n]
             /\ committed[n] > 0 \/ \E k \in Handlers : Store(k) /\ work[k].line = n
    <2>1. log' = log /\ n \in Lines
        BY <1>6 DEF Leaves, Lines
    <2>2. CASE committed' = committed
        BY <2>1, <2>2
    <2>3. CASE Store(h)
        <3>1. n # work[h].line => committed'[n] = committed[n]
            BY <2>1, <2>3, CommitCounts
        <3>2. QED
            BY <2>1, <2>3, <3>1
    <2>4. QED
        BY <1>6, <2>2, <2>3 DEF Leaves
<1>7. QED
    BY <1>4, <1>5, <1>6, KindsOfStep

(* A handler that stays at a line stays at its event.                       *)
LEMMA EventStays ==
    ASSUME BaseInv, [Next]_vars, NEW g \in Handlers, work[g] # Idle,
           work'[g].line = work[g].line
    PROVE  EventOf(g)' = EventOf(g) /\ EventOf(g) \in Event
<1>1. work[g].line \in Lines /\ EventOf(g) \in Event
    BY BusyLines
<1>2. log'[work[g].line] = log[work[g].line]
    BY <1>1, CommitsStay
<1>3. QED
    BY <1>1, <1>2 DEF EventOf

(* A handler that goes to another step keeps its line.                      *)
LEMMA TurnKeepsLine ==
    ASSUME BaseInv, [Next]_vars, NEW g \in Handlers,
           ReadIoc(g) \/ ReadIocFails(g) \/ WriteIoc(g) \/ WriteGraph(g) \/ SelectRow(g)
    PROVE  work[g] # Idle /\ work'[g].line = work[g].line
<1>1. Turns(g)
    BY TurnsAre
<1>2. work \in [Handlers -> Job]
    BY DEF BaseInv, WorkInv
<1>3. QED
    BY <1>1, <1>2 DEF Turns

-----------------------------------------------------------------------------
(* The graph.                                                               *)

(* Nothing is taken out of the graph.                                       *)
LEMMA GraphKeeps ==
    ASSUME BaseInv, [Next]_vars
    PROVE  graph \subseteq graph'
<1>1. CASE UNCHANGED graph
    BY <1>1
<1>2. ASSUME NEW h \in Handlers, HandlerStep(h) \/ HandlerFault(h)
      PROVE  graph \subseteq graph'
    <2>1. CASE \E ok \in BOOLEAN : Leaves(h, ok)
        BY <2>1 DEF Leaves
    <2>2. CASE WriteGraph(h)
        BY <2>2 DEF WriteGraph
    <2>3. CASE ReadIoc(h) \/ ReadIocFails(h) \/ WriteIoc(h) \/ SelectRow(h)
        BY <2>3, <1>1 DEF ReadIoc, ReadIocFails, WriteIoc, SelectRow, storeVars
    <2>4. QED
        BY <1>2, <2>1, <2>2, <2>3, LeavesAre DEF HandlerStep, HandlerFault
<1>3. CASE SessionsMove \/ TimePasses \/ ShipperStep \/ TimesOut \/ UNCHANGED vars
    BY <1>1, <1>3 DEF SessionsMove, TimePasses, ShipperStep, PostNext, PostAgain, Post, TimesOut,
       storeVars, hubVars, vars
<1>4. QED
    BY <1>2, <1>3 DEF Next

(* A handler that looks up the row has written the graph ...                *)
LEMMA GraphNext == BaseInv /\ GraphInv /\ [Next]_vars => GraphInv'
<1> SUFFICES ASSUME BaseInv, GraphInv, [Next]_vars, NEW g \in Handlers,
                    work'[g].step \in {"select", "commit"}
             PROVE  Range(MergesOf(EventOf(g)')) \subseteq graph'
    BY DEF GraphInv, EventOf, MergesOf
<1>1. work \in [Handlers -> Job]
    BY DEF BaseInv, WorkInv
<1>2. graph \subseteq graph'
    BY GraphKeeps
<1>3. ASSUME work[g].step \in {"select", "commit"}, work'[g].line = work[g].line
      PROVE  Range(MergesOf(EventOf(g)')) \subseteq graph'
    <2>1. work[g] # Idle
        BY <1>3, JobIs
    <2>2. EventOf(g)' = EventOf(g)
        BY <1>3, <2>1, EventStays
    <2>3. QED
        BY <1>2, <1>3, <2>2 DEF GraphInv
<1>4. CASE work'[g] = work[g]
    BY <1>3, <1>4
<1>5. CASE WriteGraph(g)
    <2>1. EventOf(g)' = EventOf(g)
        BY <1>5, TurnKeepsLine, EventStays
    <2>2. graph' = graph \cup Range(MergesOf(EventOf(g)))
        BY <1>5 DEF WriteGraph
    <2>3. QED
        BY <2>1, <2>2
<1>6. CASE SelectRow(g)
    BY <1>3, <1>6, TurnKeepsLine DEF SelectRow, At
<1>7. CASE ReadIoc(g) \/ ReadIocFails(g)
    <2>1. PICK doc : work'[g] = [work[g] EXCEPT !.doc = doc, !.step = "put"]
        <3>1. CASE ReadIoc(g)
            BY <1>1, <3>1 DEF ReadIoc, Continue
        <3>2. CASE ReadIocFails(g)
            BY <1>1, <3>2 DEF ReadIocFails, Continue
        <3>3. QED
            BY <1>7, <3>1, <3>2
    <2>2. work'[g].step = "put"
        BY <1>1, <2>1 DEF Job
    <2>3. QED
        BY <2>2
<1>8. CASE WriteIoc(g)
    <2>1. work'[g].step \in {"get", "graph"}
        BY <1>1, <1>8 DEF WriteIoc, Continue, Job
    <2>2. QED
        BY <2>1
<1>9. CASE \E n \in Nat : Takes(g, n)
    <2>1. PICK n \in Nat : Takes(g, n)
        BY <1>9
    <2>2. work'[g] = NewJob(n) /\ NewJob(n).step = "get"
        BY <1>1, <2>1, TakenIsLine DEF Takes
    <2>3. QED
        BY <2>2
<1>10. CASE \E ok \in BOOLEAN : Leaves(g, ok)
    <2>1. work'[g] = Idle
        BY <1>1, <1>10 DEF Leaves, Answer
    <2>2. QED
        BY <2>1, JobIs
<1>11. QED
    BY <1>4, <1>5, <1>6, <1>7, <1>8, <1>9, <1>10, WhoMoves

(* ... so the graph has it when the row is committed.                       *)
LEMMA CoversNext ==
    BaseInv /\ GraphInv /\ GraphCoversRows /\ [Next]_vars => GraphCoversRows'
<1> SUFFICES ASSUME BaseInv, GraphInv, GraphCoversRows, [Next]_vars,
                    NEW n \in Lines', committed'[n] > 0
             PROVE  Range(MergesOf(log'[n])) \subseteq graph'
    BY DEF GraphCoversRows, MergesOf
<1>1. graph \subseteq graph'
    BY GraphKeeps
<1>2. n \in Lines /\ log'[n] = log[n]
    BY WhoCommits
<1>3. CASE committed[n] > 0
    BY <1>1, <1>2, <1>3 DEF GraphCoversRows
<1>4. ASSUME NEW h \in Handlers, Store(h), work[h].line = n
      PROVE  Range(MergesOf(log'[n])) \subseteq graph'
    <2>1. work[h].step = "commit"
        BY <1>4 DEF Store, At
    <2>2. Range(MergesOf(EventOf(h))) \subseteq graph /\ EventOf(h) = log[n]
        BY <1>4, <2>1 DEF GraphInv, EventOf
    <2>3. QED
        BY <1>1, <1>2, <2>2
<1>5. QED
    BY <1>3, <1>4, WhoCommits

(* Whatever fails: the graph has every relation of an event whose row is    *)
(* committed, because it is written before the row is looked up.            *)
THEOREM GraphHasCommitted == Spec => []GraphCoversRows
<1>1. Init => BaseInv /\ GraphInv /\ GraphCoversRows
    <2> SUFFICES ASSUME Init
                 PROVE  BaseInv /\ GraphInv /\ GraphCoversRows
        OBVIOUS
    <2>1. GraphInv
        BY JobIs DEF Init, GraphInv
    <2>2. Lines = {}
        BY DEF Init, SessionsInit, Lines
    <2>3. QED
        BY <2>1, <2>2, InitBase DEF GraphCoversRows
<1>2. BaseInv /\ GraphInv /\ GraphCoversRows /\ [Next]_vars
        => (BaseInv /\ GraphInv /\ GraphCoversRows)'
    BY BaseNext, GraphNext, CoversNext
<1>3. QED
    BY <1>1, <1>2, PTL DEF Spec

-----------------------------------------------------------------------------
(* The rows.                                                                *)

(* The correction of the attacker, by an event that is genuine, of a row    *)
(* that was read when it had at most as much to say as it has now.          *)
LEMMA CorrectionKeepsOwner ==
    ASSUME NEW now \in Row, NEW read \in Row, NEW e \in Event, Genuine(e),
           Attributed(now, e.session), Attributed(read, e.session),
           read.attacker = Owner[e.session] => now.attacker = Owner[e.session]
    PROVE  LET row == Updated(now, read, e) IN
           /\ Attributed(row, e.session)
           /\ now.attacker = Owner[e.session] => row.attacker = Owner[e.session]
           /\ e.attacker = Owner[e.session] => row.attacker = Owner[e.session]
<1>1. Updated(now, read, e).attacker =
        IF CorrectedAttacker(read, e) # read.attacker
        THEN CorrectedAttacker(read, e) ELSE now.attacker
    BY UpdatedIsRow
<1>2. CASE e.attacker # e.src
    <2>1. e.attacker = Owner[e.session] /\ CorrectedAttacker(read, e) = Owner[e.session]
        BY <1>2 DEF Genuine, CorrectedAttacker
    <2>2. QED
        BY <1>1, <2>1 DEF Attributed
<1>3. CASE e.attacker = e.src
    <2>1. CorrectedAttacker(read, e) = read.attacker /\ e.attacker = Peer(e.session)
        BY <1>3 DEF Genuine, CorrectedAttacker
    <2>2. Updated(now, read, e).attacker = now.attacker
        BY <1>1, <2>1
    <2>3. QED
        BY <2>1, <2>2 DEF Attributed
<1>4. QED
    BY <1>2, <1>3

(* What a commit leaves of who the session is.                              *)
LEMMA StoreAttributes ==
    ASSUME BaseInv, RowInv, NEW h \in Handlers, Store(h)
    PROVE  LET s == EventOf(h).session IN
           /\ s \in DOMAIN rows' /\ Attributed(rows'[s], s)
           /\ s \in DOMAIN rows /\ rows[s].attacker = Owner[s] => rows'[s].attacker = Owner[s]
           /\ EventOf(h).attacker = Owner[s] => rows'[s].attacker = Owner[s]
<1>1. DEFINE e == EventOf(h)
<1>2. work[h] # Idle /\ e \in Event /\ e.session \in Sessions
    BY StoreRows
<1>3. Genuine(e)
    BY <1>2, BusyLines DEF BaseInv, SessionsInv, EventOf
<1>4. CASE /\ work[h].row = NoRow /\ e.session \notin DOMAIN rows
           /\ DOMAIN rows' = DOMAIN rows \cup {e.session}
           /\ rows'[e.session] = NewRow(e)
    <2>1. rows'[e.session].attacker = e.attacker
        BY <1>4 DEF NewRow
    <2>2. e.attacker \in {Peer(e.session), Owner[e.session]}
        BY <1>3 DEF Genuine
    <2>3. QED
        BY <1>4, <2>1, <2>2 DEF Attributed
<1>5. CASE /\ work[h].row \in Row
           /\ DOMAIN rows' = DOMAIN rows
           /\ e.session \in DOMAIN rows =>
                rows'[e.session] = Updated(rows[e.session], work[h].row, e)
    <2>1. work[h].row # NoRow
        BY <1>5, RowIsThere
    <2>2. /\ e.session \in DOMAIN rows
          /\ Attributed(work[h].row, e.session)
          /\ work[h].row.attacker = Owner[e.session] =>
                rows[e.session].attacker = Owner[e.session]
        BY <2>1 DEF RowInv
    <2>3. rows[e.session] \in Row /\ Attributed(rows[e.session], e.session)
        BY <2>2 DEF RowInv, BaseInv, StoreInv
    <2>4. rows'[e.session] = Updated(rows[e.session], work[h].row, e)
        BY <1>5, <2>2
    <2>5. /\ Attributed(Updated(rows[e.session], work[h].row, e), e.session)
          /\ rows[e.session].attacker = Owner[e.session] =>
                Updated(rows[e.session], work[h].row, e).attacker = Owner[e.session]
          /\ e.attacker = Owner[e.session] =>
                Updated(rows[e.session], work[h].row, e).attacker = Owner[e.session]
        BY <1>2, <1>3, <1>5, <2>2, <2>3, CorrectionKeepsOwner
    <2>6. HIDE DEF e
    <2>7. QED
        BY <1>5, <2>2, <2>4, <2>5 DEF e
<1>6. QED
    BY <1>4, <1>5, StoreRows

(* So rows are never removed, and never go back to the jump host.           *)
LEMMA RowsStay ==
    ASSUME BaseInv, RowInv, [Next]_vars
    PROVE  /\ \A s \in DOMAIN rows :
                /\ s \in DOMAIN rows'
                /\ rows[s].attacker = Owner[s] => rows'[s].attacker = Owner[s]
           /\ \A s \in DOMAIN rows' : Attributed(rows'[s], s)
<1>1. \A s \in DOMAIN rows : Attributed(rows[s], s)
    BY DEF RowInv
<1>2. CASE rows' = rows
    BY <1>1, <1>2
<1>3. ASSUME NEW h \in Handlers, Store(h)
      PROVE  /\ \A s \in DOMAIN rows :
                    /\ s \in DOMAIN rows'
                    /\ rows[s].attacker = Owner[s] => rows'[s].attacker = Owner[s]
             /\ \A s \in DOMAIN rows' : Attributed(rows'[s], s)
    <2>1. DEFINE t == EventOf(h).session
    <2>2. /\ t \in DOMAIN rows' /\ Attributed(rows'[t], t)
          /\ t \in DOMAIN rows /\ rows[t].attacker = Owner[t] => rows'[t].attacker = Owner[t]
        BY <1>3, StoreAttributes
    <2>3. /\ DOMAIN rows' = DOMAIN rows \/ DOMAIN rows' = DOMAIN rows \cup {t}
          /\ \A s \in DOMAIN rows : s # t => rows'[s] = rows[s]
        BY <1>3, StoreRows
    <2>4. HIDE DEF t
    <2>5. QED
        BY <1>1, <2>2, <2>3
<1>4. ASSUME NEW h \in Handlers, NEW ok \in BOOLEAN, Leaves(h, ok)
      PROVE  rows' = rows \/ Store(h)
    BY <1>4 DEF Leaves
<1>5. CASE Pauses \/ Grows \/ TimesOut \/ (\E h \in Handlers : Turns(h) \/ \E m \in Nat : Takes(h, m))
    BY <1>2, <1>5 DEF Pauses, Grows, TimesOut, Turns, Takes, storeVars
<1>6. QED
    BY <1>2, <1>3, <1>4, <1>5, KindsOfStep

(* Every step keeps the rows those of the sessions' lines.                  *)
LEMMA RowNext == BaseInv /\ RowInv /\ [Next]_vars => RowInv'
<1> SUFFICES ASSUME BaseInv, RowInv, [Next]_vars
             PROVE  RowInv'
    OBVIOUS
<1>1. work \in [Handlers -> Job]
    BY DEF BaseInv, WorkInv
<1>2. /\ \A s \in DOMAIN rows :
            /\ s \in DOMAIN rows'
            /\ rows[s].attacker = Owner[s] => rows'[s].attacker = Owner[s]
      /\ \A s \in DOMAIN rows' : Attributed(rows'[s], s)
    BY RowsStay
<1>3. ASSUME NEW n \in Lines', committed'[n] > 0
      PROVE  /\ log'[n].session \in DOMAIN rows'
             /\ log'[n].attacker = Owner[log'[n].session] =>
                    rows'[log'[n].session].attacker = Owner[log'[n].session]
    <2>1. n \in Lines /\ log'[n] = log[n]
        BY <1>3, WhoCommits
    <2>2. CASE committed[n] > 0
        <3>1. /\ log[n].session \in DOMAIN rows
              /\ log[n].attacker = Owner[log[n].session] =>
                    rows[log[n].session].attacker = Owner[log[n].session]
            BY <2>1, <2>2 DEF RowInv
        <3>2. QED
            BY <1>2, <2>1, <3>1
    <2>3. ASSUME NEW h \in Handlers, Store(h), work[h].line = n
          PROVE  /\ log'[n].session \in DOMAIN rows'
                 /\ log'[n].attacker = Owner[log'[n].session] =>
                        rows'[log'[n].session].attacker = Owner[log'[n].session]
        <3>1. EventOf(h) = log'[n]
            BY <2>1, <2>3 DEF EventOf
        <3>2. QED
            BY <2>3, <3>1, StoreAttributes
    <2>4. QED
        BY <1>3, <2>2, <2>3, WhoCommits
<1>4. ASSUME NEW g \in Handlers, work'[g].row # NoRow
      PROVE  /\ EventOf(g)'.session \in DOMAIN rows'
             /\ Attributed(work'[g].row, EventOf(g)'.session)
             /\ work'[g].row.attacker = Owner[EventOf(g)'.session] =>
                    rows'[EventOf(g)'.session].attacker = Owner[EventOf(g)'.session]
    <2>1. ASSUME work[g].row = work'[g].row, work'[g].line = work[g].line
          PROVE  /\ EventOf(g)'.session \in DOMAIN rows'
                 /\ Attributed(work'[g].row, EventOf(g)'.session)
                 /\ work'[g].row.attacker = Owner[EventOf(g)'.session] =>
                        rows'[EventOf(g)'.session].attacker = Owner[EventOf(g)'.session]
        <3>1. work[g] # Idle
            BY <1>4, <2>1, JobIs
        <3>2. EventOf(g)' = EventOf(g)
            BY <2>1, <3>1, EventStays
        <3>3. /\ EventOf(g).session \in DOMAIN rows
              /\ Attributed(work[g].row, EventOf(g).session)
              /\ work[g].row.attacker = Owner[EventOf(g).session] =>
                    rows[EventOf(g).session].attacker = Owner[EventOf(g).session]
            BY <1>4, <2>1 DEF RowInv
        <3>4. QED
            BY <1>2, <2>1, <3>2, <3>3
    <2>2. CASE work'[g] = work[g]
        BY <2>1, <2>2
    <2>3. CASE ReadIoc(g) \/ ReadIocFails(g) \/ WriteIoc(g) \/ WriteGraph(g)
        <3>1. work'[g].line = work[g].line
            BY <2>3, TurnKeepsLine
        <3>2. work[g] \in Job
            BY <1>1
        <3>3. work'[g].row = work[g].row
            <4>1. CASE ReadIoc(g)
                BY <1>1, <3>2, <4>1 DEF ReadIoc, Continue, Job
            <4>2. CASE ReadIocFails(g)
                BY <1>1, <3>2, <4>2 DEF ReadIocFails, Continue, Job
            <4>3. CASE WriteIoc(g)
                BY <1>1, <3>2, <4>3 DEF WriteIoc, Continue, Job
            <4>4. CASE WriteGraph(g)
                BY <1>1, <3>2, <4>4 DEF WriteGraph, GoTo, Continue, Job
            <4>5. QED
                BY <2>3, <4>1, <4>2, <4>3, <4>4
        <3>4. QED
            BY <2>1, <3>1, <3>3
    <2>4. CASE SelectRow(g)
        <3>1. EventOf(g)' = EventOf(g)
            BY <2>4, TurnKeepsLine, EventStays
        <3>2. DEFINE s == EventOf(g).session
                     row == IF s \in DOMAIN rows THEN rows[s] ELSE NoRow
        <3>3. work'[g] = [work[g] EXCEPT !.row = row, !.step = "commit"]
            BY <1>1, <2>4 DEF SelectRow, Continue
        <3>4. HIDE DEF row
        <3>5. work'[g].row = row
            BY <1>1, <3>3 DEF Job
        <3>6. s \in DOMAIN rows /\ row = rows[s]
            BY <1>4, <3>5 DEF row
        <3>7. rows' = rows
            BY <2>4 DEF SelectRow, storeVars
        <3>8. QED
            BY <1>2, <3>1, <3>5, <3>6, <3>7
    <2>5. CASE \E n \in Nat : Takes(g, n)
        <3>1. PICK n \in Nat : Takes(g, n)
            BY <2>5
        <3>2. work'[g] = NewJob(n) /\ NewJob(n).row = NoRow
            BY <1>1, <3>1, TakenIsLine DEF Takes
        <3>3. QED
            BY <1>4, <3>2
    <2>6. CASE \E ok \in BOOLEAN : Leaves(g, ok)
        <3>1. work'[g] = Idle
            BY <1>1, <2>6 DEF Leaves, Answer
        <3>2. QED
            BY <1>4, <3>1, JobIs
    <2>7. QED
        BY <2>2, <2>3, <2>4, <2>5, <2>6, WhoMoves
<1>5. QED
    BY <1>2, <1>3, <1>4 DEF RowInv, EventOf, Lines, Attributed, Peer

(* However the events of a pivot are delayed, repeated or committed by two  *)
(* handlers at once: the row belongs to the session's owner or, until an    *)
(* event that names the owner is committed, to the jump host.               *)
THEOREM RowsKnowTheirOwner == Spec => []RowKnowsOwner
<1>1. Init => BaseInv /\ RowInv
    <2> SUFFICES ASSUME Init
                 PROVE  BaseInv /\ RowInv
        OBVIOUS
    <2>1. Lines = {} /\ DOMAIN rows = {} /\ \A h \in Handlers : work[h].row = NoRow
        BY JobIs DEF Init, SessionsInit, Lines, Nothing
    <2>2. QED
        BY <2>1, InitBase DEF RowInv
<1>2. BaseInv /\ RowInv /\ [Next]_vars => (BaseInv /\ RowInv)'
    BY BaseNext, RowNext
<1>3. BaseInv /\ RowInv => RowKnowsOwner
    <2> SUFFICES ASSUME BaseInv, RowInv, NEW s \in DOMAIN rows
                 PROVE  /\ rows[s].attacker \in {Owner[s], JumpHost}
                        /\ (\E n \in CommittedOf(s) : log[n].attacker = Owner[s]) =>
                               rows[s].attacker = Owner[s]
        BY DEF RowKnowsOwner
    <2>1. rows[s].attacker \in {Owner[s], JumpHost}
        BY DEF RowInv, Attributed, Peer
    <2>2. ASSUME NEW n \in CommittedOf(s), log[n].attacker = Owner[s]
          PROVE  rows[s].attacker = Owner[s]
        BY <2>2 DEF CommittedOf, LinesOf, RowInv
    <2>3. QED
        BY <2>1, <2>2
<1>4. QED
    BY <1>1, <1>2, <1>3, PTL DEF Spec

-----------------------------------------------------------------------------
(* The IOCs, while one request is in service at a time and every document   *)
(* could be read.                                                           *)

(* What is no longer so has never been so before.                           *)
LEMMA CalmBefore ==
    ASSUME BaseInv, [Next]_vars, Calm'
    PROVE  Calm
<1> SUFFICES ASSUME ~overlapped', ~forgotten'
             PROVE  ~overlapped /\ ~forgotten
    BY DEF Calm
<1>1. ~overlapped
    <2>1. CASE UNCHANGED overlapped
        BY <2>1
    <2>2. ASSUME NEW h \in Handlers, NEW n \in Nat, Takes(h, n)
          PROVE  ~overlapped
        BY <2>2 DEF Takes
    <2>3. QED
        BY <2>1, <2>2, KindsOfStep DEF Pauses, Grows, TimesOut, Turns, Leaves, ghostVars
<1>2. CASE UNCHANGED forgotten
    BY <1>1, <1>2
<1>3. ASSUME NEW h \in Handlers, ReadIocFails(h)
      PROVE  ~overlapped /\ ~forgotten
    <2>1. forgotten' = (forgotten \/ Stored(work[h].todo[1]) # NoDoc)
        BY <1>3 DEF ReadIocFails
    <2>2. QED
        BY <1>1, <2>1
<1>4. ASSUME NEW h \in Handlers, HandlerStep(h) \/ HandlerFault(h)
      PROVE  ~overlapped /\ ~forgotten
    <2>1. CASE ReadIocFails(h)
        BY <1>3, <2>1
    <2>2. CASE \E ok \in BOOLEAN : Leaves(h, ok)
        BY <1>2, <2>2 DEF Leaves
    <2>3. CASE ReadIoc(h) \/ WriteIoc(h) \/ WriteGraph(h) \/ SelectRow(h)
        BY <1>2, <2>3 DEF ReadIoc, WriteIoc, WriteGraph, SelectRow, ghostVars
    <2>4. QED
        BY <1>4, <2>1, <2>2, <2>3, LeavesAre DEF HandlerStep, HandlerFault
<1>5. CASE SessionsMove \/ TimePasses \/ ShipperStep \/ TimesOut \/ UNCHANGED vars
    BY <1>2, <1>5 DEF SessionsMove, TimePasses, ShipperStep, PostNext, PostAgain, Post, TimesOut,
       ghostVars, hubVars, vars
<1>6. QED
    BY <1>4, <1>5 DEF Next

(* Who writes documents.                                                    *)
LEMMA WhoWrites ==
    ASSUME BaseInv, [Next]_vars, iocs' # iocs
    PROVE  \E h \in Handlers : WriteIoc(h)
<1>1. ASSUME NEW h \in Handlers, HandlerStep(h) \/ HandlerFault(h)
      PROVE  WriteIoc(h)
    <2>1. CASE \E ok \in BOOLEAN : Leaves(h, ok)
        BY <2>1 DEF Leaves
    <2>2. CASE ReadIoc(h) \/ ReadIocFails(h) \/ WriteGraph(h) \/ SelectRow(h)
        BY <2>2 DEF ReadIoc, ReadIocFails, WriteGraph, SelectRow, storeVars
    <2>3. QED
        BY <1>1, <2>1, <2>2, LeavesAre DEF HandlerStep, HandlerFault
<1>2. CASE SessionsMove \/ TimePasses \/ ShipperStep \/ TimesOut \/ UNCHANGED vars
    BY <1>2 DEF SessionsMove, TimePasses, ShipperStep, PostNext, PostAgain, Post, TimesOut,
       storeVars, hubVars, vars
<1>3. QED
    BY <1>1, <1>2 DEF Next

(* A handler that has read the document as it is adds its event to it, and  *)
(* takes nothing away.                                                      *)
LEMMA WriteKeeps ==
    ASSUME BaseInv, NEW h \in Handlers, WriteIoc(h),
           work[h].doc = Stored(work[h].todo[1])
    PROVE  /\ WrittenIn(iocs', work[h].todo[1], EventOf(h))
           /\ \A e \in Event : \A i : Written(i, e) => WrittenIn(iocs', i, e)
<1>1. work[h] # Idle
    BY AtIsBusy DEF WriteIoc
<1>2. EventOf(h) \in Event /\ work[h] \in Job
    BY <1>1, BusyLines
<1>3. DEFINE i0 == work[h].todo[1]
             new == MergedDoc(work[h].doc, EventOf(h))
<1>4. work[h].doc \in Doc \cup {NoDoc}
    BY <1>2, JobIs
<1>5. /\ new \in Doc
      /\ EventOf(h).session \in new.sessions
      /\ new.threat >= ThreatScore(EventOf(h).kind)
      /\ work[h].doc # NoDoc => /\ work[h].doc.sessions \subseteq new.sessions
                                /\ new.threat >= work[h].doc.threat
    BY <1>2, <1>4, MergeKeeps
<1>6. iocs' = With(iocs, i0, new)
    BY DEF WriteIoc
<1>7. HIDE DEF i0, new
<1>8. /\ DOMAIN iocs' = DOMAIN iocs \cup {i0} /\ iocs'[i0] = new
      /\ \A i \in DOMAIN iocs : i # i0 => iocs'[i] = iocs[i]
    BY <1>6 DEF With
<1>9. WrittenIn(iocs', work[h].todo[1], EventOf(h))
    BY <1>5, <1>8 DEF WrittenIn, i0
<1>10. ASSUME NEW e \in Event, NEW i, Written(i, e)
       PROVE  WrittenIn(iocs', i, e)
    <2>1. /\ i \in DOMAIN iocs /\ e.session \in iocs[i].sessions
          /\ iocs[i].threat >= ThreatScore(e.kind)
        BY <1>10 DEF Written, WrittenIn
    <2>2. CASE i # i0
        BY <1>8, <2>1, <2>2 DEF WrittenIn
    <2>3. CASE i = i0
        <3>1. iocs[i] \in Doc
            BY <2>1 DEF BaseInv, StoreInv
        <3>2. work[h].doc = iocs[i] /\ work[h].doc # NoDoc
            BY <2>1, <2>3, <3>1, DocIsThere DEF Stored, i0
        <3>3. /\ new.threat \in Int /\ iocs[i].threat \in Int
              /\ ThreatScore(e.kind) \in Int
            <4>1. e.kind \in Kinds
                BY DEF Event
            <4>2. ThreatScore(e.kind) \in Int
                BY <4>1, ThreatIsPercentage
            <4>3. QED
                BY <1>5, <3>1, <4>2 DEF Doc
        <3>4. new.threat >= iocs[i].threat /\ e.session \in new.sessions
            BY <1>5, <2>1, <3>2
        <3>5. new.threat >= ThreatScore(e.kind)
            BY <2>1, <3>3, <3>4
        <3>6. QED
            BY <1>8, <2>3, <3>4, <3>5 DEF WrittenIn
    <2>4. QED
        BY <2>2, <2>3
<1>11. QED
    BY <1>9, <1>10

(* What is written stays written, for whoever's event.                      *)
LEMMA WrittenStays ==
    ASSUME BaseInv, IocInv, [Next]_vars, Calm,
           NEW e \in Event, NEW i, Written(i, e)
    PROVE  WrittenIn(iocs', i, e)
<1>1. CASE iocs' = iocs
    BY <1>1 DEF Written
<1>2. ASSUME NEW h \in Handlers, WriteIoc(h)
      PROVE  WrittenIn(iocs', i, e)
    <2>1. work[h].doc = Stored(work[h].todo[1])
        BY <1>2 DEF WriteIoc, At, IocInv, ReadInv
    <2>2. QED
        BY <1>2, <2>1, WriteKeeps
<1>3. QED
    BY <1>1, <1>2, WhoWrites

(* The IOCs of a committed event are written ...                            *)
LEMMA DoneNext == BaseInv /\ IocInv /\ Calm /\ [Next]_vars => DoneInv'
<1> SUFFICES ASSUME BaseInv, IocInv, Calm, [Next]_vars, NEW n \in Lines', committed'[n] > 0,
                    NEW i \in Range(IocsOf(log'[n]))
             PROVE  WrittenIn(iocs', i, log'[n])
    BY DEF DoneInv, Written, IocsOf
<1>1. n \in Lines /\ log'[n] = log[n]
    BY WhoCommits
<1>2. log[n] \in Event
    BY <1>1, LinesAre DEF BaseInv, SessionsInv, SessionsTypeOK
<1>3. Written(i, log[n])
    <2>1. CASE committed[n] > 0
        BY <1>1, <2>1 DEF IocInv, DoneInv
    <2>2. ASSUME NEW h \in Handlers, Store(h), work[h].line = n
          PROVE  Written(i, log[n])
        <3>1. work[h].step = "commit" /\ EventOf(h) = log[n]
            BY <2>2 DEF Store, At, EventOf
        <3>2. QED
            BY <1>1, <3>1 DEF IocInv, TodoInv
    <2>3. QED
        BY <2>1, <2>2, WhoCommits
<1>4. QED
    BY <1>1, <1>2, <1>3, WrittenStays

(* ... those of one that is in service, or still to be ...                  *)
LEMMA TodoNext == BaseInv /\ IocInv /\ Calm /\ [Next]_vars => TodoInv'
<1> SUFFICES ASSUME BaseInv, IocInv, Calm, [Next]_vars,
                    NEW g \in Handlers, work'[g].step # "idle",
                    NEW i \in Range(IocsOf(EventOf(g)'))
             PROVE  \/ WrittenIn(iocs', i, EventOf(g)')
                    \/ work'[g].step \in {"get", "put"} /\ i \in Range(work'[g].todo)
    BY DEF TodoInv, Written, IocsOf, EventOf
<1>1. work \in [Handlers -> Job]
    BY DEF BaseInv, WorkInv
<1>2. ASSUME work[g] # Idle, work'[g].line = work[g].line
      PROVE  /\ EventOf(g)' = EventOf(g) /\ EventOf(g) \in Event
             /\ \/ WrittenIn(iocs', i, EventOf(g)')
                \/ work[g].step \in {"get", "put"} /\ i \in Range(work[g].todo)
    <2>1. EventOf(g)' = EventOf(g) /\ EventOf(g) \in Event
        BY <1>2, EventStays
    <2>2. work[g].step # "idle"
        BY <1>2 DEF BaseInv, WorkInv
    <2>3. \/ Written(i, EventOf(g))
          \/ work[g].step \in {"get", "put"} /\ i \in Range(work[g].todo)
        BY <2>1, <2>2 DEF IocInv, TodoInv
    <2>4. QED
        BY <2>1, <2>3, WrittenStays
<1>3. CASE work'[g] = work[g]
    <2>1. work[g] # Idle
        BY <1>3, JobIs
    <2>2. QED
        BY <1>2, <1>3, <2>1
<1>4. CASE ReadIoc(g) \/ ReadIocFails(g)
    <2>1. PICK doc : work'[g] = [work[g] EXCEPT !.doc = doc, !.step = "put"]
        <3>1. CASE ReadIoc(g)
            BY <1>1, <3>1 DEF ReadIoc, Continue
        <3>2. CASE ReadIocFails(g)
            BY <1>1, <3>2 DEF ReadIocFails, Continue
        <3>3. QED
            BY <1>4, <3>1, <3>2
    <2>2. work'[g].step = "put" /\ work'[g].todo = work[g].todo
        BY <1>1, <2>1 DEF Job
    <2>3. work[g] # Idle /\ work'[g].line = work[g].line
        BY <1>4, TurnKeepsLine
    <2>4. QED
        BY <1>2, <2>2, <2>3
<1>5. CASE WriteIoc(g)
    <2>1. work[g] # Idle /\ work'[g].line = work[g].line /\ work[g].step = "put"
        BY <1>5, TurnKeepsLine DEF WriteIoc, At
    <2>2. EventOf(g)' = EventOf(g) /\ EventOf(g) \in Event
        BY <2>1, EventStays
    <2>3. work[g].todo \in Seq(Iocs) /\ work[g].todo # <<>>
        BY <1>1, <2>1, JobIs DEF BaseInv, WorkInv
    <2>4. DEFINE rest == Tail(work[g].todo)
    <2>5. rest \in Seq(Iocs) /\ \A j \in Range(work[g].todo) : j = work[g].todo[1] \/ j \in Range(rest)
        BY <2>3, HeadAndRest
    <2>6. work'[g] = [work[g] EXCEPT !.todo = rest, !.doc = NoDoc,
                                     !.step = IF rest = <<>> THEN "graph" ELSE "get"]
        BY <1>1, <1>5 DEF WriteIoc, Continue
    <2>7. HIDE DEF rest
    <2>8. work'[g].todo = rest /\ (rest # <<>> => work'[g].step = "get")
        BY <1>1, <2>6 DEF Job
    <2>9. WrittenIn(iocs', work[g].todo[1], EventOf(g))
        BY <1>5, <2>1, WriteKeeps DEF IocInv, ReadInv
    <2>10. CASE i \in Range(rest)
        <3>1. rest # <<>>
            BY <2>10 DEF Range
        <3>2. QED
            BY <2>8, <2>10, <3>1
    <2>11. CASE i = work[g].todo[1]
        BY <2>2, <2>9, <2>11
    <2>12. QED
        BY <1>2, <2>1, <2>5, <2>10, <2>11
<1>6. CASE WriteGraph(g) \/ SelectRow(g)
    <2>1. work[g] # Idle /\ work'[g].line = work[g].line
        BY <1>6, TurnKeepsLine
    <2>2. work[g].step \in {"graph", "select"}
        BY <1>6 DEF WriteGraph, SelectRow, At
    <2>3. QED
        BY <1>2, <2>1, <2>2
<1>7. CASE \E n \in Nat : Takes(g, n)
    <2>1. PICK n \in Nat : Takes(g, n)
        BY <1>7
    <2>2. /\ work'[g] = NewJob(n) /\ NewJob(n).step = "get" /\ NewJob(n).line = n
          /\ NewJob(n).todo = IocsOf(log[n])
        BY <1>1, <2>1, TakenIsLine DEF Takes
    <2>3. EventOf(g)' = log[n]
        BY <2>1, <2>2 DEF Takes, EventOf
    <2>4. QED
        BY <2>2, <2>3
<1>8. CASE \E ok \in BOOLEAN : Leaves(g, ok)
    <2>1. work'[g] = Idle
        BY <1>1, <1>8 DEF Leaves, Answer
    <2>2. QED
        BY <2>1, JobIs
<1>9. QED
    BY <1>3, <1>4, <1>5, <1>6, <1>7, <1>8, WhoMoves

(* ... and the document is as it was read, until it is written.             *)
LEMMA ReadNext == BaseInv /\ AloneInv /\ IocInv /\ Calm /\ Calm' /\ [Next]_vars => ReadInv'
<1> SUFFICES ASSUME BaseInv, AloneInv, IocInv, Calm, Calm', [Next]_vars,
                    NEW g \in Handlers, work'[g].step = "put"
             PROVE  work'[g].doc = Stored(work[g].todo[1])'
    BY DEF ReadInv
<1>1. work \in [Handlers -> Job]
    BY DEF BaseInv, WorkInv
<1>2. CASE work'[g] = work[g]
    <2>1. work[g] # Idle /\ work[g].doc = Stored(work[g].todo[1])
        BY <1>2, JobIs DEF IocInv, ReadInv
    <2>2. ASSUME NEW h \in Handlers, WriteIoc(h)
          PROVE  FALSE
        <3>1. work[h] # Idle
            BY <2>2, AtIsBusy DEF WriteIoc
        <3>2. h = g
            BY <2>1, <3>1 DEF AloneInv, Calm, Busy
        <3>3. work'[g].step \in {"get", "graph"}
            BY <1>1, <2>2, <3>2 DEF WriteIoc, Continue, Job
        <3>4. QED
            BY <3>3
    <2>3. iocs' = iocs
        BY <2>2, WhoWrites
    <2>4. QED
        BY <1>2, <2>1, <2>3 DEF Stored
<1>3. CASE ReadIoc(g) \/ ReadIocFails(g)
    <2>1. iocs' = iocs
        BY <1>3 DEF ReadIoc, ReadIocFails, storeVars
    <2>2. work'[g] = [work[g] EXCEPT !.doc = Stored(work[g].todo[1]), !.step = "put"]
        <3>1. CASE ReadIoc(g)
            BY <1>1, <3>1 DEF ReadIoc, Continue
        <3>2. CASE ReadIocFails(g)
            <4>1. forgotten' = (forgotten \/ Stored(work[g].todo[1]) # NoDoc)
                BY <3>2 DEF ReadIocFails
            <4>2. Stored(work[g].todo[1]) = NoDoc
                BY <4>1, Zenon DEF Calm
            <4>3. QED
                BY <1>1, <3>2, <4>2 DEF ReadIocFails, Continue
        <3>3. QED
            BY <1>3, <3>1, <3>2
    <2>3. DEFINE doc == Stored(work[g].todo[1])
    <2>4. HIDE DEF doc
    <2>5. work'[g].doc = doc /\ work'[g].todo = work[g].todo
        BY <1>1, <2>2 DEF Job, doc
    <2>6. QED
        BY <2>1, <2>5 DEF Stored, doc
<1>4. CASE WriteIoc(g) \/ WriteGraph(g) \/ SelectRow(g)
    <2>1. work'[g].step \in {"get", "graph", "select", "commit"}
        <3>1. CASE WriteIoc(g)
            BY <1>1, <3>1 DEF WriteIoc, Continue, Job
        <3>2. CASE WriteGraph(g)
            BY <1>1, <3>2 DEF WriteGraph, GoTo, Continue, Job
        <3>3. CASE SelectRow(g)
            BY <1>1, <3>3 DEF SelectRow, Continue, Job
        <3>4. QED
            BY <1>4, <3>1, <3>2, <3>3
    <2>2. QED
        BY <2>1
<1>5. CASE \E n \in Nat : Takes(g, n)
    <2>1. PICK n \in Nat : Takes(g, n)
        BY <1>5
    <2>2. work'[g] = NewJob(n) /\ NewJob(n).step = "get"
        BY <1>1, <2>1, TakenIsLine DEF Takes
    <2>3. QED
        BY <2>2
<1>6. CASE \E ok \in BOOLEAN : Leaves(g, ok)
    <2>1. work'[g] = Idle
        BY <1>1, <1>6 DEF Leaves, Answer
    <2>2. QED
        BY <2>1, JobIs
<1>7. QED
    BY <1>2, <1>3, <1>4, <1>5, <1>6, WhoMoves

(* Until two requests overlap, or a document that is there cannot be read:  *)
(* an IOC has every session that committed an event with it, and at least   *)
(* the score of that event.                                                 *)
THEOREM IocsRemember == Spec => []IocRemembers
<1>1. Init => BaseInv /\ AloneInv /\ IocInv
    <2> SUFFICES ASSUME Init
                 PROVE  BaseInv /\ AloneInv /\ IocInv
        OBVIOUS
    <2>1. Lines = {} /\ Busy = {} /\ \A h \in Handlers : work[h].step = "idle"
        BY JobIs DEF Init, SessionsInit, Lines, Busy
    <2>2. QED
        BY <2>1, InitBase DEF AloneInv, IocInv, DoneInv, TodoInv, ReadInv
<1>2. BaseInv /\ AloneInv /\ IocInv /\ [Next]_vars => (BaseInv /\ AloneInv /\ IocInv)'
    <2> SUFFICES ASSUME BaseInv, AloneInv, IocInv, [Next]_vars
                 PROVE  (BaseInv /\ AloneInv /\ IocInv)'
        OBVIOUS
    <2>1. BaseInv' /\ AloneInv'
        BY BaseNext, AloneNext
    <2>2. Calm' => DoneInv' /\ TodoInv' /\ ReadInv'
        BY CalmBefore, DoneNext, TodoNext, ReadNext
    <2>3. QED
        BY <2>1, <2>2 DEF IocInv
<1>3. IocInv => IocRemembers
    BY Zenon DEF IocInv, Calm, DoneInv, Written, WrittenIn, IocRemembers
<1>4. QED
    BY <1>1, <1>2, <1>3, PTL DEF Spec

-----------------------------------------------------------------------------
(* What a row adds up, while one request is in service at a time.           *)

(* The row counts the commits of its session, but for the one that created  *)
(* it, and has their highest score; and a handler that is about to commit   *)
(* has seen the row as it still is.                                         *)
ScoresOf(s) == {ThreatScore(log[n].kind) : n \in CommittedOf(s)}
Exact(s) ==
    /\ rows[s].count = Total(committed, LinesOf(s)) - 1
    /\ rows[s].threat \in ScoresOf(s)
    /\ \A x \in ScoresOf(s) : x <= rows[s].threat
RowSeen(h) ==
    work[h].step = "commit" =>
        work[h].row = IF EventOf(h).session \in DOMAIN rows
                      THEN rows[EventOf(h).session] ELSE NoRow
ExactInv == ~overlapped =>
    (\A s \in DOMAIN rows : Exact(s)) /\ (\A h \in Handlers : RowSeen(h))

(* The lines of a session are finitely many, and each has its count.        *)
LEMMA LinesFinite ==
    ASSUME BaseInv
    PROVE  /\ IsFiniteSet(Lines)
           /\ \A s : LinesOf(s) \subseteq Lines /\ IsFiniteSet(LinesOf(s))
           /\ \A n \in Lines : committed[n] \in Int /\ committed[n] \in Nat
           /\ \A n \in Lines : ThreatScore(log[n].kind) \in 0..100
<1>1. log \in Seq(Event)
    BY DEF BaseInv, SessionsInv, SessionsTypeOK
<1>2. Lines = 1..Len(log) /\ Len(log) \in Nat /\ \A n \in Lines : log[n] \in Event
    BY <1>1, LinesAre
<1>3. IsFiniteSet(Lines)
    BY <1>2, FS_Interval
<1>4. \A s : LinesOf(s) \subseteq Lines
    BY DEF LinesOf
<1>5. \A s : IsFiniteSet(LinesOf(s))
    BY <1>3, <1>4, FS_Subset
<1>6. committed \in [Lines -> Nat]
    BY DEF BaseInv, CountInv
<1>7. \A n \in Lines : ThreatScore(log[n].kind) \in 0..100
    BY <1>2, ThreatIsPercentage DEF Event
<1>8. QED
    BY <1>3, <1>4, <1>5, <1>6, <1>7

(* What an update adds to a row that is as it was read.                     *)
LEMMA UpdatedInPlace ==
    ASSUME NEW read \in Row, NEW e \in Event
    PROVE  /\ Updated(read, read, e).count = read.count + 1
           /\ Updated(read, read, e).threat = Max({read.threat, ThreatScore(e.kind)})
<1>1. DEFINE wants == [read EXCEPT
            !.count = @ + 1,
            !.threat = Max({@, ThreatScore(e.kind)}),
            !.logins = IF e.kind = "login_failed" THEN @ + 1 ELSE @,
            !.ended = IF e.kind = "closed" /\ Lasted(e) THEN e.at ELSE @,
            !.hassh = @ \/ e.hassh,
            !.attacker = CorrectedAttacker(read, e)]
<1>2. wants.count = read.count + 1 /\ wants.threat = Max({read.threat, ThreatScore(e.kind)})
    BY DEF Row
<1>3. Updated(read, read, e) = [column \in DOMAIN read |->
            IF wants[column] # read[column] THEN wants[column] ELSE read[column]]
    BY DEF Updated
<1>4. "count" \in DOMAIN read /\ "threat" \in DOMAIN read
    BY DEF Row
<1>5. HIDE DEF wants
<1>6. QED
    BY <1>2, <1>3, <1>4

(* Nobody but a commit changes a row or a count of the lines there were.    *)
LEMMA WhoStores ==
    ASSUME BaseInv, [Next]_vars
    PROVE  \/ UNCHANGED <<log, rows, committed>>
           \/ Grows
           \/ \E h \in Handlers, ok \in BOOLEAN : Leaves(h, ok) /\ Store(h)
<1>1. CASE Pauses \/ TimesOut \/ (\E h \in Handlers : Turns(h) \/ \E n \in Nat : Takes(h, n))
    BY <1>1 DEF Pauses, TimesOut, Turns, Takes, storeVars, ghostVars, sessionVars
<1>2. ASSUME NEW h \in Handlers, NEW ok \in BOOLEAN, Leaves(h, ok)
      PROVE  UNCHANGED <<log, rows, committed>> \/ Store(h)
    BY <1>2 DEF Leaves
<1>3. QED
    BY <1>1, <1>2, KindsOfStep

(* Once handlers have overlapped, the hub remembers it.                     *)
LEMMA OverlapStays ==
    ASSUME BaseInv, [Next]_vars, ~overlapped'
    PROVE  ~overlapped
<1>1. CASE UNCHANGED overlapped
    BY <1>1
<1>2. ASSUME NEW h \in Handlers, NEW n \in Nat, Takes(h, n)
      PROVE  ~overlapped
    BY <1>2 DEF Takes
<1>3. QED
    BY <1>1, <1>2, KindsOfStep DEF Pauses, Grows, TimesOut, Turns, Leaves, ghostVars

(* A line that is added has no commits yet.                                 *)
LEMMA ExactGrows ==
    ASSUME BaseInv, BaseInv', Grows, NEW s \in DOMAIN rows, Exact(s)
    PROVE  Exact(s)'
<1>1. log \in Seq(Event) /\ log' \in Seq(Event) /\ committed \in [Lines -> Nat]
    BY DEF BaseInv, SessionsInv, SessionsTypeOK, CountInv
<1>2. /\ \A n \in Lines : n \in Lines' /\ committed'[n] = committed[n] /\ log'[n] = log[n]
      /\ \A n \in Lines' : n \notin Lines => committed'[n] = 0
    BY <1>1, GrowIs DEF Grows
<1>3. rows' = rows
    BY DEF Grows
<1>4. LinesOf(s) \subseteq LinesOf(s)' /\ \A n \in LinesOf(s)' : n \notin LinesOf(s) => n \notin Lines
    BY <1>2 DEF LinesOf
<1>5. CommittedOf(s)' = CommittedOf(s)
    BY <1>2, <1>4 DEF CommittedOf, LinesOf
<1>6. ScoresOf(s)' = ScoresOf(s)
    BY <1>2, <1>5 DEF ScoresOf, CommittedOf, LinesOf
<1>7. Total(committed', LinesOf(s)') = Total(committed, LinesOf(s))
    <2>1. PICK S : S = LinesOf(s)
        OBVIOUS
    <2>2. PICK T : T = LinesOf(s)'
        OBVIOUS
    <2>3. IsFiniteSet(S) /\ IsFiniteSet(T) /\ S \subseteq T
        <3>1. Lines' = 1..Len(log') /\ Len(log') \in Nat
            BY <1>1, LenProperties DEF Lines
        <3>2. IsFiniteSet(Lines')
            BY <3>1, FS_Interval
        <3>3. T \subseteq Lines'
            BY <2>2 DEF LinesOf
        <3>4. IsFiniteSet(S) /\ S \subseteq T
            BY <2>1, <2>2, <1>4, LinesFinite
        <3>5. QED
            BY <3>2, <3>3, <3>4, FS_Subset
    <2>4. T \subseteq Lines' /\ S \subseteq Lines
        BY <2>1, <2>2 DEF LinesOf
    <2>5. committed' \in [Lines' -> Nat]
        BY DEF BaseInv, CountInv
    <2>6. Total(committed', T) = Total(committed', S)
        <3>1. \A n \in T : committed'[n] \in Int
            BY <2>4, <2>5
        <3>2. \A n \in T \ S : committed'[n] = 0
            BY <2>1, <2>2, <2>4, <1>2, <1>4
        <3>3. QED
            BY <2>3, <3>1, <3>2, TotalZeros
    <2>7. Total(committed', S) = Total(committed, S)
        <3>1. \A n \in S : committed[n] \in Int /\ committed'[n] = committed[n]
            BY <2>4, <1>1, <1>2
        <3>2. QED
            BY <2>3, <3>1, TotalSame
    <2>8. QED
        BY <2>1, <2>2, <2>6, <2>7
<1>8. QED
    BY <1>3, <1>6, <1>7 DEF Exact

(* A commit by a handler that has seen the row.                             *)
LEMMA ExactCommits ==
    ASSUME BaseInv, BaseInv', RowInv, NEW h \in Handlers, Store(h), log' = log, RowSeen(h),
           \A s \in DOMAIN rows : Exact(s), NEW s \in DOMAIN rows'
    PROVE  Exact(s)'
<1>1. PICK n, e, t : n = work[h].line /\ e = EventOf(h) /\ t = e.session
    OBVIOUS
<1>2. /\ work[h] # Idle /\ e \in Event /\ t \in Sessions
      /\ \/ /\ work[h].row = NoRow /\ t \notin DOMAIN rows
            /\ DOMAIN rows' = DOMAIN rows \cup {t}
            /\ rows'[t] = NewRow(e)
         \/ /\ work[h].row \in Row
            /\ DOMAIN rows' = DOMAIN rows
            /\ t \in DOMAIN rows => rows'[t] = Updated(rows[t], work[h].row, e)
      /\ \A u \in DOMAIN rows : u # t => rows'[u] = rows[u]
    BY <1>1, StoreRows
<1>3. /\ n \in Lines /\ e = log[n]
      /\ committed'[n] = committed[n] + 1
      /\ \A m \in Lines : m # n => committed'[m] = committed[m]
      /\ \A m \in Lines : committed[m] \in Nat
    BY <1>1, CommitCounts DEF EventOf
<1>4. Lines' = Lines /\ \A u : LinesOf(u)' = LinesOf(u)
    BY DEF Lines, LinesOf
<1>5. work[h].row = IF t \in DOMAIN rows THEN rows[t] ELSE NoRow
    BY <1>1 DEF RowSeen, Store, At
<1>6. t \in DOMAIN rows => rows[t] \in Row
    BY DEF BaseInv, StoreInv
<1>7. n \in LinesOf(t) /\ \A u : u # t => n \notin LinesOf(u)
    BY <1>1, <1>3 DEF LinesOf
<1>8. /\ CommittedOf(t)' = CommittedOf(t) \cup {n}
      /\ \A u : u # t => CommittedOf(u)' = CommittedOf(u)
    <2>1. \A u : LinesOf(u) \subseteq Lines
        BY DEF LinesOf
    <2>2. QED
        BY <1>3, <1>4, <1>7, <2>1 DEF CommittedOf
<1>9. ThreatScore(e.kind) \in 0..100
    BY <1>3, LinesFinite
<1>10. /\ ScoresOf(t)' = ScoresOf(t) \cup {ThreatScore(e.kind)}
       /\ \A u : u # t => ScoresOf(u)' = ScoresOf(u)
    <2>1. \A u : ScoresOf(u)' = {ThreatScore(log[m].kind) : m \in CommittedOf(u)'}
        BY DEF ScoresOf
    <2>2. QED
        BY <1>3, <1>8, <2>1 DEF ScoresOf
<1>11. CASE s # t
    <2>1. s \in DOMAIN rows /\ rows'[s] = rows[s] /\ Exact(s)
        BY <1>2, <1>11
    <2>2. Total(committed', LinesOf(s)') = Total(committed, LinesOf(s))
        <3>1. PICK S : S = LinesOf(s)
            OBVIOUS
        <3>2. IsFiniteSet(S) /\ \A m \in S : committed[m] \in Int /\ committed'[m] = committed[m]
            <4>1. S \subseteq Lines /\ IsFiniteSet(S) /\ n \notin S
                BY <3>1, <1>7, <1>11, LinesFinite
            <4>2. QED
                BY <4>1, <1>3
        <3>3. Total(committed', S) = Total(committed, S)
            BY <3>2, TotalSame
        <3>4. QED
            BY <3>1, <3>3, <1>4
    <2>3. ScoresOf(s)' = ScoresOf(s)
        BY <1>10, <1>11
    <2>4. QED
        BY <2>1, <2>2, <2>3 DEF Exact
<1>12. CASE s = t
    <2>1. PICK S : S = LinesOf(t)
        OBVIOUS
    <2>2. S \subseteq Lines /\ IsFiniteSet(S) /\ n \in S
        BY <2>1, <1>7, LinesFinite
    <2>3. \A m \in S : committed[m] \in Int
        BY <2>2, <1>3
    <2>4. Total(committed', S) = Total(committed, S) + 1 /\ Total(committed, S) \in Int
        <3>1. 1 \in Int /\ \A m \in S : m # n => committed'[m] = committed[m]
            BY <2>2, <1>3
        <3>2. Total(committed', S) = Total(committed, S) + 1
            BY <3>1, <2>2, <2>3, <1>3, TotalBumps
        <3>3. QED
            BY <3>2, <2>2, <2>3, TotalType
    <2>5. LinesOf(s)' = S
        BY <2>1, <1>4, <1>12
    <2>6. CASE t \notin DOMAIN rows
        <3>1. \A m \in S : committed[m] = 0
            <4>1. \A m \in S : ~(committed[m] > 0)
                BY <2>1, <2>6 DEF RowInv, LinesOf
            <4>2. QED
                BY <4>1, <2>2, <1>3
        <3>2. Total(committed, S) = 0
            <4>1. {} \in SUBSET S /\ \A m \in S \ {} : committed[m] = 0
                BY <3>1
            <4>2. Total(committed, S) = Total(committed, {})
                BY <4>1, <2>2, <2>3, TotalZeros
            <4>3. QED
                BY <4>2, TotalEmpty
        <3>3. CommittedOf(t) = {}
            BY <2>1, <3>1 DEF CommittedOf
        <3>4. ScoresOf(t)' = {ThreatScore(e.kind)}
            BY <3>3, <1>10 DEF ScoresOf
        <3>5. rows'[t].count = 0 /\ rows'[t].threat = ThreatScore(e.kind)
            <4>1. rows'[t] = NewRow(e)
                BY <1>2, <1>5, <2>6, RowIsThere
            <4>2. QED
                BY <4>1 DEF NewRow
        <3>6. QED
            BY <1>9, <1>12, <2>4, <2>5, <3>2, <3>4, <3>5 DEF Exact
    <2>7. CASE t \in DOMAIN rows
        <3>1. Exact(t) /\ rows[t] \in Row /\ work[h].row = rows[t]
            BY <1>5, <1>6, <2>7
        <3>2. rows'[t] = Updated(rows[t], rows[t], e)
            BY <1>2, <2>7, <3>1, RowIsThere
        <3>3. /\ rows'[t].count = rows[t].count + 1
              /\ rows'[t].threat = Max({rows[t].threat, ThreatScore(e.kind)})
            BY <1>2, <3>1, <3>2, UpdatedInPlace
        <3>4. rows[t].threat \in 0..100 /\ rows[t].count \in Nat
            BY <3>1 DEF Row
        <3>5. /\ rows'[t].threat \in {rows[t].threat, ThreatScore(e.kind)}
              /\ rows'[t].threat >= rows[t].threat /\ rows'[t].threat >= ThreatScore(e.kind)
            <4>1. rows[t].threat \in Int /\ ThreatScore(e.kind) \in Int
                BY <1>9, <3>4
            <4>2. QED
                BY <4>1, <3>3, MaxOfTwo
        <3>6. /\ rows[t].count = Total(committed, S) - 1
              /\ rows[t].threat \in ScoresOf(t) /\ \A x \in ScoresOf(t) : x <= rows[t].threat
            BY <2>1, <3>1 DEF Exact
        <3>7. \A x \in ScoresOf(t) : x \in 0..100
            BY LinesFinite DEF ScoresOf, CommittedOf, LinesOf
        <3>8. rows'[t].threat \in ScoresOf(t)'
            BY <1>10, <3>5, <3>6
        <3>9. \A x \in ScoresOf(t)' : x <= rows'[t].threat
            <4>1. PICK now : now = rows'[t].threat
                OBVIOUS
            <4>2. now \in 0..100
                BY <4>1, <1>9, <3>4, <3>5
            <4>3. ASSUME NEW x \in ScoresOf(t)'
                  PROVE  x <= now
                <5>1. x \in ScoresOf(t) \/ x = ThreatScore(e.kind)
                    BY <1>10
                <5>2. CASE x \in ScoresOf(t)
                    <6>1. x <= rows[t].threat /\ rows[t].threat <= now /\ x \in 0..100
                        BY <3>5, <3>6, <3>7, <4>1, <5>2
                    <6>2. QED
                        BY <3>4, <4>2, <6>1
                <5>3. QED
                    BY <3>5, <4>1, <5>1, <5>2
            <4>4. QED
                BY <4>1, <4>3
        <3>10. rows'[t].count = Total(committed', LinesOf(t)') - 1
            BY <1>12, <2>4, <2>5, <3>3, <3>4, <3>6
        <3>11. QED
            BY <1>12, <3>8, <3>9, <3>10 DEF Exact
    <2>8. QED
        BY <2>6, <2>7
<1>13. QED
    BY <1>11, <1>12

(* Alone in service, a handler has seen the row as it is.                   *)
LEMMA RowSeenNext ==
    ASSUME BaseInv, AloneInv, ~overlapped, [Next]_vars, NEW g \in Handlers, RowSeen(g)
    PROVE  RowSeen(g)'
<1> SUFFICES ASSUME work'[g].step = "commit"
             PROVE  work'[g].row = IF EventOf(g)'.session \in DOMAIN rows'
                                   THEN rows'[EventOf(g)'.session] ELSE NoRow
    BY DEF RowSeen, EventOf
<1>1. work \in [Handlers -> Job]
    BY DEF BaseInv, WorkInv
<1>2. CASE work'[g] = work[g]
    <2>1. work[g] # Idle /\ g \in Busy
        BY <1>2, JobIs DEF Busy
    <2>2. ASSUME NEW h \in Handlers, NEW ok \in BOOLEAN, Leaves(h, ok)
          PROVE  FALSE
        <3>1. h = g
            BY <2>1, <2>2 DEF AloneInv, Busy, Leaves
        <3>2. work'[g] = Idle
            BY <1>1, <2>2, <3>1 DEF Leaves, Answer
        <3>3. QED
            BY <1>2, <2>1, <3>2
    <2>3. rows' = rows
        BY <2>2, WhoStores DEF Grows
    <2>4. EventOf(g)' = EventOf(g)
        BY <1>2, <2>1, EventStays
    <2>5. QED
        BY <1>2, <2>3, <2>4 DEF RowSeen
<1>3. CASE SelectRow(g)
    <2>1. EventOf(g)' = EventOf(g)
        BY <1>3, TurnKeepsLine, EventStays
    <2>2. DEFINE s == EventOf(g).session
                 row == IF s \in DOMAIN rows THEN rows[s] ELSE NoRow
    <2>3. work'[g] = [work[g] EXCEPT !.row = row, !.step = "commit"]
        BY <1>1, <1>3 DEF SelectRow, Continue
    <2>4. rows' = rows
        BY <1>3 DEF SelectRow, storeVars
    <2>5. HIDE DEF row
    <2>6. work'[g].row = row
        BY <1>1, <2>3 DEF Job
    <2>7. QED
        BY <2>1, <2>4, <2>6 DEF row
<1>4. CASE ReadIoc(g) \/ ReadIocFails(g) \/ WriteIoc(g) \/ WriteGraph(g)
    <2>1. work'[g].step \in {"get", "put", "graph", "select"}
        <3>1. CASE ReadIoc(g)
            BY <1>1, <3>1 DEF ReadIoc, Continue, Job
        <3>2. CASE ReadIocFails(g)
            BY <1>1, <3>2 DEF ReadIocFails, Continue, Job
        <3>3. CASE WriteIoc(g)
            BY <1>1, <3>3 DEF WriteIoc, Continue, Job
        <3>4. CASE WriteGraph(g)
            BY <1>1, <3>4 DEF WriteGraph, GoTo, Continue, Job
        <3>5. QED
            BY <1>4, <3>1, <3>2, <3>3, <3>4
    <2>2. QED
        BY <2>1
<1>5. CASE \E n \in Nat : Takes(g, n)
    <2>1. PICK n \in Nat : Takes(g, n)
        BY <1>5
    <2>2. work'[g] = NewJob(n) /\ NewJob(n).step = "get"
        BY <1>1, <2>1, TakenIsLine DEF Takes
    <2>3. QED
        BY <2>2
<1>6. CASE \E ok \in BOOLEAN : Leaves(g, ok)
    <2>1. work'[g] = Idle
        BY <1>1, <1>6 DEF Leaves, Answer
    <2>2. QED
        BY <2>1, JobIs
<1>7. QED
    BY <1>2, <1>3, <1>4, <1>5, <1>6, WhoMoves

(* Every step keeps the rows exact as long as handlers have not overlapped. *)
LEMMA ExactNext ==
    BaseInv /\ AloneInv /\ RowInv /\ ExactInv /\ [Next]_vars => ExactInv'
<1> SUFFICES ASSUME BaseInv, AloneInv, RowInv, ExactInv, [Next]_vars, ~overlapped'
             PROVE  (\A s \in DOMAIN rows' : Exact(s)') /\ (\A h \in Handlers : RowSeen(h)')
    BY DEF ExactInv
<1>1. ~overlapped /\ BaseInv'
    BY OverlapStays, BaseNext
<1>2. (\A s \in DOMAIN rows : Exact(s)) /\ (\A h \in Handlers : RowSeen(h))
    BY <1>1 DEF ExactInv
<1>3. \A h \in Handlers : RowSeen(h)'
    BY <1>1, <1>2, RowSeenNext
<1>4. ASSUME NEW s \in DOMAIN rows'
      PROVE  Exact(s)'
    <2>1. CASE UNCHANGED <<log, rows, committed>>
        <3>1. s \in DOMAIN rows /\ Exact(s)
            BY <1>2, <1>4, <2>1
        <3>2. LinesOf(s)' = LinesOf(s) /\ ScoresOf(s)' = ScoresOf(s)
            BY <2>1 DEF LinesOf, Lines, ScoresOf, CommittedOf
        <3>3. QED
            BY <2>1, <3>1, <3>2 DEF Exact
    <2>2. CASE Grows
        <3>1. s \in DOMAIN rows
            BY <1>4, <2>2 DEF Grows
        <3>2. QED
            BY <1>1, <1>2, <2>2, <3>1, ExactGrows
    <2>3. ASSUME NEW h \in Handlers, NEW ok \in BOOLEAN, Leaves(h, ok), Store(h)
          PROVE  Exact(s)'
        <3>1. log' = log
            BY <2>3 DEF Leaves
        <3>2. QED
            BY <1>1, <1>2, <1>4, <2>3, <3>1, ExactCommits
    <2>4. QED
        BY <2>1, <2>2, <2>3, WhoStores
<1>5. QED
    BY <1>3, <1>4

(* RowIsExact: until two requests overlap, no update of a row is lost,      *)
(* however the sessions of the estate are mixed in the log: a row counts    *)
(* every commit of its session and has the highest score of them.           *)
THEOREM RowsAreExact == Spec => []RowIsExact
<1>1. Init => BaseInv /\ AloneInv /\ RowInv /\ ExactInv
    <2> SUFFICES ASSUME Init
                 PROVE  BaseInv /\ AloneInv /\ RowInv /\ ExactInv
        OBVIOUS
    <2>1. /\ Lines = {} /\ DOMAIN rows = {} /\ Busy = {}
          /\ \A h \in Handlers : work[h].row = NoRow /\ work[h].step = "idle"
        BY JobIs DEF Init, SessionsInit, Lines, Nothing, Busy
    <2>2. QED
        BY <2>1, InitBase DEF RowInv, AloneInv, ExactInv, RowSeen
<1>2. /\ BaseInv /\ AloneInv /\ RowInv /\ ExactInv /\ [Next]_vars
      => (BaseInv /\ AloneInv /\ RowInv /\ ExactInv)'
    BY BaseNext, AloneNext, RowNext, ExactNext
<1>3. BaseInv /\ ExactInv => RowIsExact
    <2> SUFFICES ASSUME BaseInv, ExactInv, ~overlapped, NEW s \in DOMAIN rows
                 PROVE  /\ rows[s].count = FoldSet(LAMBDA n, sum : sum + committed[n], 0, LinesOf(s)) - 1
                        /\ rows[s].threat = Max({ThreatScore(log[n].kind) : n \in CommittedOf(s)})
        BY DEF RowIsExact
    <2>1. Exact(s)
        BY DEF ExactInv
    <2>2. FoldSet(LAMBDA n, sum : sum + committed[n], 0, LinesOf(s)) = Total(committed, LinesOf(s))
        <3>1. IsFiniteSet(LinesOf(s)) /\ \A n \in LinesOf(s) : committed[n] \in Int
            BY LinesFinite
        <3>2. Counted(committed, LinesOf(s)) = Total(committed, LinesOf(s))
            BY <3>1, CountedTotal
        <3>3. QED
            BY <3>2 DEF Counted
    <2>3. rows[s].threat = Max(ScoresOf(s))
        <3>1. PICK top : top = rows[s].threat
            OBVIOUS
        <3>2. top \in ScoresOf(s) /\ \A x \in ScoresOf(s) : top >= x /\ x \in 0..100
            <4>1. \A x \in ScoresOf(s) : x \in 0..100
                BY LinesFinite DEF ScoresOf, CommittedOf, LinesOf
            <4>2. QED
                BY <2>1, <3>1, <4>1 DEF Exact
        <3>3. \A x \in ScoresOf(s) : (\A y \in ScoresOf(s) : x >= y) => x = top
            BY <3>2
        <3>4. Max(ScoresOf(s)) = top
            BY <3>2, <3>3 DEF Max
        <3>5. QED
            BY <3>1, <3>4
    <2>4. QED
        BY <2>1, <2>2, <2>3 DEF Exact, ScoresOf
<1>4. QED
    BY <1>1, <1>2, <1>3, PTL DEF Spec

-----------------------------------------------------------------------------
(* From rows to visits.                                                     *)

(* Up to the next number is one more.                                       *)
LEMMA UptoNext ==
    ASSUME NEW k \in Nat
    PROVE  /\ 1..(k + 1) # {} /\ Max(1..(k + 1)) = k + 1
           /\ (1..(k + 1)) \ {k + 1} = 1..k
<1>1. \A y \in 1..(k + 1) : k + 1 >= y
  OBVIOUS
<1>2. Max(1..(k + 1)) \in 1..(k + 1) /\ \A y \in 1..(k + 1) : Max(1..(k + 1)) >= y
  BY <1>1 DEF Max
<1> QED
  BY <1>2

(* A row that an attacker's visits are made of.                             *)
Spans(R) == \A r \in R : r.started \in Nat /\ r.ended \in Nat /\ r.started <= r.ended

(* Of finitely many rows one starts last.                                   *)
LEMMA LastStarted ==
    ASSUME NEW R, IsFiniteSet(R), Spans(R), NEW T \in SUBSET R, T # {}
    PROVE  \E x \in T : \A y \in T : y.started <= x.started
<1> DEFINE G == {U \in SUBSET R : U # {} => \E x \in U : \A y \in U : y.started <= x.started}
<1>1. ASSUME NEW U \in SUBSET R, \A x \in U : U \ {x} \in G PROVE U \in G
    <2> SUFFICES ASSUME U # {} PROVE \E x \in U : \A y \in U : y.started <= x.started
        OBVIOUS
    <2>n. \A y \in U : y.started \in Nat
        BY DEF Spans
    <2>1. PICK x \in U : TRUE
        OBVIOUS
    <2>2. CASE U \ {x} = {}
        BY <2>1, <2>2, <2>n
    <2>3. CASE U \ {x} # {}
        <3>1. PICK z \in U \ {x} : \A y \in U \ {x} : y.started <= z.started
            BY <1>1, <2>1, <2>3
        <3>2. CASE z.started <= x.started
            BY <3>1, <3>2, <2>n
        <3>3. CASE x.started <= z.started
            BY <3>1, <3>3, <2>n
        <3>4. QED
            BY <3>2, <3>3, <2>n
    <2>4. QED
        BY <2>2, <2>3
<1>2. SUBSET R \subseteq G
    <2> HIDE DEF G
    <2>1. QED
        BY <1>1, SubsetsInduction
<1>3. QED
    BY <1>2

(* The rows can be put in the order of their starts.                        *)
Sorted(s, T) ==
    /\ s \in [1..Cardinality(T) -> T] /\ IsInjective(s)
    /\ \A i, j \in DOMAIN s : i < j => s[i].started <= s[j].started

(* The order sessions.sort asks for exists, and InOrder is one.             *)
LEMMA SortedExists ==
    ASSUME NEW R, IsFiniteSet(R), Spans(R)
    PROVE  Sorted(InOrder(R), R)
<1> DEFINE G == {T \in SUBSET R : \E s : Sorted(s, T)}
<1>1. ASSUME NEW T \in SUBSET R, \A x \in T : T \ {x} \in G PROVE T \in G
    <2>f. IsFiniteSet(T) /\ Cardinality(T) \in Nat
        BY FS_Subset, FS_CardinalityType
    <2>1. CASE T = {}
        <3>1. Cardinality(T) = 0 /\ 1..0 = {}
            BY <2>1, FS_EmptySet
        <3>2. Sorted([i \in 1..Cardinality(T) |-> i], T)
            BY <3>1, <2>1 DEF Sorted, IsInjective
        <3>3. QED
            BY <3>2
    <2>2. CASE T # {}
        <3>1. PICK x \in T : \A y \in T : y.started <= x.started
            BY <2>2, LastStarted
        <3>2. PICK s : Sorted(s, T \ {x})
            BY <1>1, <3>1
        <3> DEFINE n == Cardinality(T \ {x})
                   t == [i \in 1..n + 1 |-> IF i <= n THEN s[i] ELSE x]
        <3>3. n \in Nat /\ Cardinality(T) = n + 1
            <4>1. IsFiniteSet(T \ {x}) /\ Cardinality(T \ {x}) = Cardinality(T) - 1
                BY <2>f, <3>1, FS_RemoveElement
            <4>2. Cardinality(T \ {x}) \in Nat
                BY <4>1, FS_CardinalityType
            <4>3. QED
                BY <2>f, <4>1, <4>2
        <3>4. /\ s \in [1..n -> T \ {x}]
              /\ \A i, j \in 1..n : s[i] = s[j] => i = j
              /\ \A i, j \in 1..n : i < j => s[i].started <= s[j].started
            BY <3>2 DEF Sorted, IsInjective
        <3>5. /\ DOMAIN t = 1..n + 1 /\ t[n + 1] = x
              /\ \A i \in 1..n : t[i] = s[i] /\ s[i] \in T /\ s[i] # x
              /\ \A i \in 1..n + 1 : i \in 1..n \/ i = n + 1
            <4> HIDE DEF n
            <4>1. \A i \in 1..n + 1 : i \in 1..n \/ i = n + 1
                BY <3>3
            <4>2. \A i \in 1..n : i \in 1..n + 1 /\ i <= n
                BY <3>3
            <4>3. n + 1 \in 1..n + 1 /\ ~(n + 1 <= n)
                BY <3>3
            <4>4. \A i \in 1..n : s[i] \in T \ {x}
                BY <3>4
            <4>5. QED
                BY <4>1, <4>2, <4>3, <4>4
        <3> HIDE DEF n
        <3>6. t \in [1..n + 1 -> T]
            <4>1. \A i \in 1..n + 1 : t[i] \in T
                BY <3>1, <3>5
            <4> HIDE DEF t
            <4>2. t = [i \in 1..n + 1 |-> t[i]]
                BY DEF t
            <4>3. QED
                BY <4>1, <4>2
        <3> HIDE DEF t
        <3>7. \A i, j \in 1..n + 1 : t[i] = t[j] => i = j
            BY <3>3, <3>4, <3>5
        <3>8. \A i, j \in 1..n + 1 : i < j => t[i].started <= t[j].started
            <4> SUFFICES ASSUME NEW i \in 1..n + 1, NEW j \in 1..n + 1, i < j
                         PROVE  t[i].started <= t[j].started
                OBVIOUS
            <4>1. i \in 1..n
                BY <3>3
            <4>2. CASE j \in 1..n
                BY <3>4, <3>5, <4>1, <4>2
            <4>3. CASE j = n + 1
                BY <3>1, <3>5, <4>1, <4>3
            <4>4. QED
                BY <3>5, <4>2, <4>3
        <3>9. Sorted(t, T)
            BY <3>3, <3>5, <3>6, <3>7, <3>8 DEF Sorted, IsInjective
        <3>10. QED
            BY <3>9
    <2>3. QED
        BY <2>1, <2>2
<1>2. SUBSET R \subseteq G
    <2> HIDE DEF G
    <2>1. QED
        BY <1>1, SubsetsInduction
<1>3. \E s : Sorted(s, R)
    BY <1>2
<1>4. \E s \in [1..Cardinality(R) -> R] :
        IsInjective(s) /\ \A i, j \in DOMAIN s : i < j => s[i].started <= s[j].started
    BY <1>3 DEF Sorted
<1>5. QED
    BY <1>4, Zenon DEF InOrder, Sorted

(* All of them.                                                             *)
LEMMA SortedCovers ==
    ASSUME NEW R, IsFiniteSet(R), NEW s, Sorted(s, R)
    PROVE  \A r \in R : \E i \in 1..Cardinality(R) : s[i] = r
<1> DEFINE n == Cardinality(R)
           image == {s[i] : i \in 1..n}
<1>1. n \in Nat /\ IsFiniteSet(1..n) /\ Cardinality(1..n) = n
    BY FS_CardinalityType, FS_Interval
<1>2. s \in [1..n -> R] /\ \A i, j \in 1..n : s[i] = s[j] => i = j
    BY DEF Sorted, IsInjective
<1>3. s \in Injection(1..n, R)
    BY <1>2 DEF Injection, IsInjective
<1>4. s \in Surjection(1..n, R)
    BY <1>1, <1>3, FS_Injection
<1>5. QED
    BY <1>2, <1>4 DEF Surjection

(* What the loop over the rows may hold.                                    *)
Walks(a, R) ==
    [closed : SUBSET {CloseVisit(a, Q) : Q \in SUBSET R}, current : SUBSET R, lastEnd : Int]

(* A step of build_visits' loop stays in the types of the loop.             *)
LEMMA WalkIsTyped ==
    ASSUME NEW a, NEW R, Spans(R), NEW w \in Walks(a, R), NEW r \in R
    PROVE  StepOver(a, w, r) \in Walks(a, R)
<1>1. Max({r.ended, w.lastEnd}) \in Int
    <2>1. r.ended \in Int /\ w.lastEnd \in Int
        BY DEF Walks, Spans
    <2>2. QED
        BY <2>1, MaxOfTwo
<1>2. w.closed \cup {CloseVisit(a, w.current)} \in SUBSET {CloseVisit(a, Q) : Q \in SUBSET R}
    <2>1. w.current \in SUBSET R
        BY DEF Walks
    <2>2. QED
        BY <2>1 DEF Walks
<1>3. {r} \in SUBSET R /\ w.current \cup {r} \in SUBSET R
    BY DEF Walks
<1> DEFINE latest == Max({r.ended, w.lastEnd})
           visit == CloseVisit(a, w.current)
<1>4. StepOver(a, w, r) =
        IF w.current # {} /\ r.started - w.lastEnd > VisitGap
        THEN [closed |-> w.closed \cup {visit}, current |-> {r}, lastEnd |-> latest]
        ELSE [w EXCEPT !.current = @ \cup {r}, !.lastEnd = latest]
    BY DEF StepOver
<1>5. latest \in Int /\ w.closed \cup {visit} \in SUBSET {CloseVisit(a, Q) : Q \in SUBSET R}
    BY <1>1, <1>2
<1> HIDE DEF latest, visit
<1>6. /\ [closed |-> w.closed \cup {visit}, current |-> {r}, lastEnd |-> latest] \in Walks(a, R)
      /\ [w EXCEPT !.current = @ \cup {r}, !.lastEnd = latest] \in Walks(a, R)
    <2> DEFINE C == SUBSET {CloseVisit(a, Q) : Q \in SUBSET R}
    <2>1. w \in [closed : C, current : SUBSET R, lastEnd : Int]
        BY DEF Walks
    <2>2. w.closed \cup {visit} \in C /\ {r} \in SUBSET R /\ w.current \cup {r} \in SUBSET R
        BY <1>3, <1>5
    <2> HIDE DEF C
    <2>3. [w EXCEPT !.current = @ \cup {r}, !.lastEnd = latest]
              \in [closed : C, current : SUBSET R, lastEnd : Int]
        BY <2>1, <2>2, <1>5
    <2>4. [closed |-> w.closed \cup {visit}, current |-> {r}, lastEnd |-> latest]
              \in [closed : C, current : SUBSET R, lastEnd : Int]
        BY <2>2, <1>5
    <2>5. QED
        BY <2>3, <2>4 DEF Walks, C
<1>7. QED
    BY <1>4, <1>6

(* The loop, row by row.                                                    *)
Walked(w, a, s, n) ==
    /\ w[0] = Walk
    /\ \A k \in 0..n - 1 : w[k + 1] = StepOver(a, w[k], s[k + 1])

(* The fold of VisitsOf.                                                    *)
LastWalk(a, s) == FoldLeft(LAMBDA u, r : StepOver(a, u, r), Walk, s)

(* Folding the loop over the rows is taking its steps one by one.           *)
LEMMA WalkFolds ==
    ASSUME NEW a, NEW R, Spans(R), NEW n \in Nat, NEW s \in [1..n -> R]
    PROVE  \E w : Walked(w, a, s, n) /\ LastWalk(a, s) = w[n]
<1> DEFINE S == DOMAIN s
           Typ == Walks(a, R)
           stepAt == [p \in S \X Typ |-> StepOver(a, p[2], s[p[1]])]
           pick == [T \in SUBSET S |-> Max(T)]
           Solves(f) == f = [T \in SUBSET S |->
              IF T = {} THEN Walk ELSE StepOver(a, f[T \ {Max(T)}], s[Max(T)])]
           solution == CHOOSE f : Solves(f)
<1>1. IsFiniteSet(S) /\ S = 1..n
    BY FS_Interval
<1>2. \A T \in SUBSET S : T # {} => Max(T) \in T
    <2> DEFINE G == {U \in SUBSET S : U # {} => \E x \in U : \A y \in U : x >= y}
    <2>1. ASSUME NEW U \in SUBSET S, \A x \in U : U \ {x} \in G PROVE U \in G
        <3> SUFFICES ASSUME U # {} PROVE \E x \in U : \A y \in U : x >= y
            OBVIOUS
        <3>1. PICK x \in U : TRUE
            OBVIOUS
        <3>2. CASE U \ {x} = {}
            BY <3>1, <3>2, <1>1
        <3>3. CASE U \ {x} # {}
            <4>1. PICK z \in U \ {x} : \A y \in U \ {x} : z >= y
                BY <2>1, <3>1, <3>3
            <4>2. CASE z >= x
                BY <4>1, <4>2, <1>1
            <4>3. CASE x >= z
                BY <4>1, <4>3, <1>1
            <4>4. QED
                BY <4>2, <4>3, <1>1
        <3>4. QED
            BY <3>2, <3>3
    <2>2. SUBSET S \subseteq G
        <3>1. IsFiniteSet(S)
            BY <1>1
        <3> HIDE DEF G
        <3> HIDE DEF S
        <3>2. QED
            BY <3>1, <2>1, SubsetsInduction
    <2>3. QED
        BY <2>2 DEF Max
<1>3. Walk \in Typ
    BY DEF Walk, Walks
<1>4. stepAt \in [S \X Typ -> Typ]
    <2>1. ASSUME NEW p \in S \X Typ PROVE StepOver(a, p[2], s[p[1]]) \in Typ
        <3>1. p[2] \in Typ /\ s[p[1]] \in R
            OBVIOUS
        <3> HIDE DEF Typ
        <3>2. QED
            BY <3>1, WalkIsTyped DEF Typ
    <2> HIDE DEF Typ
    <2>2. QED
        BY <2>1
<1> HIDE DEF S, Typ
<1>5. PICK iter \in [SUBSET S -> Typ] : FoldEquation(iter, S, Walk, stepAt, pick)
    <2> HIDE DEF stepAt
    <2>1. \A T \in SUBSET S : T # {} => pick[T] \in T
        BY <1>2
    <2> HIDE DEF pick
    <2>2. QED
        BY <1>1, <1>3, <1>4, <2>1, FoldExists
<1>6. \A T \in SUBSET S :
         iter[T] = IF T = {} THEN Walk ELSE StepOver(a, iter[T \ {Max(T)}], s[Max(T)])
    <2> SUFFICES ASSUME NEW T \in SUBSET S
                 PROVE  iter[T] = IF T = {} THEN Walk
                                  ELSE StepOver(a, iter[T \ {Max(T)}], s[Max(T)])
        OBVIOUS
    <2>1. iter[T] = IF T = {} THEN Walk ELSE stepAt[<<pick[T], iter[T \ {pick[T]}]>>]
        BY <1>5 DEF FoldEquation
    <2>2. T # {} => /\ pick[T] = Max(T) /\ Max(T) \in S /\ iter[T \ {Max(T)}] \in Typ
        BY <1>2
    <2>3. QED
        BY <2>1, <2>2
<1>7. Solves(iter)
    <2>1. iter = [T \in SUBSET S |-> iter[T]]
        BY <1>5
    <2>2. QED
        BY <2>1, <1>6, Zenon
<1>8. LastWalk(a, s) = solution[DOMAIN s]
    BY DEF LastWalk, FoldLeft, MapThenFoldSet, S
<1> HIDE DEF Solves
<1>9. Solves(solution)
    BY <1>7, Zenon
<1> HIDE DEF solution
<1>10. \A T \in SUBSET S :
         solution[T] = IF T = {} THEN Walk
                       ELSE StepOver(a, solution[T \ {Max(T)}], s[Max(T)])
    BY <1>9 DEF Solves
<1> DEFINE w == [k \in 0..n |-> solution[1..k]]
<1>11. w[0] = Walk
    <2>1. 1..0 = {} /\ {} \in SUBSET S /\ 0 \in 0..n
        OBVIOUS
    <2>2. QED
        BY <2>1, <1>10
<1>12. ASSUME NEW k \in 0..n - 1 PROVE w[k + 1] = StepOver(a, w[k], s[k + 1])
    <2>1. k \in Nat /\ k \in 0..n /\ k + 1 \in 0..n /\ 1..(k + 1) \in SUBSET S
        BY <1>1
    <2>2. solution[1..(k + 1)] = StepOver(a, solution[1..k], s[k + 1])
        BY <2>1, <1>10, UptoNext
    <2>3. QED
        BY <2>1, <2>2
<1>13. w[n] = solution[DOMAIN s]
    BY <1>1 DEF S
<1> HIDE DEF w
<1>14. QED
    BY <1>8, <1>11, <1>12, <1>13 DEF Walked

(* What makes a set of rows a visit: it starts when the attacker, of whom   *)
(* R is all there is, has been away, and was never away until it ended.     *)
Fresh(R, t) == \A p \in R : p.started >= t \/ p.ended + VisitGap < t
Bridged(R, r) == \E p \in R : p.started < r.started /\ p.ended >= r.started - VisitGap
Kept(R, Q) ==
    /\ Q \in SUBSET R
    /\ \E f \in Q :
        /\ Fresh(R, f.started)
        /\ \A q \in Q : f.started <= q.started
        /\ \A q \in Q : q.started = f.started \/ Bridged(R, q)
    /\ \E l \in Q : \A q \in Q : q.ended <= l.ended
Before(Q, P) == \A q \in Q, p \in P : q.ended + VisitGap < p.started

(* The loop after k rows.                                                   *)
Seen(s, k) == {s[i] : i \in 1..k}
Going(R, s, k, w) ==
    /\ Kept(R, w.current)
    /\ \E p \in w.current : p.ended = w.lastEnd
    /\ \A p \in Seen(s, k) : p.ended <= w.lastEnd
Parted(R, a, w) ==
    /\ \A v \in w.closed : v = CloseVisit(a, v.rows) /\ Kept(R, v.rows)
    /\ \A v \in w.closed : Before(v.rows, w.current)
    /\ \A u, v \in w.closed : u = v \/ Before(u.rows, v.rows) \/ Before(v.rows, u.rows)
Together(s, k, w) == (UNION {v.rows : v \in w.closed}) \cup w.current = Seen(s, k)

(* The next row is one more row seen.                                       *)
LEMMA SeenNext ==
    ASSUME NEW s, NEW k \in Nat
    PROVE  Seen(s, k + 1) = Seen(s, k) \cup {s[k + 1]}
<1>1. \A i : i \in 1..k + 1 <=> i \in 1..k \/ i = k + 1
    OBVIOUS
<1>2. QED
    BY <1>1 DEF Seen

(* A row of one more, in the order of the starts.                           *)
LEMMA SeenIs ==
    ASSUME NEW R, IsFiniteSet(R), Spans(R), NEW s, Sorted(s, R), NEW k \in Nat, k < Cardinality(R)
    PROVE  /\ s[k + 1] \in R
           /\ Seen(s, k) \in SUBSET R
           /\ \A p \in Seen(s, k) : p.started <= s[k + 1].started
           /\ \A p \in R : p \in Seen(s, k) \/ p.started >= s[k + 1].started
<1> DEFINE n == Cardinality(R)
<1>1. n \in Nat
    BY FS_CardinalityType
<1>2. /\ s \in [1..n -> R] /\ DOMAIN s = 1..n
      /\ \A i, j \in 1..n : i < j => s[i].started <= s[j].started
    BY DEF Sorted
<1>3. \A p \in R : \E i \in 1..n : s[i] = p
    BY SortedCovers
<1> HIDE DEF n
<1>4. k < n
    BY DEF n
<1>5. k + 1 \in 1..n /\ \A i \in 1..k : i \in 1..n /\ i < k + 1
    BY <1>1, <1>4
<1>6. s[k + 1] \in R /\ s[k + 1].started \in Nat
    BY <1>2, <1>5 DEF Spans
<1>7. Seen(s, k) \in SUBSET R /\ \A p \in Seen(s, k) : p.started <= s[k + 1].started
    BY <1>2, <1>5 DEF Seen
<1>8. ASSUME NEW p \in R, p \notin Seen(s, k)
      PROVE  p.started >= s[k + 1].started
    <2>1. PICK i \in 1..n : s[i] = p
        BY <1>3
    <2>2. i \notin 1..k
        BY <1>8, <2>1 DEF Seen
    <2>3. i = k + 1 \/ k + 1 < i
        BY <2>2, <1>1
    <2>4. p.started \in Nat
        BY DEF Spans
    <2>5. CASE i = k + 1
        BY <2>1, <2>5, <1>6, <2>4
    <2>6. CASE k + 1 < i
        <3>1. s[k + 1].started <= s[i].started
            BY <1>2, <1>5, <2>6
        <3>2. QED
            BY <2>1, <3>1, <1>6, <2>4
    <2>7. QED
        BY <2>3, <2>5, <2>6
<1>9. QED
    BY <1>6, <1>7, <1>8

(* A row that starts within the gap of the latest end continues the visit.  *)
LEMMA GoesOn ==
    ASSUME NEW R, Spans(R), NEW r \in R, NEW Q, NEW e \in Int, Kept(R, Q),
           \A q \in Q : q.started <= r.started /\ q.ended <= e,
           \E p \in Q : p.ended = e, r.started - e <= VisitGap
    PROVE  Kept(R, Q \cup {r})
<1>1. PICK f \in Q : /\ Fresh(R, f.started)
                     /\ \A q \in Q : f.started <= q.started
                     /\ \A q \in Q : q.started = f.started \/ Bridged(R, q)
    BY DEF Kept
<1>2. PICK p \in Q : p.ended = e
    OBVIOUS
<1>3. Q \in SUBSET R
    BY DEF Kept
<1>4. /\ f \in R /\ p \in R
      /\ \A q \in R : q.started \in Nat /\ q.ended \in Nat
    BY <1>1, <1>2, <1>3 DEF Spans
<1>5. VisitGap \in Nat
    BY VisitGapAssumption
<1>6. r.started = f.started \/ Bridged(R, r)
    <2>1. p.started <= r.started /\ p.ended >= r.started - VisitGap
        BY <1>2, <1>4, <1>5
    <2>2. CASE p.started < r.started
        BY <2>1, <2>2, <1>4 DEF Bridged
    <2>3. CASE p.started = r.started
        <3>1. p.started = f.started \/ Bridged(R, p)
            BY <1>1, <1>2
        <3>2. Bridged(R, p) => Bridged(R, r)
            BY <2>3 DEF Bridged
        <3>3. QED
            BY <2>3, <3>1, <3>2
    <2>4. QED
        BY <2>1, <2>2, <2>3, <1>4
<1>7. f.started <= r.started
    BY <1>1
<1>8. \E l \in Q \cup {r} : \A q \in Q \cup {r} : q.ended <= l.ended
    <2>1. CASE r.ended <= e
        BY <2>1, <1>2
    <2>2. CASE e <= r.ended
        <3>1. \A q \in Q : q.ended <= r.ended
            BY <2>2, <1>3, <1>4
        <3>2. r.ended <= r.ended
            BY <1>4
        <3>3. QED
            BY <3>1, <3>2
    <2>3. QED
        BY <2>1, <2>2, <1>4
<1>9. QED
    BY <1>1, <1>3, <1>6, <1>7, <1>8 DEF Kept

(* A row that starts when the attacker has been away is a visit alone.      *)
LEMMA StartsAfresh ==
    ASSUME NEW R, Spans(R), NEW r \in R,
           \A p \in R : p.started >= r.started \/ p.ended + VisitGap < r.started
    PROVE  Kept(R, {r})
<1>1. r.started \in Nat /\ r.ended \in Nat
    BY DEF Spans
<1>2. QED
    BY <1>1 DEF Kept, Fresh

(* The invariant of build_visits' loop: the current rows go on as a visit,  *)
(* the closed visits are apart, and together they are the rows seen.        *)
Loop(R, a, s, k, w) == Going(R, s, k, w) /\ Parted(R, a, w) /\ Together(s, k, w)

(* The two things that may be done with a row.                              *)
Stepped(a, w, r, to) ==
    /\ to.lastEnd = Max({r.ended, w.lastEnd})
    /\ w.current # {} /\ r.started - w.lastEnd > VisitGap =>
        /\ to.closed = w.closed \cup {CloseVisit(a, w.current)}
        /\ to.current = {r}
    /\ ~(w.current # {} /\ r.started - w.lastEnd > VisitGap) =>
        /\ to.closed = w.closed
        /\ to.current = w.current \cup {r}

(* StepOver appends to the current rows, or closes their visit and starts   *)
(* with the row.                                                            *)
LEMMA TwoWays ==
    ASSUME NEW a, NEW R, NEW w \in Walks(a, R), NEW r
    PROVE  Stepped(a, w, r, StepOver(a, w, r))
<1> DEFINE latest == Max({r.ended, w.lastEnd})
           quiet == w.current # {} /\ r.started - w.lastEnd > VisitGap
           visit == CloseVisit(a, w.current)
<1>1. StepOver(a, w, r) =
        IF quiet
        THEN [closed |-> w.closed \cup {visit}, current |-> {r}, lastEnd |-> latest]
        ELSE [w EXCEPT !.current = @ \cup {r}, !.lastEnd = latest]
    BY DEF StepOver
<1> DEFINE C == SUBSET {CloseVisit(a, Q) : Q \in SUBSET R}
<1>2. w \in [closed : C, current : SUBSET R, lastEnd : Int]
    BY DEF Walks
<1> HIDE DEF latest, quiet, visit, C
<1>3. CASE quiet
    BY <1>1, <1>3 DEF latest, quiet, visit, Stepped
<1>4. CASE ~quiet
    <2>1. StepOver(a, w, r) = [w EXCEPT !.current = w.current \cup {r}, !.lastEnd = latest]
        BY <1>1, <1>2, <1>4
    <2>2. /\ StepOver(a, w, r).closed = w.closed
          /\ StepOver(a, w, r).current = w.current \cup {r}
          /\ StepOver(a, w, r).lastEnd = latest
        BY <2>1, <1>2
    <2>3. QED
        BY <2>2, <1>4 DEF latest, quiet, Stepped
<1>5. QED
    BY <1>3, <1>4 DEF quiet

(* The invariant holds after the first row.                                 *)
LEMMA LoopStarts ==
    ASSUME NEW a, NEW R, IsFiniteSet(R), Spans(R), R # {}, NEW s, Sorted(s, R)
    PROVE  Loop(R, a, s, 1, StepOver(a, Walk, s[1]))
<1> DEFINE r == s[1]
           w == StepOver(a, Walk, r)
<1>1. 0 \in Nat /\ 0 < Cardinality(R) /\ 0 + 1 = 1
    <2>1. Cardinality(R) \in Nat /\ Cardinality(R) # 0
        BY FS_CardinalityType, FS_EmptySet
    <2>2. QED
        BY <2>1
<1>2. Seen(s, 0) = {}
    BY DEF Seen
<1>3. r \in R /\ \A p \in R : p.started >= r.started
    BY <1>1, <1>2, SeenIs
<1>4. r.started \in Nat /\ r.ended \in Nat
    BY <1>3 DEF Spans
<1>5. Seen(s, 1) = {r}
    BY <1>1, <1>2, SeenNext
<1> HIDE DEF r
<1>6. w.closed = {} /\ w.current = {r} /\ w.lastEnd = r.ended
    <2>1. Walk \in Walks(a, R) /\ Walk.closed = {} /\ Walk.current = {} /\ Walk.lastEnd = -1
        BY DEF Walk, Walks
    <2>2. /\ w.lastEnd = Max({r.ended, Walk.lastEnd})
          /\ w.closed = Walk.closed /\ w.current = Walk.current \cup {r}
        <3>1. Stepped(a, Walk, r, w)
            BY <2>1, TwoWays
        <3>2. QED
            BY <2>1, <3>1 DEF Stepped
    <2>3. Max({r.ended, -1}) = r.ended
        <3>1. r.ended \in Int /\ -1 \in Int /\ r.ended > -1
            BY <1>4
        <3>2. /\ Max({r.ended, -1}) \in {r.ended, -1}
              /\ Max({r.ended, -1}) >= r.ended
            BY <3>1, MaxOfTwo
        <3>3. QED
            BY <3>1, <3>2
    <2>4. QED
        BY <2>1, <2>2, <2>3
<1> HIDE DEF w
<1>7. Kept(R, {r})
    BY <1>3, StartsAfresh
<1>8. Going(R, s, 1, w)
    BY <1>4, <1>5, <1>6, <1>7 DEF Going
<1>9. Parted(R, a, w) /\ Together(s, 1, w)
    <2>1. (UNION {v.rows : v \in w.closed}) = {}
        BY <1>6
    <2>2. QED
        BY <1>5, <1>6, <2>1 DEF Parted, Together
<1>10. QED
    BY <1>8, <1>9 DEF Loop, r, w

(* Each row keeps the invariant. The rows seen start no later than it and   *)
(* the rest no earlier, so when the latest end seen lies more than the gap  *)
(* before it, the attacker was away until then.                             *)
LEMMA LoopNext ==
    ASSUME NEW a, NEW R, IsFiniteSet(R), Spans(R), NEW s, Sorted(s, R),
           NEW k \in Nat \ {0}, k < Cardinality(R),
           NEW w \in Walks(a, R), Loop(R, a, s, k, w)
    PROVE  Loop(R, a, s, k + 1, StepOver(a, w, s[k + 1]))
<1> DEFINE r == s[k + 1]
           to == StepOver(a, w, r)
           quiet == w.current # {} /\ r.started - w.lastEnd > VisitGap
<1>1. /\ r \in R /\ Seen(s, k) \in SUBSET R
      /\ \A p \in Seen(s, k) : p.started <= r.started
      /\ \A p \in R : p \in Seen(s, k) \/ p.started >= r.started
    BY SeenIs
<1>2. Seen(s, k + 1) = Seen(s, k) \cup {r}
    BY SeenNext
<1>3. /\ to.lastEnd = Max({r.ended, w.lastEnd})
      /\ quiet => to.closed = w.closed \cup {CloseVisit(a, w.current)} /\ to.current = {r}
      /\ ~quiet => to.closed = w.closed /\ to.current = w.current \cup {r}
    <2> HIDE DEF r
    <2>1. Stepped(a, w, r, to)
        BY TwoWays
    <2>2. QED
        BY <2>1 DEF Stepped
<1>4. \A p \in R : p.started \in Nat /\ p.ended \in Nat /\ p.started <= p.ended
    BY DEF Spans
<1>5. VisitGap \in Nat /\ w.lastEnd \in Int /\ w.current \in SUBSET R
    BY VisitGapAssumption DEF Walks
<1>6. to.lastEnd \in {r.ended, w.lastEnd} /\ to.lastEnd >= r.ended /\ to.lastEnd >= w.lastEnd
    <2>1. r.ended \in Int /\ w.lastEnd \in Int
        BY <1>1, <1>4, <1>5
    <2>2. to.lastEnd = Max({r.ended, w.lastEnd})
        BY <1>3
    <2> HIDE DEF r, to, quiet
    <2>3. QED
        BY <2>1, <2>2, MaxOfTwo
<1>7. /\ Kept(R, w.current)
      /\ \E p \in w.current : p.ended = w.lastEnd
      /\ \A p \in Seen(s, k) : p.ended <= w.lastEnd
    BY DEF Loop, Going
<1>8. /\ \A v \in w.closed : v = CloseVisit(a, v.rows) /\ Kept(R, v.rows)
      /\ \A v \in w.closed : Before(v.rows, w.current)
      /\ \A u, v \in w.closed : u = v \/ Before(u.rows, v.rows) \/ Before(v.rows, u.rows)
    BY DEF Loop, Parted
<1>9. (UNION {v.rows : v \in w.closed}) \cup w.current = Seen(s, k)
    BY DEF Loop, Together
<1>10. w.current \subseteq Seen(s, k) /\ \A v \in w.closed : v.rows \subseteq Seen(s, k)
    BY <1>9
<1>11. CloseVisit(a, w.current).rows = w.current
    BY DEF CloseVisit
<1> HIDE DEF r, to
<1>12. \A p \in Seen(s, k + 1) : p.ended <= to.lastEnd
    <2>1. to.lastEnd \in Int
        BY <1>1, <1>4, <1>5, <1>6
    <2>2. \A p \in Seen(s, k) : p.ended \in Nat
        BY <1>1, <1>4
    <2>3. QED
        BY <1>2, <1>5, <1>6, <1>7, <2>1, <2>2
<1>13. CASE quiet
    <2>1. r.started > w.lastEnd + VisitGap /\ r.started \in Nat /\ r.ended \in Nat /\ r.ended >= r.started
        BY <1>1, <1>4, <1>5, <1>13
    <2>2. to.lastEnd = r.ended
        BY <1>5, <1>6, <2>1
    <2>3. \A p \in Seen(s, k) : p.ended + VisitGap < r.started
        <3>1. \A p \in Seen(s, k) : p.ended \in Nat /\ p.ended <= w.lastEnd
            BY <1>1, <1>4, <1>7
        <3>2. QED
            BY <3>1, <2>1, <1>5
    <2>4. Kept(R, {r})
        BY <1>1, <2>3, StartsAfresh
    <2>5. Going(R, s, k + 1, to)
        BY <1>3, <1>12, <1>13, <2>2, <2>4 DEF Going
    <2>6. \A v \in to.closed : v = CloseVisit(a, v.rows) /\ Kept(R, v.rows) /\ v.rows \subseteq Seen(s, k)
        BY <1>3, <1>7, <1>8, <1>10, <1>11, <1>13
    <2>7. \A v \in to.closed : Before(v.rows, to.current)
        BY <1>3, <1>13, <2>3, <2>6 DEF Before
    <2>8. \A u, v \in to.closed : u = v \/ Before(u.rows, v.rows) \/ Before(v.rows, u.rows)
        BY <1>3, <1>8, <1>11, <1>13
    <2>9. Together(s, k + 1, to)
        <3>1. UNION {v.rows : v \in to.closed} = (UNION {v.rows : v \in w.closed}) \cup w.current
            BY <1>3, <1>11, <1>13
        <3>2. QED
            BY <1>2, <1>3, <1>9, <1>13, <3>1 DEF Together
    <2>10. QED
        BY <2>5, <2>6, <2>7, <2>8, <2>9 DEF Loop, Parted, to, r
<1>14. CASE ~quiet
    <2>1. r.started - w.lastEnd <= VisitGap /\ r.started \in Nat
        BY <1>1, <1>4, <1>5, <1>7, <1>14
    <2>2. Kept(R, w.current \cup {r})
        <3>1. \A q \in w.current : q.started <= r.started /\ q.ended <= w.lastEnd
            BY <1>1, <1>7, <1>10
        <3>2. QED
            BY <1>1, <1>5, <1>7, <2>1, <3>1, GoesOn
    <2>3. \E p \in w.current \cup {r} : p.ended = to.lastEnd
        BY <1>6, <1>7
    <2>4. Going(R, s, k + 1, to)
        BY <1>3, <1>12, <1>14, <2>2, <2>3 DEF Going
    <2>5. \A v \in to.closed : Before(v.rows, to.current)
        <3>1. PICK c \in w.current : TRUE
            BY <1>7
        <3>2. c \in R /\ c.started <= r.started
            BY <3>1, <1>1, <1>10
        <3>3. ASSUME NEW v \in w.closed, NEW q \in v.rows
              PROVE  q.ended + VisitGap < r.started
            <4>1. q.ended + VisitGap < c.started
                BY <1>8, <3>1, <3>3 DEF Before
            <4>2. q \in R
                BY <1>1, <1>10, <3>3
            <4>3. q.ended \in Nat /\ c.started \in Nat
                BY <1>4, <3>2, <4>2
            <4>4. QED
                BY <4>1, <4>3, <3>2, <2>1, <1>5
        <3>4. QED
            BY <1>3, <1>8, <1>14, <3>3 DEF Before
    <2>6. Parted(R, a, to)
        BY <1>3, <1>8, <1>14, <2>5 DEF Parted
    <2>7. Together(s, k + 1, to)
        BY <1>2, <1>3, <1>9, <1>14 DEF Together
    <2>8. QED
        BY <2>4, <2>6, <2>7 DEF Loop, to, r
<1>15. QED
    BY <1>13, <1>14

(* The visits of an attacker with these rows.                               *)
Returns(a, R, visits) ==
    /\ \A v \in visits : v = CloseVisit(a, v.rows) /\ Kept(R, v.rows)
    /\ \A u, v \in visits : u = v \/ Before(u.rows, v.rows) \/ Before(v.rows, u.rows)
    /\ UNION {v.rows : v \in visits} = R

(* When all rows are seen, closing the current rows gives the visits.       *)
LEMMA LoopEnds ==
    ASSUME NEW a, NEW R, NEW s, NEW k, NEW w, Loop(R, a, s, k, w), Seen(s, k) = R
    PROVE  Returns(a, R, w.closed \cup {CloseVisit(a, w.current)})
<1> DEFINE visit == CloseVisit(a, w.current)
           visits == w.closed \cup {visit}
<1>1. visit.rows = w.current
    BY DEF CloseVisit
<1>2. /\ \A v \in w.closed : v = CloseVisit(a, v.rows) /\ Kept(R, v.rows)
      /\ \A v \in w.closed : Before(v.rows, w.current)
      /\ \A u, v \in w.closed : u = v \/ Before(u.rows, v.rows) \/ Before(v.rows, u.rows)
      /\ Kept(R, w.current)
      /\ (UNION {v.rows : v \in w.closed}) \cup w.current = R
    BY DEF Loop, Going, Parted, Together
<1>3. visit = CloseVisit(a, visit.rows)
    BY <1>1
<1> HIDE DEF visit
<1>4. \A v \in visits : v = CloseVisit(a, v.rows) /\ Kept(R, v.rows)
    BY <1>1, <1>2, <1>3
<1>5. \A u, v \in visits : u = v \/ Before(u.rows, v.rows) \/ Before(v.rows, u.rows)
    BY <1>1, <1>2
<1>6. UNION {v.rows : v \in visits} = R
    BY <1>1, <1>2
<1>7. QED
    BY <1>4, <1>5, <1>6 DEF Returns, visit

(* build_visits returns the visits of an attacker: each starts where the    *)
(* rows left a quiet time, the visits are apart, and each row is in one.    *)
LEMMA VisitsReturned ==
    ASSUME NEW a, NEW R, IsFiniteSet(R), Spans(R), R # {}
    PROVE  Returns(a, R, VisitsOf(a, R))
<1> DEFINE s == InOrder(R)
           n == Cardinality(R)
           last == LastWalk(a, s)
<1>1. Sorted(s, R)
    BY SortedExists
<1>2. VisitsOf(a, R) = last.closed \cup {CloseVisit(a, last.current)}
    BY DEF VisitsOf, LastWalk
<1> HIDE DEF s, n
<1>3. n \in Nat /\ n # 0 /\ s \in [1..n -> R]
    BY <1>1, FS_CardinalityType, FS_EmptySet DEF Sorted, n
<1>4. PICK w : Walked(w, a, s, n) /\ last = w[n]
    BY <1>3, WalkFolds
<1> HIDE DEF last
<1>5. w[0] = Walk /\ \A k \in 0..n - 1 : w[k + 1] = StepOver(a, w[k], s[k + 1])
    BY <1>4 DEF Walked
<1> DEFINE G(k) == k < n => w[k + 1] \in Walks(a, R) /\ Loop(R, a, s, k + 1, w[k + 1])
           Good == {k \in Nat : G(k)}
<1>6. ASSUME NEW k \in Nat, k < n
      PROVE  s[k + 1] \in R /\ w[k + 1] = StepOver(a, w[k], s[k + 1])
    <2>1. k + 1 \in 1..n /\ k \in 0..n - 1
        BY <1>3, <1>6
    <2>2. QED
        BY <2>1, <1>3, <1>5
<1>7. 0 \in Good
    <2>1. 0 < n /\ 0 + 1 = 1
        BY <1>3
    <2>2. Walk \in Walks(a, R)
        BY DEF Walk, Walks
    <2>3. s[1] \in R /\ w[1] = StepOver(a, Walk, s[1])
        BY <1>5, <1>6, <2>1
    <2>4. w[1] \in Walks(a, R)
        BY <2>2, <2>3, WalkIsTyped
    <2>5. Loop(R, a, s, 1, w[1])
        BY <1>1, <2>3, LoopStarts
    <2>6. QED
        BY <2>1, <2>4, <2>5
<1>8. ASSUME NEW k \in Nat, k \in Good
      PROVE  k + 1 \in Good
    <2> SUFFICES ASSUME k + 1 < n
                 PROVE  w[(k + 1) + 1] \in Walks(a, R) /\ Loop(R, a, s, (k + 1) + 1, w[(k + 1) + 1])
        OBVIOUS
    <2>1. k < n /\ k + 1 \in Nat \ {0}
        BY <1>3
    <2>2. w[k + 1] \in Walks(a, R) /\ Loop(R, a, s, k + 1, w[k + 1])
        BY <1>8, <2>1
    <2>3. PICK m \in Nat \ {0} : m = k + 1
        BY <2>1
    <2>4. s[m + 1] \in R /\ w[m + 1] = StepOver(a, w[m], s[m + 1])
        BY <1>6, <2>3
    <2>5. w[m + 1] \in Walks(a, R)
        BY <2>2, <2>3, <2>4, WalkIsTyped
    <2>6. Loop(R, a, s, m + 1, w[m + 1])
        <3>1. m < Cardinality(R)
            BY <2>3 DEF n
        <3>2. QED
            BY <1>1, <2>2, <2>3, <2>4, <3>1, LoopNext
    <2>7. QED
        BY <2>3, <2>5, <2>6
<1>9. Loop(R, a, s, n, w[n])
    <2>1. Nat \subseteq Good
        <3> HIDE DEF Good
        <3>1. QED
            BY <1>7, <1>8, NumbersInduction
    <2>2. n - 1 \in Good /\ n - 1 < n /\ (n - 1) + 1 = n
        BY <2>1, <1>3
    <2>3. QED
        BY <2>2
<1>10. Seen(s, n) = R
    BY <1>1, <1>3, SortedCovers DEF Seen, n
<1>11. QED
    BY <1>2, <1>4, <1>9, <1>10, LoopEnds

(* When a visit started and ended.                                          *)
LEMMA VisitEnds ==
    ASSUME NEW a, NEW R, Spans(R), NEW Q, Kept(R, Q)
    PROVE  /\ CloseVisit(a, Q).attacker = a /\ CloseVisit(a, Q).rows = Q
           /\ \E f \in Q :
                /\ CloseVisit(a, Q).started = f.started
                /\ Fresh(R, f.started)
                /\ \A q \in Q : q.started = f.started \/ Bridged(R, q)
           /\ \E l \in Q : CloseVisit(a, Q).ended = l.ended
<1>1. \A q \in Q : q \in R /\ q.started \in Nat /\ q.ended \in Nat
    BY DEF Kept, Spans
<1>2. PICK f \in Q : /\ Fresh(R, f.started)
                     /\ \A q \in Q : f.started <= q.started
                     /\ \A q \in Q : q.started = f.started \/ Bridged(R, q)
    BY DEF Kept
<1>3. PICK l \in Q : \A q \in Q : q.ended <= l.ended
    BY DEF Kept
<1>4. Min({r.started : r \in Q}) = f.started
    <2>1. PICK S : S = {r.started : r \in Q}
        OBVIOUS
    <2>2. PICK t : t = f.started
        OBVIOUS
    <2>3. t \in S /\ \A x \in S : t <= x /\ x \in Nat
        BY <1>1, <1>2, <2>1, <2>2
    <2>4. Min(S) \in S /\ \A x \in S : Min(S) <= x
        BY <2>3 DEF Min
    <2>5. Min(S) \in Nat /\ t \in Nat /\ Min(S) <= t /\ t <= Min(S)
        BY <2>3, <2>4
    <2>6. QED
        BY <2>1, <2>2, <2>5
<1>5. Max({r.ended : r \in Q}) \in {r.ended : r \in Q}
    <2>1. l.ended \in {r.ended : r \in Q} /\ \A x \in {r.ended : r \in Q} : l.ended >= x
        BY <1>1, <1>3
    <2>2. QED
        BY <2>1 DEF Max
<1>6. /\ CloseVisit(a, Q).attacker = a /\ CloseVisit(a, Q).rows = Q
      /\ CloseVisit(a, Q).started = Min({r.started : r \in Q})
      /\ CloseVisit(a, Q).ended = Max({r.ended : r \in Q})
    BY DEF CloseVisit
<1>7. QED
    BY <1>2, <1>4, <1>5, <1>6

-----------------------------------------------------------------------------
(* The order of the log.                                                    *)

(* A session begins with "connect", and the events are in the order of time.*)
Begun(s) == \E m \in Lines : log[m].session = s /\ log[m].kind = "connect"
ConnInv == \A s \in Sessions :
    /\ conn[s] = "none" => process[s] = "none"
    /\ conn[s] # "none" => Begun(s)
OrderInv == \A n \in Lines :
    /\ log[n].at <= clock
    /\ \A m \in Lines : m <= n => log[m].at <= log[n].at
    /\ \E m \in Lines : m <= n /\ log[m].session = log[n].session /\ log[m].kind = "connect"

(* What the sessions do in a step of the hub.                               *)
LEMMA WhatSessionsDo ==
    ASSUME [Next]_vars
    PROVE  (\E s \in Sessions : SessionStep(s)) \/ Tick \/ UNCHANGED sessionVars
<1>1. CASE SessionsMove \/ TimePasses \/ UNCHANGED vars
    BY <1>1 DEF SessionsMove, TimePasses, vars
<1>2. CASE ShipperStep \/ TimesOut
    BY <1>2 DEF ShipperStep, PostNext, PostAgain, Post, TimesOut
<1>3. ASSUME NEW h \in Handlers, HandlerStep(h)
      PROVE  UNCHANGED sessionVars
    BY <1>3 DEF HandlerStep, ReadIoc, WriteIoc, WriteGraph, SelectRow, Commit, Store, InsertCollides
<1>4. ASSUME NEW h \in Handlers, HandlerFault(h)
      PROVE  UNCHANGED sessionVars
    BY <1>4 DEF HandlerFault, ReadIocFails, GraphFails, StoreFails, PublishFails, Store
<1>5. QED
    BY <1>1, <1>2, <1>3, <1>4 DEF Next

(* A line of a kind is added to the log, a fingerprint after the version.   *)
Writes(s, kind) ==
    \/ \E by : EmitAs(s, kind, by)
    \/ /\ kind = "kex"
       /\ \E one, two : log' = log \o <<Build(s, "version", one), Build(s, "kex", two)>>

(* A session that is not connected yet has nothing to write but "connect".  *)
LEMMA WhatIsWritten ==
    ASSUME StateTypes, NEW s \in Sessions, SessionStep(s), ConnInv
    PROVE  /\ clock' = clock
           /\ \A t \in Sessions : t # s => conn'[t] = conn[t] /\ process'[t] = process[t]
           /\ \/ conn[s] = "none" /\ conn'[s] # "none" /\ Writes(s, "connect")
              \/ /\ conn[s] # "none" /\ conn'[s] # "none"
                 /\ log' = log \/ \E kind \in Kinds : Writes(s, kind)
              \/ /\ conn'[s] = conn[s] /\ process'[s] = process[s] /\ log' = log
<1>1. /\ conn \in [Sessions -> {"none", "open", "lost"}]
      /\ process \in [Sessions -> {"none", "started", "bridged", "done"}]
    BY DEF StateTypes
<1>2. process[s] # "none" => conn[s] # "none"
    BY DEF ConnInv
<1>3. ASSUME NEW kind, Emit(s, kind)
      PROVE  Writes(s, kind)
    BY <1>3 DEF Emit, Writes
<1>4. CASE Connect(s)
    <2>1. Writes(s, "connect")
        BY <1>4 DEF Connect, Writes
    <2>2. /\ conn[s] = "none" /\ conn' = [conn EXCEPT ![s] = "open"]
          /\ UNCHANGED <<clock, process>>
        BY <1>4 DEF Connect
    <2>3. QED
        BY <1>1, <2>1, <2>2
<1>5. CASE ConnectPivot(s)
    BY <1>1, <1>3, <1>5 DEF ConnectPivot
<1>6. CASE Disconnect(s)
    BY <1>1, <1>3, <1>6 DEF Disconnect, Kinds
<1>7. CASE ResolveOwner(s) \/ ResolveRefused(s) \/ Submit(s)
    BY <1>7 DEF ResolveOwner, ResolveRefused, Submit
<1>8. CASE Fingerprint(s)
    <2>1. Writes(s, "kex")
        <3>1. \E known : log' = log \o
                    <<Build(s, "version", stamp[s]), Build(s, "kex", known)>>
            BY <1>8, Zenon DEF Fingerprint
        <3>2. QED
            BY <3>1, Zenon DEF Writes
    <2>2. /\ conn[s] = "open"
          /\ UNCHANGED <<clock, conn, process>>
        BY <1>8 DEF Fingerprint, MayTry
    <2>3. QED
        BY <2>1, <2>2 DEF Kinds
<1>9. CASE LoginFails(s)
    BY <1>3, <1>9 DEF LoginFails, MayTry, Kinds
<1>10. CASE LoginSucceeds(s)
    BY <1>1, <1>3, <1>10 DEF LoginSucceeds, MayTry, Kinds
<1>11. CASE Bridge(s) \/ Refuse(s)
    BY <1>1, <1>2, <1>11 DEF Bridge, Refuse, SetProcess
<1>12. CASE OneShot(s)
    BY <1>1, <1>2, <1>3, <1>12 DEF OneShot, SetProcess, Kinds
<1>13. CASE Echo(s)
    BY <1>2, <1>3, <1>13 DEF Echo, Kinds
<1>14. CASE ProcessEnds(s)
    <2>1. UNCHANGED <<clock, conn>> /\ (Emit(s, "command") \/ UNCHANGED log)
        BY <1>14, Zenon DEF ProcessEnds
    <2>2. process[s] = "bridged" /\ process' = [process EXCEPT ![s] = "done"]
        BY <1>14 DEF ProcessEnds, SetProcess
    <2>3. QED
        BY <1>1, <1>2, <1>3, <2>1, <2>2 DEF Kinds
<1>15. CASE Forward(s)
    BY <1>3, <1>15 DEF Forward, Kinds
<1>16. QED
    BY <1>4, <1>5, <1>6, <1>7, <1>8, <1>9, <1>10, <1>11, <1>12, <1>13, <1>14, <1>15
       DEF SessionStep

(* Lines are added at the end, with the time of the day.                    *)
Adds(s, kind) ==
    /\ Lines \subseteq Lines' /\ Lines' \subseteq Nat
    /\ \A n \in Lines : log'[n] = log[n]
    /\ \A m \in Lines' \ Lines :
        /\ \A n \in Lines : n < m
        /\ log'[m].session = s /\ log'[m].at = clock
        /\ kind = "connect" => log'[m].kind = kind
    /\ \E m \in Lines' \ Lines : log'[m].kind = kind

(* That is what writing does.                                               *)
LEMMA WrittenLine ==
    ASSUME log \in Seq(Event), NEW s, NEW kind, Writes(s, kind)
    PROVE  Adds(s, kind)
<1>1. Len(log) \in Nat /\ Lines = 1..Len(log)
    BY LinesAre
<1>2. \A k, by : Build(s, k, by).session = s /\ Build(s, k, by).kind = k
                   /\ Build(s, k, by).at = clock
    BY DEF Build
<1>3. CASE \E by : EmitAs(s, kind, by)
    <2>1. PICK by : log' = Append(log, Build(s, kind, by))
        BY <1>3 DEF EmitAs
    <2>2. PICK e : e = Build(s, kind, by)
        OBVIOUS
    <2>3. /\ Lines' = 1..Len(log) + 1
          /\ \A i \in 1..Len(log) : log'[i] = log[i]
          /\ log'[Len(log) + 1] = e
        BY <1>1, <2>1, <2>2 DEF Lines
    <2>4. Lines' \ Lines = {Len(log) + 1} /\ Lines \subseteq Lines' /\ Lines' \subseteq Nat
        BY <1>1, <2>3
    <2>5. e.session = s /\ e.kind = kind /\ e.at = clock
        BY <1>2, <2>2
    <2>6. \A n \in Lines : n < Len(log) + 1 /\ log'[n] = log[n]
        BY <1>1, <2>3
    <2>7. QED
        BY <2>3, <2>4, <2>5, <2>6 DEF Adds
<1>4. CASE /\ kind = "kex"
           /\ \E one, two : log' = log \o <<Build(s, "version", one), Build(s, "kex", two)>>
    <2>1. PICK one, two : log' = log \o <<Build(s, "version", one), Build(s, "kex", two)>>
        BY <1>4
    <2>2. PICK d, e : d = Build(s, "version", one) /\ e = Build(s, "kex", two)
        OBVIOUS
    <2>3. PICK S : S = Event \cup {d, e}
        OBVIOUS
    <2>4. log \in Seq(S) /\ d \in S /\ e \in S
        <3>1. Event \subseteq S /\ d \in S /\ e \in S
            BY <2>3
        <3>2. QED
            BY <3>1, SeqMonotonic
    <2>5. /\ Lines' = 1..Len(log) + 2
          /\ \A i \in 1..Len(log) : log'[i] = log[i]
          /\ log'[Len(log) + 1] = d /\ log'[Len(log) + 2] = e
        BY <2>1, <2>2, <2>4, TwoMore DEF Lines
    <2>6. /\ Lines' \ Lines = {Len(log) + 1, Len(log) + 2}
          /\ Lines \subseteq Lines' /\ Lines' \subseteq Nat
        BY <1>1, <2>5
    <2>7. d.session = s /\ d.at = clock /\ e.session = s /\ e.kind = kind /\ e.at = clock
        BY <1>2, <1>4, <2>2
    <2>8. \A n \in Lines : n < Len(log) + 1 /\ n < Len(log) + 2 /\ log'[n] = log[n]
        BY <1>1, <2>5
    <2>9. kind # "connect"
        BY <1>4
    <2>10. QED
        BY <2>5, <2>6, <2>7, <2>8, <2>9 DEF Adds
<1>5. QED
    BY <1>3, <1>4 DEF Writes

(* Lines that are added to the log are in the order of time, and after the  *)
(* "connect" of their session.                                              *)
LEMMA OrderKept ==
    ASSUME BaseInv, ConnInv, OrderInv, NEW s \in Sessions, NEW kind, Writes(s, kind),
           clock' = clock,
           kind = "connect" \/ conn[s] # "none"
    PROVE  /\ OrderInv'
           /\ \A n \in Lines : n \in Lines' /\ log'[n] = log[n]
           /\ kind = "connect" => Begun(s)'
<1>1. log \in Seq(Event) /\ clock \in Nat
    BY SessionsAssumption DEF BaseInv, SessionsInv, SessionsTypeOK
<1>2. Lines = 1..Len(log) /\ Len(log) \in Nat /\ \A n \in Lines : log[n] \in Event
    BY <1>1, LinesAre
<1>3. Adds(s, kind)
    BY <1>1, WrittenLine
<1>4. \A n \in Lines : n \in Nat /\ log[n].at \in Nat
    BY <1>2 DEF Event
<1>5. \A n \in Lines :
        /\ log[n].at <= clock
        /\ \A m \in Lines : m <= n => log[m].at <= log[n].at
        /\ \E m \in Lines : m <= n /\ log[m].session = log[n].session /\ log[m].kind = "connect"
    BY DEF OrderInv
<1>6. ASSUME NEW n \in Lines'
      PROVE  log'[n].at <= clock
    <2>1. CASE n \in Lines
        BY <1>3, <1>5, <2>1 DEF Adds
    <2>2. CASE n \notin Lines
        <3>1. log'[n].at = clock
            BY <1>3, <2>2 DEF Adds
        <3>2. QED
            BY <1>1, <3>1
    <2>3. QED
        BY <2>1, <2>2
<1>7. ASSUME NEW n \in Lines', NEW m \in Lines', m <= n
      PROVE  log'[m].at <= log'[n].at
    <2>1. CASE n \notin Lines
        <3>1. log'[n].at = clock
            BY <1>3, <2>1 DEF Adds
        <3>2. QED
            BY <1>6, <3>1
    <2>2. CASE n \in Lines
        <3>1. m \in Lines
            <4>1. m \notin Lines => n < m
                BY <1>3, <2>2 DEF Adds
            <4>2. m \in Nat /\ n \in Nat
                BY <1>3 DEF Adds
            <4>3. QED
                BY <1>7, <4>1, <4>2
        <3>2. log'[m] = log[m] /\ log'[n] = log[n]
            BY <1>3, <2>2, <3>1 DEF Adds
        <3>3. QED
            BY <1>5, <1>7, <2>2, <3>1, <3>2
    <2>3. QED
        BY <2>1, <2>2
<1>8. ASSUME NEW n \in Lines'
      PROVE  \E m \in Lines' : m <= n /\ log'[m].session = log'[n].session /\ log'[m].kind = "connect"
    <2>1. CASE n \in Lines
        <3>1. PICK m \in Lines : m <= n /\ log[m].session = log[n].session /\ log[m].kind = "connect"
            BY <1>5, <2>1
        <3>2. m \in Lines' /\ log'[m] = log[m] /\ log'[n] = log[n]
            BY <1>3, <2>1 DEF Adds
        <3>3. QED
            BY <3>1, <3>2
    <2>2. CASE n \notin Lines /\ kind = "connect"
        <3>1. log'[n].kind = "connect"
            BY <1>3, <2>2 DEF Adds
        <3>2. n <= n
            BY <1>3 DEF Adds
        <3>3. QED
            BY <3>1, <3>2
    <2>3. CASE n \notin Lines /\ conn[s] # "none"
        <3>1. PICK m \in Lines : log[m].session = s /\ log[m].kind = "connect"
            BY <2>3 DEF ConnInv, Begun
        <3>2. m \in Lines' /\ m < n /\ m \in Nat /\ n \in Nat
            BY <1>3, <2>3, <3>1 DEF Adds
        <3>3. log'[m] = log[m] /\ log'[n].session = s
            BY <1>3, <2>3, <3>1 DEF Adds
        <3>4. QED
            BY <3>1, <3>2, <3>3
    <2>4. QED
        BY <2>1, <2>2, <2>3
<1>9. OrderInv'
    BY <1>6, <1>7, <1>8 DEF OrderInv, Lines
<1>10. kind = "connect" => Begun(s)'
    <2>1. \E m \in Lines' : log'[m].session = s /\ log'[m].kind = kind
        BY <1>3 DEF Adds
    <2>2. QED
        BY <2>1 DEF Begun, Lines
<1>11. \A n \in Lines : n \in Lines' /\ log'[n] = log[n]
    BY <1>3 DEF Adds
<1>12. QED
    BY <1>9, <1>10, <1>11

(* Every step keeps the log in the order of time.                           *)
LEMMA OrderNext == BaseInv /\ ConnInv /\ OrderInv /\ [Next]_vars => ConnInv' /\ OrderInv'
<1> SUFFICES ASSUME BaseInv, ConnInv, OrderInv, [Next]_vars
             PROVE  ConnInv' /\ OrderInv'
    OBVIOUS
<1>1. CASE UNCHANGED sessionVars
    BY <1>1 DEF sessionVars, ConnInv, Begun, OrderInv, Lines
<1>2. CASE Tick
    <2>1. clock' = clock + 1 /\ UNCHANGED <<conn, process, log>> /\ clock \in Nat
        BY <1>2, SessionsAssumption DEF Tick, BaseInv, SessionsInv, SessionsTypeOK
    <2>2. \A n \in Lines : log[n].at \in Nat
        BY LinesAre DEF BaseInv, SessionsInv, SessionsTypeOK, Event
    <2>3. \A n \in Lines : log[n].at <= clock + 1
        BY <2>1, <2>2 DEF OrderInv
    <2>4. QED
        BY <2>1, <2>3 DEF ConnInv, Begun, OrderInv, Lines
<1>3. ASSUME NEW s \in Sessions, SessionStep(s)
      PROVE  ConnInv' /\ OrderInv'
    <2>1. StateTypes
        BY SessionParts DEF BaseInv, SessionsApart
    <2>2. /\ clock' = clock
          /\ \A t \in Sessions : t # s => conn'[t] = conn[t] /\ process'[t] = process[t]
          /\ \/ conn[s] = "none" /\ conn'[s] # "none" /\ Writes(s, "connect")
             \/ /\ conn[s] # "none" /\ conn'[s] # "none"
                /\ log' = log \/ \E kind \in Kinds : Writes(s, kind)
             \/ /\ conn'[s] = conn[s] /\ process'[s] = process[s] /\ log' = log
        BY <1>3, <2>1, WhatIsWritten
    <2>3. ASSUME \A n \in Lines : n \in Lines' /\ log'[n] = log[n],
                 conn'[s] # "none" => Begun(s)' \/ conn[s] # "none",
                 conn'[s] = "none" => conn[s] = "none" /\ process'[s] = process[s]
          PROVE  ConnInv'
        <3>1. ASSUME NEW t \in Sessions, Begun(t)
              PROVE  Begun(t)'
            <4>1. PICK m \in Lines : log[m].session = t /\ log[m].kind = "connect"
                BY <3>1 DEF Begun
            <4>2. m \in Lines' /\ log'[m].session = t /\ log'[m].kind = "connect"
                BY <2>3, <4>1
            <4>3. QED
                BY <4>2 DEF Begun, Lines
        <3>2. ASSUME NEW t \in Sessions
              PROVE  /\ conn'[t] = "none" => process'[t] = "none"
                     /\ conn'[t] # "none" => Begun(t)'
            <4>1. CASE t = s
                BY <2>3, <3>1, <4>1 DEF ConnInv
            <4>2. CASE t # s
                BY <2>2, <3>1, <4>2 DEF ConnInv
            <4>3. QED
                BY <4>1, <4>2
        <3>3. QED
            BY <3>2 DEF ConnInv
    <2>4. ASSUME log' = log,
                 conn'[s] # "none" => conn[s] # "none",
                 conn'[s] = "none" => conn[s] = "none" /\ process'[s] = process[s]
          PROVE  ConnInv' /\ OrderInv'
        <3>1. OrderInv'
            BY <2>2, <2>4 DEF OrderInv, Lines
        <3>2. \A n \in Lines : n \in Lines' /\ log'[n] = log[n]
            BY <2>4 DEF Lines
        <3>3. QED
            BY <2>3, <2>4, <3>1, <3>2
    <2>5. ASSUME NEW kind, Writes(s, kind), conn'[s] # "none",
                 kind = "connect" \/ conn[s] # "none"
          PROVE  ConnInv' /\ OrderInv'
        <3>1. /\ OrderInv'
              /\ \A n \in Lines : n \in Lines' /\ log'[n] = log[n]
              /\ kind = "connect" => Begun(s)'
            BY <2>2, <2>5, OrderKept
        <3>2. ConnInv'
            BY <2>3, <2>5, <3>1
        <3>3. QED
            BY <3>1, <3>2
    <2>6. CASE conn[s] = "none" /\ conn'[s] # "none" /\ Writes(s, "connect")
        BY <2>5, <2>6
    <2>7. CASE conn[s] # "none" /\ conn'[s] # "none" /\ \E kind \in Kinds : Writes(s, kind)
        BY <2>5, <2>7
    <2>8. CASE /\ log' = log
               /\ \/ conn[s] # "none" /\ conn'[s] # "none"
                  \/ conn'[s] = conn[s] /\ process'[s] = process[s]
        BY <2>4, <2>8
    <2>9. QED
        BY <2>2, <2>6, <2>7, <2>8
<1>4. QED
    BY <1>1, <1>2, <1>3, WhatSessionsDo

-----------------------------------------------------------------------------
(* Without faults one line is at work at a time, in the order of the log.   *)

(* A step counts its faults; one without a fault pauses, lets the log grow, *)
(* or goes on with the line at work.                                        *)
LEMMA FaultsCount ==
    ASSUME BaseInv, faults \in Nat, [Next]_vars
    PROVE  /\ faults' \in Nat
           /\ faults' = 0 =>
                /\ faults = 0
                /\ \/ Pauses
                   \/ Grows
                   \/ \E h \in Handlers, n \in Nat : Takes(h, n)
                   \/ \E h \in Handlers : Turns(h)
                   \/ \E h \in Handlers : Leaves(h, TRUE) /\ Store(h)
                   \/ \E h \in Handlers : InsertCollides(h)
<1>0. \A f \in Nat : f + 1 \in Nat /\ f + 1 # 0
    OBVIOUS
<1>1. CASE SessionsMove
    <2>1. LogGrows /\ faults' = faults
        BY <1>1, SessionsNext DEF SessionsMove, BaseInv
    <2>2. Grows
        BY <1>1, <2>1 DEF SessionsMove, Grows
    <2>3. QED
        BY <2>1, <2>2
<1>2. CASE TimePasses \/ UNCHANGED vars
    BY <1>2 DEF TimePasses, Tick, hubVars, vars, Pauses, sessionVars
<1>3. CASE ShipperStep
    <2>1. faults' = faults
        BY <1>3 DEF ShipperStep, PostNext, PostAgain, Post
    <2>2. QED
        BY <1>3, <2>1, TakesAre DEF ShipperStep, BaseInv
<1>4. CASE TimesOut
    BY <1>0, <1>4 DEF TimesOut, Fault
<1>5. ASSUME NEW h \in Handlers, HandlerFault(h)
      PROVE  faults' = faults + 1
    BY <1>5 DEF HandlerFault, ReadIocFails, GraphFails, StoreFails, PublishFails, Fault
<1>6. ASSUME NEW h \in Handlers, ReadIoc(h) \/ WriteIoc(h) \/ WriteGraph(h) \/ SelectRow(h)
      PROVE  faults' = faults /\ Turns(h)
    <2>1. faults' = faults
        BY <1>6 DEF ReadIoc, WriteIoc, WriteGraph, SelectRow
    <2>2. QED
        BY <1>6, <2>1, TurnsAre
<1>7. ASSUME NEW h \in Handlers, Commit(h)
      PROVE  faults' = faults /\ Leaves(h, TRUE) /\ Store(h)
    <2>1. Store(h) /\ Answer(h, TRUE) /\ faults' = faults
        BY <1>7 DEF Commit
    <2>2. work[h] # Idle
        BY <2>1, AtIsBusy DEF Store
    <2>3. QED
        BY <2>1, <2>2 DEF Leaves, Store, sessionVars
<1>8. ASSUME NEW h \in Handlers, InsertCollides(h)
      PROVE  faults' = faults
    BY <1>8 DEF InsertCollides
<1>9. QED
    BY <1>0, <1>1, <1>2, <1>3, <1>4, <1>5, <1>6, <1>7, <1>8 DEF Next, HandlerStep

(* Lines are committed after they are taken; without faults nothing waits   *)
(* to be sent again, and only the handler the shipper waits for has a line. *)
CleanInv ==
    /\ faults \in Nat
    /\ \A n \in Lines : committed[n] > 0 => n < next
    /\ faults = 0 =>
        /\ spool = {} /\ ~overlapped
        /\ \A h \in Busy : h = waiting /\ work[h].line = next - 1

(* A step commits only lines that the shipper has taken.                    *)
LEMMA PostedNext ==
    ASSUME BaseInv, CleanInv, [Next]_vars, NEW n \in Lines', committed'[n] > 0
    PROVE  n < next'
<1>1. next \in Nat /\ (next' = next \/ next' = next + 1)
    <2>1. ASSUME NEW h \in Handlers, NEW m \in Nat, Takes(h, m)
          PROVE  next' = next \/ next' = next + 1
        BY <2>1 DEF Takes
    <2>2. ASSUME NEW h \in Handlers, NEW ok \in BOOLEAN, Leaves(h, ok)
          PROVE  next' = next
        BY <2>2 DEF Leaves, Answer
    <2>3. next \in Nat
        BY DEF BaseInv, ShipInv
    <2>4. CASE Pauses \/ Grows \/ TimesOut \/ \E h \in Handlers : Turns(h)
        BY <2>3, <2>4 DEF Pauses, Grows, TimesOut, Turns, shipVars
    <2>5. QED
        BY <2>1, <2>2, <2>3, <2>4, KindsOfStep
<1>2. n \in Lines /\ (committed[n] > 0 \/ \E h \in Handlers : Store(h) /\ work[h].line = n)
    BY WhoCommits
<1>3. n \in Nat
    BY <1>2, LinesAre DEF BaseInv, SessionsInv, SessionsTypeOK
<1>4. n < next
    <2>1. CASE committed[n] > 0
        BY <1>2, <2>1 DEF CleanInv
    <2>2. ASSUME NEW h \in Handlers, Store(h), work[h].line = n
          PROVE  n < next
        <3>1. n \in 1..next - 1
            BY <2>2, StoreRows, BusyLines
        <3>2. QED
            BY <1>1, <3>1
    <2>3. QED
        BY <1>2, <2>1, <2>2
<1>5. QED
    BY <1>1, <1>3, <1>4

(* A handler that is alone has not missed that the row was inserted.        *)
LEMMA NothingCollides ==
    ASSUME BaseInv, NEW h \in Handlers, RowSeen(h)
    PROVE  ~InsertCollides(h)
<1> SUFFICES ASSUME InsertCollides(h)
             PROVE  FALSE
    OBVIOUS
<1>1. work[h].step = "commit" /\ work[h].row = NoRow /\ EventOf(h).session \in DOMAIN rows
    BY DEF InsertCollides, At
<1>2. rows[EventOf(h).session] = NoRow
    BY <1>1 DEF RowSeen
<1>3. rows[EventOf(h).session] \in Row
    BY <1>1 DEF BaseInv, StoreInv
<1>4. QED
    BY <1>2, <1>3, RowIsThere

(* Every step keeps CleanInv.                                               *)
LEMMA CleanNext == BaseInv /\ ExactInv /\ CleanInv /\ [Next]_vars => CleanInv'
<1> SUFFICES ASSUME BaseInv, ExactInv, CleanInv, [Next]_vars
             PROVE  CleanInv'
    OBVIOUS
<1>1. faults' \in Nat
    BY FaultsCount DEF CleanInv
<1>2. \A n \in Lines' : committed'[n] > 0 => n < next'
    BY PostedNext
<1>3. ASSUME faults' = 0
      PROVE  /\ spool' = {} /\ ~overlapped'
             /\ \A h \in Handlers : work'[h] # Idle => h = waiting' /\ work'[h].line = next' - 1
    <2>1. /\ faults = 0
          /\ \/ Pauses
             \/ Grows
             \/ \E h \in Handlers, n \in Nat : Takes(h, n)
             \/ \E h \in Handlers : Turns(h)
             \/ \E h \in Handlers : Leaves(h, TRUE) /\ Store(h)
             \/ \E h \in Handlers : InsertCollides(h)
        BY <1>3, FaultsCount DEF CleanInv
    <2>2. /\ spool = {} /\ ~overlapped
          /\ \A h \in Handlers : work[h] # Idle => h = waiting /\ work[h].line = next - 1
        BY <2>1 DEF CleanInv, Busy
    <2>3. work \in [Handlers -> Job] /\ next \in Nat
        BY DEF BaseInv, WorkInv, ShipInv
    <2>4. CASE Pauses \/ Grows
        BY <2>2, <2>4 DEF Pauses, Grows, shipVars, ghostVars
    <2>5. ASSUME NEW h \in Handlers, NEW n \in Nat, Takes(h, n)
          PROVE  /\ spool' = {} /\ ~overlapped'
                 /\ \A g \in Handlers : work'[g] # Idle => g = waiting' /\ work'[g].line = next' - 1
        <3>1. /\ waiting = NoHandler /\ n = next /\ next' = next + 1 /\ spool' = spool
              /\ work' = [work EXCEPT ![h] = NewJob(n)] /\ waiting' = h
              /\ overlapped' = (overlapped \/ Busy # {})
            BY <2>2, <2>5 DEF Takes
        <3>2. \A g \in Handlers : work[g] = Idle
            BY <2>2, <3>1, HubAssumption
        <3>3. Busy = {}
            BY <3>2 DEF Busy
        <3>4. NewJob(n).line = n
            BY DEF NewJob, Idle
        <3>5. work'[h] = NewJob(n) /\ \A g \in Handlers : g # h => work'[g] = work[g]
            BY <2>3, <3>1
        <3>6. (next + 1) - 1 = next
            BY <2>3
        <3>7. QED
            BY <2>2, <3>1, <3>2, <3>3, <3>4, <3>5, <3>6
    <2>6. ASSUME NEW h \in Handlers, Turns(h)
          PROVE  /\ spool' = {} /\ ~overlapped'
                 /\ \A g \in Handlers : work'[g] # Idle => g = waiting' /\ work'[g].line = next' - 1
        <3>1. PICK job \in Job : job.line = work[h].line /\ work' = [work EXCEPT ![h] = job]
            BY <2>6 DEF Turns
        <3>2. work'[h] = job /\ \A g \in Handlers : g # h => work'[g] = work[g]
            BY <2>3, <3>1
        <3>3. work[h] # Idle /\ UNCHANGED <<shipVars, overlapped>>
            BY <2>6 DEF Turns
        <3>4. QED
            BY <2>2, <3>1, <3>2, <3>3 DEF shipVars
    <2>7. ASSUME NEW h \in Handlers, Leaves(h, TRUE)
          PROVE  /\ spool' = {} /\ ~overlapped'
                 /\ \A g \in Handlers : work'[g] # Idle => g = waiting' /\ work'[g].line = next' - 1
        <3>1. /\ work[h] # Idle /\ work' = [work EXCEPT ![h] = Idle] /\ spool' = spool
              /\ overlapped' = overlapped
            BY <2>7 DEF Leaves, Answer
        <3>2. \A g \in Handlers : work'[g] = Idle
            BY <2>2, <2>3, <3>1
        <3>3. QED
            BY <2>2, <3>1, <3>2
    <2>8. ASSUME NEW h \in Handlers, InsertCollides(h)
          PROVE  FALSE
        BY <2>2, <2>8, NothingCollides DEF ExactInv
    <2>9. QED
        BY <2>1, <2>4, <2>5, <2>6, <2>7, <2>8
<1>4. QED
    BY <1>1, <1>2, <1>3 DEF CleanInv, Busy, Lines

-----------------------------------------------------------------------------
(* Without faults a row has the times of its session.                       *)

(* A row started with the first line of its session, and ended with the     *)
(* last "closed" line committed, if that one came any later.                *)
Timed(s) ==
    /\ \E m \in CommittedOf(s) :
        rows[s].started = log[m].at /\ \A n \in LinesOf(s) : m <= n
    /\ \/ /\ rows[s].ended = NoEnd
          /\ \A m \in CommittedOf(s) : log[m].kind = "closed" => log[m].at = rows[s].started
       \/ \E m \in CommittedOf(s) :
            /\ log[m].kind = "closed" /\ rows[s].ended = log[m].at
            /\ \A n \in CommittedOf(s) : log[n].kind = "closed" => n <= m
TimesInv == faults = 0 => \A s \in DOMAIN rows : Timed(s)

(* What an update leaves of the times.                                      *)
LEMMA UpdatedTimes ==
    ASSUME NEW read \in Row, NEW e \in Event
    PROVE  /\ Updated(read, read, e).started = read.started
           /\ Updated(read, read, e).ended =
                 IF e.kind = "closed" /\ Lasted(e) THEN e.at ELSE read.ended
<1>1. DEFINE wants == [read EXCEPT
            !.count = @ + 1,
            !.threat = Max({@, ThreatScore(e.kind)}),
            !.logins = IF e.kind = "login_failed" THEN @ + 1 ELSE @,
            !.ended = IF e.kind = "closed" /\ Lasted(e) THEN e.at ELSE @,
            !.hassh = @ \/ e.hassh,
            !.attacker = CorrectedAttacker(read, e)]
<1>2. /\ wants.started = read.started
      /\ wants.ended = IF e.kind = "closed" /\ Lasted(e) THEN e.at ELSE read.ended
    BY DEF Row
<1>3. Updated(read, read, e) = [column \in DOMAIN read |->
            IF wants[column] # read[column] THEN wants[column] ELSE read[column]]
    BY DEF Updated
<1>4. "started" \in DOMAIN read /\ "ended" \in DOMAIN read
    BY DEF Row
<1>5. HIDE DEF wants
<1>6. QED
    BY <1>2, <1>3, <1>4

(* A longer log leaves the times of the rows true.                          *)
LEMMA TimesGrow ==
    ASSUME BaseInv, BaseInv', Grows, NEW s \in DOMAIN rows, Timed(s)
    PROVE  Timed(s)'
<1>1. log \in Seq(Event) /\ log' \in Seq(Event) /\ committed \in [Lines -> Nat]
    BY DEF BaseInv, SessionsInv, SessionsTypeOK, CountInv
<1>2. /\ \A n \in Lines : n \in Lines' /\ committed'[n] = committed[n] /\ log'[n] = log[n]
      /\ \A n \in Lines' : n \notin Lines => committed'[n] = 0
    BY <1>1, GrowIs DEF Grows
<1>3. rows' = rows
    BY DEF Grows
<1>4. LinesOf(s) \subseteq LinesOf(s)' /\ \A n \in LinesOf(s)' : n \notin LinesOf(s) => n \notin Lines
    BY <1>2 DEF LinesOf
<1>5. CommittedOf(s)' = CommittedOf(s)
    BY <1>2, <1>4 DEF CommittedOf, LinesOf
<1>6. \A m \in Lines, n \in Lines' : n \notin Lines => m <= n
    <2>1. /\ Lines = 1..Len(log) /\ Len(log) \in Nat
          /\ Lines' = 1..Len(log') /\ Len(log') \in Nat
        BY <1>1, LenProperties DEF Lines
    <2>2. QED
        BY <2>1
<1>7. CommittedOf(s) \subseteq Lines /\ LinesOf(s)' \subseteq Lines'
    BY DEF CommittedOf, LinesOf
<1>8. \A m \in CommittedOf(s) : log'[m] = log[m]
    BY <1>2, <1>7
<1>9. \A m \in CommittedOf(s) :
        (\A n \in LinesOf(s) : m <= n) => (\A n \in LinesOf(s)' : m <= n)
    BY <1>4, <1>6, <1>7
<1>10. \E m \in CommittedOf(s)' : rows'[s].started = log'[m].at /\ \A n \in LinesOf(s)' : m <= n
    <2>1. PICK m \in CommittedOf(s) : rows[s].started = log[m].at /\ \A n \in LinesOf(s) : m <= n
        BY DEF Timed
    <2>2. QED
        BY <2>1, <1>3, <1>5, <1>8, <1>9
<1>11. \/ /\ rows'[s].ended = NoEnd
          /\ \A m \in CommittedOf(s)' :
                log'[m].kind = "closed" => log'[m].at = rows'[s].started
       \/ \E m \in CommittedOf(s)' :
            /\ log'[m].kind = "closed" /\ rows'[s].ended = log'[m].at
            /\ \A n \in CommittedOf(s)' : log'[n].kind = "closed" => n <= m
    BY <1>3, <1>5, <1>8 DEF Timed
<1>12. QED
    BY <1>10, <1>11 DEF Timed

(* Storing the line at work leaves them true: the lines come in order.      *)
LEMMA TimesCommit ==
    ASSUME BaseInv, OrderInv, HeldInv, RowInv, CleanInv, faults = 0,
           NEW h \in Handlers, Store(h), log' = log, RowSeen(h),
           \A s \in DOMAIN rows : Timed(s), NEW s \in DOMAIN rows'
    PROVE  Timed(s)'
<1>1. PICK n, e, t : n = work[h].line /\ e = EventOf(h) /\ t = e.session
    OBVIOUS
<1>2. /\ work[h] # Idle /\ e \in Event /\ t \in Sessions
      /\ \/ /\ work[h].row = NoRow /\ t \notin DOMAIN rows
            /\ DOMAIN rows' = DOMAIN rows \cup {t}
            /\ rows'[t] = NewRow(e)
         \/ /\ work[h].row \in Row
            /\ DOMAIN rows' = DOMAIN rows
            /\ t \in DOMAIN rows => rows'[t] = Updated(rows[t], work[h].row, e)
      /\ \A u \in DOMAIN rows : u # t => rows'[u] = rows[u]
    BY <1>1, StoreRows
<1>3. /\ n \in Lines /\ e = log[n]
      /\ committed'[n] = committed[n] + 1
      /\ \A m \in Lines : m # n => committed'[m] = committed[m]
      /\ \A m \in Lines : committed[m] \in Nat
    BY <1>1, CommitCounts DEF EventOf
<1>4. Lines' = Lines /\ \A u : LinesOf(u)' = LinesOf(u)
    BY DEF Lines, LinesOf
<1>5. work[h].row = IF t \in DOMAIN rows THEN rows[t] ELSE NoRow
    BY <1>1 DEF RowSeen, Store, At
<1>6. t \in DOMAIN rows => rows[t] \in Row
    BY DEF BaseInv, StoreInv
<1>7. n \in LinesOf(t) /\ \A u : u # t => n \notin LinesOf(u)
    BY <1>1, <1>3 DEF LinesOf
<1>8. /\ CommittedOf(t)' = CommittedOf(t) \cup {n}
      /\ \A u : u # t => CommittedOf(u)' = CommittedOf(u)
    <2>1. \A u : LinesOf(u) \subseteq Lines
        BY DEF LinesOf
    <2>2. QED
        BY <1>3, <1>4, <1>7, <2>1 DEF CommittedOf
<1>9. /\ n = next - 1 /\ spool = {} /\ next \in Nat
      /\ waiting = h
    BY <1>1, <1>2 DEF CleanInv, Busy, BaseInv, ShipInv
<1>10. Lines \subseteq Nat \ {0}
    BY LinesAre DEF BaseInv, SessionsInv, SessionsTypeOK
<1>11. \A m \in Lines : m < n => committed[m] > 0
    <2>1. ASSUME NEW m \in Lines, m < n
          PROVE  committed[m] > 0
        <3>1. m \in 1..next - 1
            <4>1. m \in Nat /\ m # 0
                BY <1>10, <2>1
            <4>2. QED
                BY <4>1, <1>9, <2>1
        <3>2. work[waiting].line # m
            <4>1. work[waiting].line = n
                BY <1>1, <1>9
            <4>2. m # n
                BY <1>10, <2>1
            <4>3. QED
                BY <4>1, <4>2
        <3>3. QED
            BY <3>1, <3>2, <1>9 DEF HeldInv
    <2>2. QED
        BY <2>1
<1>12. \A m \in Lines : committed[m] > 0 => m <= n
    BY <1>9, <1>10 DEF CleanInv
<1>13. CASE s # t
    <2>1. s \in DOMAIN rows /\ rows'[s] = rows[s] /\ Timed(s)
        BY <1>2, <1>13
    <2>2. CommittedOf(s)' = CommittedOf(s) /\ LinesOf(s)' = LinesOf(s)
        BY <1>4, <1>8, <1>13
    <2>3. QED
        BY <2>1, <2>2 DEF Timed
<1>14. CASE s = t /\ t \notin DOMAIN rows
    <2>1. rows'[t] = NewRow(e)
        BY <1>2, <1>5, <1>14, RowIsThere
    <2>2. rows'[t].started = log[n].at /\ rows'[t].ended = NoEnd
        BY <1>3, <2>1 DEF NewRow
    <2>3. \A m \in LinesOf(t) : ~(committed[m] > 0)
        BY <1>14 DEF RowInv, LinesOf
    <2>4. \A m \in LinesOf(t) : n <= m
        <3>1. ASSUME NEW m \in LinesOf(t)
              PROVE  n <= m
            <4>1. m \in Lines /\ ~(m < n)
                BY <1>11, <2>3 DEF LinesOf
            <4>2. QED
                BY <4>1, <1>3, <1>10
        <3>2. QED
            BY <3>1
    <2>5. CommittedOf(t)' = {n}
        BY <1>8, <2>3 DEF CommittedOf
    <2>6. log[n].kind # "closed"
        <3>1. PICK m \in Lines : m <= n /\ log[m].session = log[n].session /\ log[m].kind = "connect"
            BY <1>3 DEF OrderInv
        <3>2. m \in LinesOf(t)
            BY <1>1, <1>3, <3>1 DEF LinesOf
        <3>3. m = n
            BY <1>3, <1>10, <2>4, <3>1, <3>2
        <3>4. QED
            BY <3>1, <3>3
    <2>7. /\ rows'[t].started = log'[n].at /\ \A k \in LinesOf(t)' : n <= k
          /\ \A m \in CommittedOf(t)' :
                log'[m].kind = "closed" => log'[m].at = rows'[t].started
        BY <1>4, <2>2, <2>4, <2>5, <2>6
    <2>8. QED
        BY <1>14, <2>2, <2>5, <2>7 DEF Timed
<1>15. CASE s = t /\ t \in DOMAIN rows
    <2>1. Timed(t) /\ rows[t] \in Row /\ work[h].row = rows[t]
        BY <1>5, <1>6, <1>15
    <2>2. rows'[t] = Updated(rows[t], rows[t], e)
        BY <1>2, <1>15, <2>1, RowIsThere
    <2>3. /\ rows'[t].started = rows[t].started
          /\ rows'[t].ended =
                IF e.kind = "closed" /\ Lasted(e) THEN e.at ELSE rows[t].ended
        BY <1>2, <2>1, <2>2, UpdatedTimes
    <2>4. \E m \in CommittedOf(t)' : rows'[t].started = log'[m].at /\ \A k \in LinesOf(t)' : m <= k
        <3>1. PICK m \in CommittedOf(t) : rows[t].started = log[m].at /\ \A k \in LinesOf(t) : m <= k
            BY <2>1 DEF Timed
        <3>2. QED
            BY <1>4, <1>8, <2>3, <3>1
    <2>5. \A k \in CommittedOf(t)' : k <= n /\ k \in Lines
        <3>1. \A k \in CommittedOf(t) : k <= n /\ k \in Lines
            BY <1>12 DEF CommittedOf, LinesOf
        <3>2. n <= n /\ n \in Lines
            BY <1>3, <1>10
        <3>3. QED
            BY <1>8, <3>1, <3>2
    <2>6. CASE e.kind = "closed" /\ Lasted(e)
        BY <1>3, <1>8, <2>3, <2>4, <2>5, <2>6, <1>15 DEF Timed
    <2>7. CASE e.kind # "closed"
        <3>1. /\ rows'[t].ended = rows[t].ended /\ log[n].kind # "closed"
              /\ rows'[t].started = rows[t].started
            BY <1>3, <2>3, <2>7
        <3>2. CASE /\ rows[t].ended = NoEnd
                   /\ \A m \in CommittedOf(t) :
                        log[m].kind = "closed" => log[m].at = rows[t].started
            BY <1>8, <1>15, <2>4, <3>1, <3>2 DEF Timed
        <3>3. CASE \E m \in CommittedOf(t) :
                    /\ log[m].kind = "closed" /\ rows[t].ended = log[m].at
                    /\ \A k \in CommittedOf(t) : log[k].kind = "closed" => k <= m
            BY <1>8, <1>15, <2>4, <3>1, <3>3 DEF Timed
        <3>4. QED
            BY <2>1, <3>2, <3>3 DEF Timed
    <2>8. CASE e.kind = "closed" /\ ~Lasted(e)
        <3>1. /\ rows'[t].ended = rows[t].ended /\ log[n].kind = "closed"
              /\ rows'[t].started = rows[t].started
            BY <1>3, <2>3, <2>8
        <3>2. PICK m \in CommittedOf(t) :
                rows[t].started = log[m].at /\ \A k \in LinesOf(t) : m <= k
            BY <2>1 DEF Timed
        <3>3. CommittedOf(t) \subseteq Lines /\ \A k \in CommittedOf(t) : log[k].session = t
            BY DEF CommittedOf, LinesOf
        <3>4. \A k \in Lines : log[k].at \in Nat
            BY LinesAre DEF BaseInv, SessionsInv, SessionsTypeOK, Event
        <3>5. \A j, k \in Lines : j <= k => log[j].at <= log[k].at
            BY DEF OrderInv
        <3>6. log[n].at = rows[t].started
            <4>1. ~(log[m].at < log[n].at)
                BY <1>1, <1>3, <2>8, <3>2, <3>3 DEF Lasted
            <4>2. log[m].at <= log[n].at
                BY <1>3, <1>7, <3>2, <3>3, <3>5
            <4>3. QED
                BY <1>3, <3>2, <3>3, <3>4, <4>1, <4>2
        <3>7. CASE /\ rows[t].ended = NoEnd
                   /\ \A k \in CommittedOf(t) :
                        log[k].kind = "closed" => log[k].at = rows[t].started
            BY <1>8, <1>15, <2>4, <3>1, <3>6, <3>7 DEF Timed
        <3>8. CASE \E k \in CommittedOf(t) :
                    /\ log[k].kind = "closed" /\ rows[t].ended = log[k].at
                    /\ \A j \in CommittedOf(t) : log[j].kind = "closed" => j <= k
            <4>1. PICK k \in CommittedOf(t) : rows[t].ended = log[k].at
                BY <3>8
            <4>2. k <= n /\ m <= k
                BY <1>8, <2>5, <3>2 DEF CommittedOf
            <4>3. log[m].at <= log[k].at /\ log[k].at <= log[n].at
                BY <1>3, <3>3, <3>5, <4>2
            <4>4. log[k].at = log[n].at
                BY <1>3, <3>2, <3>3, <3>4, <3>6, <4>3
            <4>5. rows'[t].ended = log'[n].at /\ log'[n].kind = "closed"
                BY <3>1, <4>1, <4>4
            <4>6. n \in CommittedOf(t)' /\ \A j \in CommittedOf(t)' : j <= n
                BY <1>8, <2>5
            <4>7. QED
                BY <1>15, <2>4, <4>5, <4>6 DEF Timed
        <3>9. QED
            BY <2>1, <3>7, <3>8 DEF Timed
    <2>9. QED
        BY <2>6, <2>7, <2>8
<1>16. QED
    BY <1>13, <1>14, <1>15

(* Every step of the hub keeps the times of the rows.                       *)
LEMMA TimesNext ==
    /\ BaseInv /\ OrderInv /\ HeldInv /\ RowInv /\ ExactInv /\ CleanInv
    /\ TimesInv /\ [Next]_vars
    => TimesInv'
<1> SUFFICES ASSUME BaseInv, OrderInv, HeldInv, RowInv, ExactInv, CleanInv, TimesInv,
                    [Next]_vars, faults' = 0, NEW s \in DOMAIN rows'
             PROVE  Timed(s)'
    BY DEF TimesInv
<1>1. faults = 0 /\ BaseInv'
    BY FaultsCount, BaseNext DEF CleanInv
<1>2. (\A u \in DOMAIN rows : Timed(u)) /\ (\A h \in Handlers : RowSeen(h))
    BY <1>1 DEF TimesInv, CleanInv, ExactInv
<1>3. CASE UNCHANGED <<log, rows, committed>>
    <2>1. s \in DOMAIN rows /\ Timed(s)
        BY <1>2, <1>3
    <2>2. LinesOf(s)' = LinesOf(s) /\ CommittedOf(s)' = CommittedOf(s)
        BY <1>3 DEF LinesOf, Lines, CommittedOf
    <2>3. QED
        BY <1>3, <2>1, <2>2 DEF Timed
<1>4. CASE Grows
    <2>1. s \in DOMAIN rows
        BY <1>4 DEF Grows
    <2>2. QED
        BY <1>1, <1>2, <1>4, <2>1, TimesGrow
<1>5. ASSUME NEW h \in Handlers, NEW ok \in BOOLEAN, Leaves(h, ok), Store(h)
      PROVE  Timed(s)'
    <2>1. log' = log
        BY <1>5 DEF Leaves
    <2>2. QED
        BY <1>1, <1>2, <1>5, <2>1, TimesCommit
<1>6. QED
    BY <1>3, <1>4, <1>5, WhoStores

-----------------------------------------------------------------------------
(* The visits.                                                              *)

(* When everything is delivered without faults, each session that was       *)
(* opened has its row, with its owner and its times.                        *)
AllOver == \A s \in Sessions : Opened(s) => Resolved(s)
EndOf(s) == IF rows[s].ended = NoEnd THEN rows[s].started ELSE rows[s].ended
RowsAreWhole ==
    /\ IsFiniteSet(DOMAIN rows)
    /\ \A s \in Sessions : s \in DOMAIN rows <=> Opened(s)
    /\ \A s \in DOMAIN rows :
        /\ rows[s].attacker = Owner[s]
        /\ rows[s].started = OpenedAt(s) /\ EndOf(s) = ClosedAt(s)
        /\ OpenedAt(s) \in Nat /\ ClosedAt(s) \in Nat /\ OpenedAt(s) <= ClosedAt(s)

(* When everything is delivered, every line is committed.                   *)
LEMMA AllCommitted ==
    ASSUME BaseInv, HeldInv, AllDelivered
    PROVE  \A n \in Lines : committed[n] > 0
<1>1. next = Len(log) + 1 /\ waiting = NoHandler /\ spool = {}
    BY DEF AllDelivered
<1>2. Lines = 1..Len(log) /\ Len(log) \in Nat
    BY LinesAre DEF BaseInv, SessionsInv, SessionsTypeOK
<1>3. (Len(log) + 1) - 1 = Len(log)
    BY <1>2
<1>4. QED
    BY <1>1, <1>2, <1>3 DEF HeldInv

(* The times of a row are those of its session.                             *)
LEMMA TimesOfSession ==
    ASSUME BaseInv, OrderInv, NEW s \in DOMAIN rows, Timed(s),
           \A n \in Lines : committed[n] > 0
    PROVE  /\ rows[s].started = OpenedAt(s) /\ EndOf(s) = ClosedAt(s)
           /\ OpenedAt(s) \in Nat /\ ClosedAt(s) \in Nat /\ OpenedAt(s) <= ClosedAt(s)
<1>1. \A n \in Lines : n \in Nat /\ log[n].at \in Nat
    BY LinesAre DEF BaseInv, SessionsInv, SessionsTypeOK, Event
<1>2. CommittedOf(s) = LinesOf(s) /\ LinesOf(s) \subseteq Lines
    BY DEF CommittedOf, LinesOf
<1>3. PICK m \in LinesOf(s) : rows[s].started = log[m].at /\ \A n \in LinesOf(s) : m <= n
    BY <1>2 DEF Timed
<1>4. Closed(s) => \E c \in LinesOf(s) :
        /\ log[c].kind = "closed" /\ EndOf(s) = log[c].at
        /\ \A n \in LinesOf(s) : log[n].kind = "closed" => log[n].at <= log[c].at
    <2>0. SUFFICES ASSUME Closed(s)
                   PROVE  \E c \in LinesOf(s) :
                            /\ log[c].kind = "closed" /\ EndOf(s) = log[c].at
                            /\ \A n \in LinesOf(s) :
                                log[n].kind = "closed" => log[n].at <= log[c].at
        OBVIOUS
    <2>1. CASE /\ rows[s].ended = NoEnd
               /\ \A n \in LinesOf(s) : log[n].kind = "closed" => log[n].at = rows[s].started
        <3>1. PICK c \in LinesOf(s) : log[c].kind = "closed"
            BY <2>0 DEF Closed
        <3>2. log[c].at = rows[s].started /\ log[c].at \in Nat
            BY <1>1, <1>2, <2>1, <3>1
        <3>3. EndOf(s) = log[c].at
            BY <2>1, <3>2 DEF EndOf
        <3>4. \A n \in LinesOf(s) : log[n].kind = "closed" => log[n].at <= log[c].at
            BY <2>1, <3>2
        <3>5. QED
            BY <3>1, <3>3, <3>4
    <2>2. CASE \E c \in LinesOf(s) :
                /\ log[c].kind = "closed" /\ rows[s].ended = log[c].at
                /\ \A n \in LinesOf(s) : log[n].kind = "closed" => n <= c
        <3>1. PICK c \in LinesOf(s) :
                /\ log[c].kind = "closed" /\ rows[s].ended = log[c].at
                /\ \A n \in LinesOf(s) : log[n].kind = "closed" => n <= c
            BY <2>2
        <3>2. log[c].at \in Nat /\ NoEnd \notin Nat
            BY <1>1, <1>2 DEF NoEnd
        <3>3. EndOf(s) = log[c].at
            BY <3>1, <3>2 DEF EndOf
        <3>4. \A n \in LinesOf(s) : log[n].kind = "closed" => log[n].at <= log[c].at
            BY <1>2, <3>1 DEF OrderInv
        <3>5. QED
            BY <3>1, <3>3, <3>4
    <2>3. QED
        BY <1>2, <2>1, <2>2 DEF Timed
<1>5. \A n \in LinesOf(s) : log[m].at <= log[n].at
    BY <1>2, <1>3 DEF OrderInv
<1>6. OpenedAt(s) = log[m].at
    <2>1. PICK S : S = {log[n].at : n \in LinesOf(s)}
        OBVIOUS
    <2>2. PICK x : x = log[m].at
        OBVIOUS
    <2>3. x \in S /\ \A y \in S : x <= y /\ y \in Nat
        BY <1>1, <1>2, <1>3, <1>5, <2>1, <2>2
    <2>4. Min(S) \in S /\ \A y \in S : Min(S) <= y
        BY <2>3 DEF Min
    <2>5. Min(S) \in Nat /\ x \in Nat /\ Min(S) <= x /\ x <= Min(S)
        BY <2>3, <2>4
    <2>6. QED
        BY <2>1, <2>2, <2>5 DEF OpenedAt
<1>7. CASE Closed(s)
    <2>1. PICK c \in LinesOf(s) :
            /\ log[c].kind = "closed" /\ EndOf(s) = log[c].at
            /\ \A n \in LinesOf(s) : log[n].kind = "closed" => log[n].at <= log[c].at
        BY <1>4, <1>7
    <2>2. PICK S : S = {log[n].at : n \in {k \in LinesOf(s) : log[k].kind = "closed"}}
        OBVIOUS
    <2>3. PICK x : x = log[c].at
        OBVIOUS
    <2>4. x \in S /\ \A y \in S : x >= y /\ y \in Nat
        BY <1>1, <1>2, <2>1, <2>2, <2>3
    <2>5. Max(S) \in S /\ \A y \in S : Max(S) >= y
        BY <2>4 DEF Max
    <2>6. Max(S) \in Nat /\ x \in Nat /\ Max(S) <= x /\ x <= Max(S)
        BY <2>4, <2>5
    <2>7. ClosedAt(s) = log[c].at
        BY <1>7, <2>2, <2>3, <2>6 DEF ClosedAt
    <2>8. QED
        BY <1>1, <1>2, <1>3, <1>5, <1>6, <2>1, <2>7
<1>8. CASE ~Closed(s)
    <2>1. ClosedAt(s) = OpenedAt(s)
        BY <1>8 DEF ClosedAt
    <2>2. rows[s].ended = NoEnd
        BY <1>2, <1>8 DEF Timed, Closed
    <2>3. EndOf(s) = log[m].at
        BY <1>3, <2>2 DEF EndOf
    <2>4. log[m].at \in Nat
        BY <1>1, <1>2, <1>3
    <2>5. QED
        BY <1>3, <1>6, <2>1, <2>3, <2>4
<1>9. QED
    BY <1>7, <1>8

(* Delivered without faults, the rows are those of the sessions.            *)
LEMMA DeliveredRows ==
    ASSUME BaseInv, OrderInv, HeldInv, RowInv, TimesInv,
           AllDelivered, faults = 0, AllOver
    PROVE  RowsAreWhole
<1>1. \A n \in Lines : committed[n] > 0
    BY AllCommitted
<1>2. /\ Lines = 1..Len(log) /\ Len(log) \in Nat
      /\ \A n \in Lines : log[n] \in Event /\ Genuine(log[n])
    BY LinesAre DEF BaseInv, SessionsInv, SessionsTypeOK
<1>3. DOMAIN rows \subseteq Sessions
    BY DEF BaseInv, StoreInv
<1>4. ASSUME NEW s \in Sessions, NEW n \in LinesOf(s)
      PROVE  Opened(s)
    <2>1. n \in Lines /\ log[n].session = s
        BY DEF LinesOf
    <2>2. PICK m \in Lines : log[m].session = log[n].session /\ log[m].kind = "connect"
        BY <2>1 DEF OrderInv
    <2>3. QED
        BY <2>1, <2>2 DEF Opened, LinesOf
<1>5. ASSUME NEW s \in Sessions
      PROVE  s \in DOMAIN rows <=> Opened(s)
    <2>1. Opened(s) => s \in DOMAIN rows
        BY <1>1 DEF RowInv, Opened, LinesOf
    <2>2. s \in DOMAIN rows => Opened(s)
        <3>1. s \in DOMAIN rows => \E n \in LinesOf(s) : TRUE
            BY DEF TimesInv, Timed, CommittedOf
        <3>2. QED
            BY <1>4, <3>1
    <2>3. QED
        BY <2>1, <2>2
<1>6. ASSUME NEW s \in DOMAIN rows
      PROVE  rows[s].attacker = Owner[s]
    <2>1. s \in Sessions /\ Opened(s) /\ Resolved(s)
        BY <1>3, <1>5 DEF AllOver
    <2>2. PICK n \in LinesOf(s) : s \notin Pivots \/ log[n].attacker = Owner[s]
        BY <2>1 DEF Resolved, Opened
    <2>3. n \in Lines /\ log[n].session = s
        BY <2>2 DEF LinesOf
    <2>4. log[n].attacker = Owner[s]
        BY <1>2, <2>2, <2>3 DEF Genuine, Peer
    <2>5. QED
        BY <1>1, <2>3, <2>4 DEF RowInv
<1>7. ASSUME NEW s \in DOMAIN rows
      PROVE  /\ rows[s].started = OpenedAt(s) /\ EndOf(s) = ClosedAt(s)
             /\ OpenedAt(s) \in Nat /\ ClosedAt(s) \in Nat /\ OpenedAt(s) <= ClosedAt(s)
    <2>1. Timed(s)
        BY DEF TimesInv
    <2>2. QED
        BY <1>1, <2>1, TimesOfSession
<1>8. IsFiniteSet(DOMAIN rows)
    <2>1. IsFiniteSet(Lines)
        BY <1>2, FS_Interval
    <2>2. IsFiniteSet({log[n].session : n \in Lines})
        <3>1. [n \in Lines |-> log[n].session] \in Surjection(Lines, {log[n].session : n \in Lines})
            BY DEF Surjection
        <3>2. QED
            BY <2>1, <3>1, FS_Surjection
    <2>3. DOMAIN rows \subseteq {log[n].session : n \in Lines}
        <3>1. ASSUME NEW s \in DOMAIN rows
              PROVE  \E n \in Lines : log[n].session = s
            BY DEF TimesInv, Timed, CommittedOf, LinesOf
        <3>2. QED
            BY <3>1
    <2>4. QED
        BY <2>2, <2>3, FS_Subset
<1>9. QED
    BY <1>5, <1>6, <1>7, <1>8 DEF RowsAreWhole

(* The rows build_visits groups for one attacker.                           *)
RowsOf(a) == {r \in SessionRows : r.attacker = a}

(* What the query of api/retention.py hands over for a session.             *)
LEMMA SessionRowIs ==
    ASSUME RowsAreWhole, NEW s \in DOMAIN rows
    PROVE  /\ SessionRow(s).session = s /\ SessionRow(s).attacker = Owner[s]
           /\ SessionRow(s).started = OpenedAt(s) /\ SessionRow(s).ended = ClosedAt(s)
           /\ SessionRow(s).started \in Nat /\ SessionRow(s).ended \in Nat
           /\ SessionRow(s).started <= SessionRow(s).ended
<1>1. /\ rows[s].attacker = Owner[s]
      /\ rows[s].started = OpenedAt(s) /\ EndOf(s) = ClosedAt(s)
      /\ OpenedAt(s) \in Nat /\ ClosedAt(s) \in Nat /\ OpenedAt(s) <= ClosedAt(s)
    BY DEF RowsAreWhole
<1>2. SessionRow(s).ended = EndOf(s)
    BY DEF SessionRow, EndOf
<1>3. QED
    BY <1>1, <1>2 DEF SessionRow

(* They are finitely many, and those of the attacker's sessions.            *)
LEMMA RowsOfAttacker ==
    ASSUME RowsAreWhole, DOMAIN rows \subseteq Sessions, NEW a
    PROVE  /\ IsFiniteSet(RowsOf(a)) /\ Spans(RowsOf(a))
           /\ \A r \in RowsOf(a) : /\ r.session \in DOMAIN rows /\ r = SessionRow(r.session)
                                   /\ Owner[r.session] = a
           /\ \A s \in Sessions : Opened(s) /\ Owner[s] = a => SessionRow(s) \in RowsOf(a)
<1>1. IsFiniteSet(SessionRows)
    <2>1. [s \in DOMAIN rows |-> SessionRow(s)] \in Surjection(DOMAIN rows, SessionRows)
        BY DEF Surjection, SessionRows
    <2>2. QED
        BY <2>1, FS_Surjection DEF RowsAreWhole
<1>2. IsFiniteSet(RowsOf(a))
    BY <1>1, FS_Subset DEF RowsOf
<1>3. ASSUME NEW r \in RowsOf(a)
      PROVE  /\ r.session \in DOMAIN rows /\ r = SessionRow(r.session)
             /\ Owner[r.session] = a
    <2>1. PICK s \in DOMAIN rows : r = SessionRow(s)
        BY DEF RowsOf, SessionRows
    <2>2. r.attacker = a
        BY DEF RowsOf
    <2>3. QED
        BY <2>1, <2>2, SessionRowIs
<1>4. Spans(RowsOf(a))
    BY <1>3, SessionRowIs DEF Spans
<1>5. ASSUME NEW s \in Sessions, Opened(s), Owner[s] = a
      PROVE  SessionRow(s) \in RowsOf(a)
    <2>1. s \in DOMAIN rows
        BY <1>5 DEF RowsAreWhole
    <2>2. QED
        BY <1>5, <2>1, SessionRowIs DEF RowsOf, SessionRows
<1>6. QED
    BY <1>2, <1>3, <1>4, <1>5

(* What the rows say of a time, the sessions say too.                       *)
LEMMA QuietOfRows ==
    ASSUME RowsAreWhole, DOMAIN rows \subseteq Sessions, NEW a, NEW t \in Nat,
           Fresh(RowsOf(a), t)
    PROVE  QuietFor(a, t - VisitGap - 1, t)
<1> SUFFICES ASSUME NEW s \in Sessions, Owner[s] = a, Opened(s)
             PROVE  ClosedAt(s) <= t - VisitGap - 1 \/ OpenedAt(s) >= t
    BY DEF QuietFor
<1>1. s \in DOMAIN rows /\ SessionRow(s) \in RowsOf(a)
    BY RowsOfAttacker DEF RowsAreWhole
<1>2. /\ SessionRow(s).started = OpenedAt(s) /\ SessionRow(s).ended = ClosedAt(s)
      /\ ClosedAt(s) \in Nat /\ OpenedAt(s) \in Nat
    BY <1>1, SessionRowIs
<1>3. OpenedAt(s) >= t \/ ClosedAt(s) + VisitGap < t
    BY <1>1, <1>2 DEF Fresh
<1>4. QED
    BY <1>2, <1>3, VisitGapAssumption

(* And when the rows leave no quiet time, the sessions leave none.          *)
LEMMA BusyOfRows ==
    ASSUME RowsAreWhole, DOMAIN rows \subseteq Sessions, NEW a, NEW r \in RowsOf(a),
           Bridged(RowsOf(a), r)
    PROVE  ~QuietFor(a, r.started - VisitGap - 1, r.started)
<1>1. PICK p \in RowsOf(a) : p.started < r.started /\ p.ended >= r.started - VisitGap
    BY DEF Bridged
<1>2. PICK s : s = p.session
    OBVIOUS
<1>3. s \in DOMAIN rows /\ p = SessionRow(s) /\ Owner[s] = a
    BY <1>2, RowsOfAttacker
<1>4. s \in Sessions /\ Opened(s)
    BY <1>3 DEF RowsAreWhole
<1>5. /\ p.started = OpenedAt(s) /\ p.ended = ClosedAt(s)
      /\ OpenedAt(s) \in Nat /\ ClosedAt(s) \in Nat /\ r.started \in Nat
    BY <1>3, SessionRowIs, RowsOfAttacker DEF Spans
<1>6. ~(ClosedAt(s) <= r.started - VisitGap - 1) /\ ~(OpenedAt(s) >= r.started)
    BY <1>1, <1>5, VisitGapAssumption
<1>7. QED
    BY <1>3, <1>4, <1>6 DEF QuietFor

(* Every visit is one of the visits of its attacker.                        *)
LEMMA WhoseVisit ==
    ASSUME RowsAreWhole, DOMAIN rows \subseteq Sessions
    PROVE  /\ \A v \in Visits :
                /\ v = CloseVisit(v.attacker, v.rows)
                /\ Kept(RowsOf(v.attacker), v.rows)
           /\ \A u, v \in Visits : u.attacker = v.attacker =>
                u = v \/ Before(u.rows, v.rows) \/ Before(v.rows, u.rows)
           /\ UNION {v.rows : v \in Visits} = SessionRows
<1> DEFINE Who == {r.attacker : r \in SessionRows}
<1>1. Visits = UNION {VisitsOf(a, RowsOf(a)) : a \in Who}
    BY DEF Visits, BuildVisits, RowsOf
<1>2. ASSUME NEW a \in Who
      PROVE  Returns(a, RowsOf(a), VisitsOf(a, RowsOf(a)))
    <2>1. RowsOf(a) # {}
        BY DEF RowsOf
    <2> HIDE DEF Who
    <2>2. QED
        BY <2>1, RowsOfAttacker, VisitsReturned
<1> HIDE DEF Who
<1>3. ASSUME NEW a \in Who
      PROVE  /\ \A v \in VisitsOf(a, RowsOf(a)) :
                v.attacker = a /\ v = CloseVisit(a, v.rows) /\ Kept(RowsOf(a), v.rows)
             /\ \A u, v \in VisitsOf(a, RowsOf(a)) :
                u = v \/ Before(u.rows, v.rows) \/ Before(v.rows, u.rows)
             /\ UNION {v.rows : v \in VisitsOf(a, RowsOf(a))} = RowsOf(a)
    <2>1. \A Q : CloseVisit(a, Q).attacker = a
        BY DEF CloseVisit
    <2>2. QED
        BY <1>2, <2>1 DEF Returns
<1>4. ASSUME NEW v \in Visits
      PROVE  v.attacker \in Who /\ v \in VisitsOf(v.attacker, RowsOf(v.attacker))
    <2>1. PICK a \in Who : v \in VisitsOf(a, RowsOf(a))
        BY <1>1
    <2>2. QED
        BY <1>3, <2>1
<1>5. UNION {v.rows : v \in Visits} \subseteq SessionRows
    <2>1. ASSUME NEW v \in Visits
          PROVE  v.rows \subseteq SessionRows
        <3>1. Kept(RowsOf(v.attacker), v.rows)
            BY <1>3, <1>4
        <3>2. v.rows \subseteq RowsOf(v.attacker)
            BY <3>1 DEF Kept
        <3>3. RowsOf(v.attacker) \subseteq SessionRows
            BY DEF RowsOf
        <3>4. QED
            BY <3>2, <3>3
    <2>2. QED
        BY <2>1
<1>6. SessionRows \subseteq UNION {v.rows : v \in Visits}
    <2>1. ASSUME NEW r \in SessionRows
          PROVE  \E v \in Visits : r \in v.rows
        <3>1. PICK a \in Who : a = r.attacker /\ r \in RowsOf(a)
            BY DEF Who, RowsOf
        <3>2. r \in UNION {v.rows : v \in VisitsOf(a, RowsOf(a))}
            BY <1>3, <3>1
        <3>3. PICK v \in VisitsOf(a, RowsOf(a)) : r \in v.rows
            BY <3>2
        <3>4. v \in Visits
            BY <1>1, <3>1, <3>3
        <3>5. QED
            BY <3>3, <3>4
    <2>2. QED
        BY <2>1
<1>7. \A v \in Visits : v = CloseVisit(v.attacker, v.rows) /\ Kept(RowsOf(v.attacker), v.rows)
    BY <1>3, <1>4
<1>8. ASSUME NEW u \in Visits, NEW v \in Visits, u.attacker = v.attacker
      PROVE  u = v \/ Before(u.rows, v.rows) \/ Before(v.rows, u.rows)
    BY <1>3, <1>4, <1>8
<1>9. QED
    BY <1>5, <1>6, <1>7, <1>8

(* The visits, in terms of the sessions of their attacker.                  *)
LEMMA VisitsAreTrue ==
    ASSUME RowsAreWhole, DOMAIN rows \subseteq Sessions
    PROVE  /\ \A v \in Visits : QuietFor(v.attacker, v.started - VisitGap - 1, v.started)
           /\ \A v \in Visits : \A r \in v.rows :
                r.started = v.started \/ ~QuietFor(v.attacker, r.started - VisitGap - 1, r.started)
           /\ \A v, w \in Visits : v.attacker = w.attacker /\ v # w =>
                v.started - w.ended > VisitGap \/ w.started - v.ended > VisitGap
           /\ \A v \in Visits : \A r \in v.rows : v.attacker = Owner[r.session]
<1>1. ASSUME NEW v \in Visits
      PROVE  /\ \E f \in v.rows :
                /\ v.started = f.started
                /\ Fresh(RowsOf(v.attacker), f.started)
                /\ \A q \in v.rows : q.started = f.started \/ Bridged(RowsOf(v.attacker), q)
             /\ \E l \in v.rows : v.ended = l.ended
             /\ v.rows \subseteq RowsOf(v.attacker)
             /\ Spans(RowsOf(v.attacker))
    <2>1. v = CloseVisit(v.attacker, v.rows) /\ Kept(RowsOf(v.attacker), v.rows)
        BY WhoseVisit
    <2>2. Spans(RowsOf(v.attacker))
        BY RowsOfAttacker
    <2>3. v.rows \subseteq RowsOf(v.attacker)
        BY <2>1 DEF Kept
    <2>4. PICK a, Q : a = v.attacker /\ Q = v.rows
        OBVIOUS
    <2>5. v = CloseVisit(a, Q) /\ Kept(RowsOf(a), Q) /\ Spans(RowsOf(a))
        BY <2>1, <2>2, <2>4
    <2>6. /\ \E f \in Q :
                /\ v.started = f.started
                /\ Fresh(RowsOf(a), f.started)
                /\ \A q \in Q : q.started = f.started \/ Bridged(RowsOf(a), q)
          /\ \E l \in Q : v.ended = l.ended
        BY <2>5, VisitEnds
    <2>7. QED
        BY <2>2, <2>3, <2>4, <2>6
<1>2. ASSUME NEW v \in Visits
      PROVE  QuietFor(v.attacker, v.started - VisitGap - 1, v.started)
    <2>1. PICK f \in v.rows : v.started = f.started /\ Fresh(RowsOf(v.attacker), f.started)
        BY <1>1
    <2>2. v.started \in Nat
        BY <1>1, <2>1 DEF Spans
    <2>3. QED
        BY <2>1, <2>2, QuietOfRows
<1>3. ASSUME NEW v \in Visits, NEW r \in v.rows, r.started # v.started
      PROVE  ~QuietFor(v.attacker, r.started - VisitGap - 1, r.started)
    <2>1. r \in RowsOf(v.attacker) /\ Bridged(RowsOf(v.attacker), r)
        BY <1>1, <1>3
    <2>2. QED
        BY <2>1, BusyOfRows
<1>4. ASSUME NEW u \in Visits, NEW v \in Visits, Before(u.rows, v.rows)
      PROVE  v.started - u.ended > VisitGap
    <2>1. PICK l \in u.rows : u.ended = l.ended
        BY <1>1
    <2>2. PICK f \in v.rows : v.started = f.started
        BY <1>1
    <2>3. l.ended + VisitGap < f.started
        BY <1>4, <2>1, <2>2 DEF Before
    <2>4. l.ended \in Nat /\ f.started \in Nat
        BY <1>1, <2>1, <2>2 DEF Spans
    <2>5. QED
        BY <2>1, <2>2, <2>3, <2>4, VisitGapAssumption
<1>5. ASSUME NEW v \in Visits, NEW w \in Visits, v.attacker = w.attacker, v # w
      PROVE  v.started - w.ended > VisitGap \/ w.started - v.ended > VisitGap
    <2>1. Before(v.rows, w.rows) \/ Before(w.rows, v.rows)
        BY <1>5, WhoseVisit
    <2>2. QED
        BY <1>4, <2>1
<1>6. ASSUME NEW v \in Visits, NEW r \in v.rows
      PROVE  v.attacker = Owner[r.session]
    <2>1. r \in RowsOf(v.attacker)
        BY <1>1
    <2>2. QED
        BY <2>1, RowsOfAttacker
<1>7. QED
    BY <1>2, <1>3, <1>5, <1>6

(* VisitsAreReturns holds whatever the sessions, the gap and the order of   *)
(* deliveries: when everything has been delivered without faults and the    *)
(* sessions are over, the visits that build_visits makes of the rows        *)
(* _upsert_session left are those of the sessions. A visit starts where its *)
(* attacker had no session anywhere for longer than the gap, no session     *)
(* inside it does, two visits of one attacker are apart, each session is in *)
(* one, and a visit is of one person.                                       *)
THEOREM VisitsReturn == Spec => []VisitsAreReturns
<1> DEFINE Inv == /\ BaseInv /\ LedgerInv /\ AloneInv /\ RowInv /\ ExactInv
                  /\ ConnInv /\ OrderInv /\ CleanInv /\ TimesInv
<1>1. Init => Inv
    <2> SUFFICES ASSUME Init
                 PROVE  Inv
        OBVIOUS
    <2>1. /\ Lines = {} /\ DOMAIN rows = {} /\ Busy = {}
          /\ \A h \in Handlers : work[h].row = NoRow /\ work[h].step = "idle"
        BY JobIs DEF Init, SessionsInit, Lines, Nothing, Busy
    <2>2. RowInv /\ AloneInv /\ ExactInv /\ OrderInv /\ TimesInv
        BY <2>1 DEF RowInv, AloneInv, ExactInv, RowSeen, OrderInv, TimesInv
    <2>3. CleanInv
        BY <2>1 DEF CleanInv, Init
    <2>4. ConnInv
        BY DEF ConnInv, Init, SessionsInit
    <2>5. QED
        BY <2>2, <2>3, <2>4, InitBase, InitLedger
<1>2. Inv /\ [Next]_vars => Inv'
    <2>1. BaseInv /\ LedgerInv /\ [Next]_vars => BaseInv' /\ LedgerInv'
        BY BaseNext, HeldNext, IndexNext, AlertsNext, LoadNext DEF LedgerInv
    <2>2. BaseInv /\ AloneInv /\ RowInv /\ ExactInv /\ [Next]_vars => AloneInv' /\ RowInv' /\ ExactInv'
        BY AloneNext, RowNext, ExactNext
    <2>3. BaseInv /\ ConnInv /\ OrderInv /\ [Next]_vars => ConnInv' /\ OrderInv'
        BY OrderNext
    <2>4. BaseInv /\ ExactInv /\ CleanInv /\ [Next]_vars => CleanInv'
        BY CleanNext
    <2>5. Inv /\ [Next]_vars => TimesInv'
        BY TimesNext DEF LedgerInv
    <2>6. QED
        BY <2>1, <2>2, <2>3, <2>4, <2>5
<1>3. Inv => VisitsAreReturns
    <2> SUFFICES ASSUME Inv, AllDelivered, faults = 0,
                        \A s \in Sessions : Opened(s) => Resolved(s)
                 PROVE  /\ \A v \in Visits : QuietFor(v.attacker, v.started - VisitGap - 1, v.started)
                        /\ \A v \in Visits : \A r \in v.rows :
                               r.started = v.started \/ ~QuietFor(v.attacker, r.started - VisitGap - 1, r.started)
                        /\ \A v, w \in Visits : v.attacker = w.attacker /\ v # w =>
                               v.started - w.ended > VisitGap \/ w.started - v.ended > VisitGap
                        /\ UNION {v.rows : v \in Visits} = SessionRows
                        /\ \A v \in Visits : \A r \in v.rows : v.attacker = Owner[r.session]
        BY DEF VisitsAreReturns
    <2>1. RowsAreWhole
        BY DeliveredRows DEF LedgerInv, AllOver
    <2>2. DOMAIN rows \subseteq Sessions
        BY DEF BaseInv, StoreInv
    <2>3. QED
        BY <2>1, <2>2, VisitsAreTrue, WhoseVisit
<1>4. QED
    <2> HIDE DEF Inv
    <2>1. QED
        BY <1>1, <1>2, <1>3, PTL DEF Spec
=============================================================================
