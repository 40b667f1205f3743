------------------------------ MODULE HubIngest ------------------------------
(***************************************************************************)
(* The intelligence hub's pipeline: from the events of SessionEvents to    *)
(* the documents, graph, session rows and alerts the analysts read, and    *)
(* from the rows to the visits of Retention.                               *)
(*                                                                         *)
(* Models receiver.py with what it calls: normalizer.py, mitre.py,         *)
(* scorer.py, elastic.py, neo4j.py, and the tables of postgres.py.         *)
(* process_event is a coroutine; others go on at each `await`.  What is     *)
(* awaited without reading anything (index_event, publish) is done in the  *)
(* step before it.  The sensor posts one event after the other, waits for  *)
(* the answer, and posts again what was refused or not answered in time,   *)
(* so a second handler runs whenever the first was given up.               *)
(***************************************************************************)
EXTENDS SessionEvents, Retention

CONSTANTS
    Handlers,       \* requests that can be in service at once
    NoHandler,
    MaxEvents,      \* bound: events of a behaviour
    MaxFaults,      \* bound: faults
    FaultKinds      \* which faults may happen

ASSUME HubAssumption ==
    /\ NoHandler \notin Handlers
    /\ {MaxEvents, MaxFaults} \subseteq Nat

VARIABLES
    next,       \* the shipper's next line of the log
    waiting,    \* the handler the shipper waits for
    spool,      \* lines the shipper has to post again
    work,       \* handler -> the event it is at, and its local variables
    indexed,    \* cowrie-events: how often each line was indexed
    iocs,       \* cowrie-iocs: the documents there are
    graph,      \* Neo4j: the relations there are
    rows,       \* sessions: the rows there are
    alerts,     \* alerts: the lines that raised one, with how often
    committed,  \* ghost: how often each line was committed to Postgres
    overlapped, \* ghost: has a handler started while another was at work?
    forgotten,  \* ghost: was an IOC overwritten because it could not be read?
    faults

storeVars == <<indexed, iocs, graph, rows, alerts>>
shipVars == <<next, waiting, spool>>
ghostVars == <<committed, overlapped, forgotten>>
hubVars == <<shipVars, work, storeVars, ghostVars, faults>>
vars == <<sessionVars, hubVars>>

NoRow == [started |-> -1]
NoDoc == [hits |-> 0]
NoEnd == -1
Lines == DOMAIN log

-----------------------------------------------------------------------------
(* normalize, enrich_mitre and compute_threat_score.                       *)

(* COWRIE_EVENT_MAP                                                        *)
BaseScore(kind) == CASE kind = "connect"       -> 30
                     [] kind = "login_failed"  -> 60
                     [] kind = "login_success" -> 95
                     [] kind = "command"       -> 80
                     [] kind = "closed"        -> 10
                     [] kind \in {"version", "kex"} -> 20
                     [] kind = "direct_tcpip"  -> 75

(* MITRE_MAP: the kinds with one of the techniques the scorer raises.      *)
HighValue == {"login_success", "command"}
HasTechnique(kind) == kind # "closed"

(* compute_threat_score; the boost for an hour before six is left out, as  *)
(* it moves no kind across the alert threshold.                            *)
ThreatScore(kind) ==
    LET raised == BaseScore(kind) + (IF kind \in HighValue THEN 20 ELSE 0) IN
      CASE kind = "login_success" -> 95
        [] kind = "command" -> Min({raised + 15, 100})
        [] OTHER -> Min({raised, 100})

AlertThreshold == 70

(* The IOCs process_event upserts for an event, in this order.             *)
IocsOf(e) == <<<<"ip", e.src>>>>
          \o (IF e.hassh THEN <<<<"hassh", Owner[e.session]>>>> ELSE <<>>)
          \o (IF e.user THEN <<<<"username", Owner[e.session]>>>> ELSE <<>>)

(* What write_session_graph MERGEs, one transaction each.                  *)
MergesOf(e) == <<<<"INITIATED", e.src, e.session>>>>
            \o (IF e.hassh THEN <<<<"USES", e.src, Owner[e.session]>>>> ELSE <<>>)
            \o (IF e.kind \in {"login_failed", "login_success"}
                THEN <<<<"ATTEMPTED", e.src, Owner[e.session]>>>> ELSE <<>>)
            \o (IF HasTechnique(e.kind)
                THEN <<<<"HAS_TECHNIQUE", e.session, e.kind>>>> ELSE <<>>)

-----------------------------------------------------------------------------
Idle == [line |-> 0, step |-> "idle", todo |-> <<>>, doc |-> NoDoc, row |-> NoRow]
Steps == {"idle", "get", "put", "graph", "select", "commit"}

Row == [attacker : Attackers \cup {JumpHost}, adaptive : BOOLEAN, started : Nat,
        ended : Nat \cup {NoEnd}, count : Nat, logins : Nat, hassh : BOOLEAN,
        threat : 0..100]
Doc == [hits : Nat \ {0}, sessions : SUBSET Sessions, threat : 0..100]

(* Counters, rows and documents are of their kind; no line is lost between *)
(* the log, the spool and the request under way, and what was committed    *)
(* was indexed before.                                                     *)
HubTypeOK ==
    /\ SessionsTypeOK
    /\ next \in 1..Len(log) + 1
    /\ waiting \in Handlers \cup {NoHandler}
    /\ spool \subseteq 1..next - 1
    /\ indexed \in [Lines -> Nat]
    /\ \A i \in DOMAIN iocs : iocs[i] \in Doc
    /\ DOMAIN rows \subseteq Sessions
    /\ \A s \in DOMAIN rows : rows[s] \in Row
    /\ alerts \in [Lines -> Nat]
    /\ committed \in [Lines -> Nat]
    /\ \A h \in Handlers : work[h].line \in 0..next - 1 /\ work[h].step \in Steps
    /\ \A n \in 1..next - 1 :
           \/ committed[n] > 0
           \/ n \in spool
           \/ waiting # NoHandler /\ work[waiting].line = n
    /\ \A n \in Lines : committed[n] <= indexed[n]

Nothing == [x \in {} |-> 0]

Init ==
    /\ SessionsInit
    /\ next = 1
    /\ waiting = NoHandler
    /\ spool = {}
    /\ work = [h \in Handlers |-> Idle]
    /\ indexed = <<>> /\ alerts = <<>> /\ committed = <<>>
    /\ iocs = Nothing
    /\ graph = {}
    /\ rows = Nothing
    /\ overlapped = FALSE
    /\ forgotten = FALSE
    /\ faults = 0

(* The counters of the lines grow with the log.                            *)
Grow(count) == [n \in DOMAIN log' |-> IF n \in Lines THEN count[n] ELSE 0]

SessionsMove ==
    /\ \E s \in Sessions : SessionStep(s)
    /\ Len(log') <= MaxEvents
    /\ indexed' = Grow(indexed) /\ alerts' = Grow(alerts) /\ committed' = Grow(committed)
    /\ UNCHANGED <<shipVars, work, iocs, graph, rows, overlapped, forgotten, faults>>

TimePasses ==
    /\ Tick
    /\ UNCHANGED hubVars

-----------------------------------------------------------------------------
(* The shipper as the hub sees it.                                         *)

Busy == {h \in Handlers : work[h] # Idle}

(* ingest_log: the event is taken up, normalized, enriched and indexed.    *)
Post(h, n) ==
    /\ waiting = NoHandler
    /\ work[h] = Idle
    /\ work' = [work EXCEPT ![h] = [Idle EXCEPT !.line = n, !.step = "get",
                                                !.todo = IocsOf(log[n])]]
    /\ waiting' = h
    /\ overlapped' = (overlapped \/ Busy # {})
    /\ indexed' = [indexed EXCEPT ![n] = @ + 1]
    /\ UNCHANGED <<sessionVars, iocs, graph, rows, alerts, committed, forgotten, faults>>

PostNext(h) ==
    /\ next <= Len(log)
    /\ Post(h, next)
    /\ next' = next + 1
    /\ UNCHANGED spool

PostAgain(h) ==
    /\ spool # {}
    /\ Post(h, Min(spool))
    /\ spool' = spool \ {Min(spool)}
    /\ UNCHANGED next

(* Mutant: a refused line counts as delivered.                             *)
AnswerForgets(h, ok) ==
    /\ work' = [work EXCEPT ![h] = Idle]
    /\ waiting' = IF waiting = h THEN NoHandler ELSE waiting
    /\ UNCHANGED <<next, spool>>

(* The answer comes back, or an error: then the line is posted again.      *)
Answer(h, ok) ==
    /\ work' = [work EXCEPT ![h] = Idle]
    /\ waiting' = IF waiting = h THEN NoHandler ELSE waiting
    /\ spool' = IF waiting = h /\ ~ok THEN spool \cup {work[h].line} ELSE spool
    /\ UNCHANGED next

Fault(kind) ==
    /\ kind \in FaultKinds
    /\ faults < MaxFaults
    /\ faults' = faults + 1

(* The shipper's timeout: the handler goes on alone.                       *)
TimesOut ==
    /\ waiting # NoHandler
    /\ Fault("timeout")
    /\ spool' = spool \cup {work[waiting].line}
    /\ waiting' = NoHandler
    /\ UNCHANGED <<sessionVars, next, work, storeVars, ghostVars>>

-----------------------------------------------------------------------------
(* process_event.                                                          *)

At(h, step) == work[h].step = step
EventOf(h) == log[work[h].line]
Continue(h, job) == work' = [work EXCEPT ![h] = job]
GoTo(h, step) == Continue(h, [work[h] EXCEPT !.step = step])

Stored(ioc) == IF ioc \in DOMAIN iocs THEN iocs[ioc] ELSE NoDoc

(* upsert_ioc: read the document ...                                       *)
ReadIoc(h) ==
    /\ At(h, "get")
    /\ Continue(h, [work[h] EXCEPT !.doc = Stored(work[h].todo[1]), !.step = "put"])
    /\ UNCHANGED <<sessionVars, shipVars, storeVars, ghostVars, faults>>

(* ... where an error looks like a document that is not there ...          *)
ReadIocFails(h) ==
    /\ At(h, "get")
    /\ Fault("read")
    /\ Continue(h, [work[h] EXCEPT !.doc = NoDoc, !.step = "put"])
    /\ forgotten' = (forgotten \/ Stored(work[h].todo[1]) # NoDoc)
    /\ UNCHANGED <<sessionVars, shipVars, storeVars, committed, overlapped>>

(* Mutant: the list of sessions is replaced instead of extended.           *)
MergedDocLastSession(doc, e) ==
    [hits |-> doc.hits + 1, sessions |-> {e.session},
     threat |-> Max({ThreatScore(e.kind)})]

(* ... and write the merged one over it.                                   *)
MergedDoc(doc, e) ==
    IF doc = NoDoc
    THEN [hits |-> 1, sessions |-> {e.session}, threat |-> ThreatScore(e.kind)]
    ELSE [hits |-> doc.hits + 1, sessions |-> doc.sessions \cup {e.session},
          threat |-> Max({doc.threat, ThreatScore(e.kind)})]

With(f, x, y) == [i \in DOMAIN f \cup {x} |-> IF i = x THEN y ELSE f[i]]

WriteIoc(h) ==
    /\ At(h, "put")
    /\ iocs' = With(iocs, work[h].todo[1], MergedDoc(work[h].doc, EventOf(h)))
    /\ LET rest == Tail(work[h].todo) IN
         Continue(h, [work[h] EXCEPT !.todo = rest, !.doc = NoDoc,
                                     !.step = IF rest = <<>> THEN "graph" ELSE "get"])
    /\ UNCHANGED <<sessionVars, shipVars, indexed, graph, rows, alerts, ghostVars, faults>>

(* Mutant: only the address and the session are linked.                    *)
WriteFirstMerge(h) ==
    /\ At(h, "graph")
    /\ graph' = graph \cup {Head(MergesOf(EventOf(h)))}
    /\ GoTo(h, "select")
    /\ UNCHANGED <<sessionVars, shipVars, indexed, iocs, rows, alerts, ghostVars, faults>>

(* write_session_graph: MERGE adds what is missing.                        *)
WriteGraph(h) ==
    /\ At(h, "graph")
    /\ graph' = graph \cup Range(MergesOf(EventOf(h)))
    /\ GoTo(h, "select")
    /\ UNCHANGED <<sessionVars, shipVars, indexed, iocs, rows, alerts, ghostVars, faults>>

(* A query of the graph fails; those before it are done.                   *)
GraphFails(h) ==
    /\ At(h, "graph")
    /\ Fault("graph")
    /\ LET merges == MergesOf(EventOf(h)) IN
         \E k \in 0..Len(merges) - 1 : graph' = graph \cup {merges[i] : i \in 1..k}
    /\ Answer(h, FALSE)
    /\ UNCHANGED <<sessionVars, indexed, iocs, rows, alerts, ghostVars>>

(* Postgres: SELECT the row of the session ...                             *)
SelectRow(h) ==
    /\ At(h, "select")
    /\ LET s == EventOf(h).session IN
         Continue(h, [work[h] EXCEPT !.row = IF s \in DOMAIN rows THEN rows[s] ELSE NoRow,
                                     !.step = "commit"])
    /\ UNCHANGED <<sessionVars, shipVars, storeVars, ghostVars, faults>>

NewRow(e) ==
    [attacker |-> e.attacker, adaptive |-> e.adaptive, started |-> e.at, ended |-> NoEnd,
     count |-> 0, logins |-> 0, hassh |-> e.hassh, threat |-> ThreatScore(e.kind)]

(* Mutant: whichever event comes last is believed.                         *)
LatestAttackerWins(read, e) == e.attacker

(* Only an attacker that differs from the source address is authoritative. *)
CorrectedAttacker(read, e) == IF e.attacker # e.src THEN e.attacker ELSE read.attacker

(* `duration` is the time since the connection was accepted, which is when *)
(* its first event was emitted.  It is only looked at as a truth value.    *)
Lasted(e) == \E n \in Lines : log[n].session = e.session /\ log[n].at < e.at

(* Mutant: the score is that of the latest event.                          *)
UpdatedLatestScore(now, read, e) ==
    [now EXCEPT !.count = read.count + 1, !.threat = ThreatScore(e.kind),
                !.ended = IF e.kind = "closed" /\ Lasted(e) THEN e.at ELSE @,
                !.attacker = CorrectedAttacker(read, e)]

(* The columns an UPDATE sets: those whose value differs from what the     *)
(* SELECT returned, as the ORM compares them.  The rest is as it is now.   *)
Updated(now, read, e) ==
    LET wants == [read EXCEPT
            !.count = @ + 1,
            !.threat = Max({@, ThreatScore(e.kind)}),
            !.logins = IF e.kind = "login_failed" THEN @ + 1 ELSE @,
            !.ended = IF e.kind = "closed" /\ Lasted(e) THEN e.at ELSE @,
            !.hassh = @ \/ e.hassh,
            !.attacker = CorrectedAttacker(read, e)]
    IN  [column \in DOMAIN now |->
            IF wants[column] # read[column] THEN wants[column] ELSE now[column]]

RaisesAlert(e) == ThreatScore(e.kind) >= AlertThreshold

(* Mutant: the alert is stored by whoever finds a row to update.           *)
AlertOnUpdate(h) ==
    IF RaisesAlert(EventOf(h)) /\ work[h].row # NoRow
    THEN [alerts EXCEPT ![work[h].line] = @ + 1] ELSE alerts

AlertsAfter(h) ==
    IF RaisesAlert(EventOf(h)) THEN [alerts EXCEPT ![work[h].line] = @ + 1] ELSE alerts

(* ... and INSERT or UPDATE it, in one transaction with the alert.         *)
Store(h) ==
    /\ At(h, "commit")
    /\ LET e == EventOf(h) IN
         \/ /\ work[h].row = NoRow /\ e.session \notin DOMAIN rows
            /\ rows' = With(rows, e.session, NewRow(e))
         \/ /\ work[h].row # NoRow
            /\ rows' = [rows EXCEPT ![e.session] = Updated(@, work[h].row, e)]
    /\ alerts' = AlertsAfter(h)
    /\ committed' = [committed EXCEPT ![work[h].line] = @ + 1]
    /\ UNCHANGED <<sessionVars, indexed, iocs, graph, overlapped, forgotten>>

(* The event is committed and published.                                   *)
Commit(h) == Store(h) /\ Answer(h, TRUE) /\ UNCHANGED faults

(* Redis is down: the event is committed, and the answer is an error.      *)
PublishFails(h) == Store(h) /\ Fault("redis") /\ Answer(h, FALSE)

(* Another handler has inserted the row since the SELECT: a duplicate key. *)
InsertCollides(h) ==
    /\ At(h, "commit")
    /\ work[h].row = NoRow /\ EventOf(h).session \in DOMAIN rows
    /\ Answer(h, FALSE)
    /\ UNCHANGED <<sessionVars, storeVars, ghostVars, faults>>

(* A request to Elasticsearch or Postgres fails: process_event raises.     *)
StoreFails(h) ==
    /\ work[h].step \in {"get", "put", "select", "commit"}
    /\ Fault("store")
    /\ Answer(h, FALSE)
    /\ UNCHANGED <<sessionVars, storeVars, ghostVars>>

HandlerStep(h) ==
    \/ ReadIoc(h) \/ WriteIoc(h) \/ WriteGraph(h) \/ SelectRow(h)
    \/ Commit(h) \/ InsertCollides(h)
HandlerFault(h) == ReadIocFails(h) \/ GraphFails(h) \/ StoreFails(h) \/ PublishFails(h)
ShipperStep == \E h \in Handlers : PostNext(h) \/ PostAgain(h)

Next ==
    \/ SessionsMove \/ TimePasses
    \/ ShipperStep \/ TimesOut
    \/ \E h \in Handlers : HandlerStep(h) \/ HandlerFault(h)

Spec == Init /\ [][Next]_vars

-----------------------------------------------------------------------------
(* Properties.                                                             *)

LinesOf(s) == {n \in Lines : log[n].session = s}
CommittedOf(s) == {n \in LinesOf(s) : committed[n] > 0}

(* However the events of a pivot are delayed, repeated or reordered on     *)
(* their way, once one that names the owner is in the database the row     *)
(* belongs to the owner, and never to another attacker.                    *)
RowKnowsOwner ==
    \A s \in DOMAIN rows :
        /\ rows[s].attacker \in {Owner[s], JumpHost}
        /\ (\E n \in CommittedOf(s) : log[n].attacker = Owner[s]) =>
               rows[s].attacker = Owner[s]

(* Lost updates need two requests at once: until then the row counts every *)
(* event but the one that created it, and its score is the highest seen.   *)
RowIsExact ==
    ~overlapped => \A s \in DOMAIN rows :
        /\ rows[s].count = FoldSet(LAMBDA n, sum : sum + committed[n], 0, LinesOf(s)) - 1
        /\ rows[s].threat = Max({ThreatScore(log[n].kind) : n \in CommittedOf(s)})

(* A line is posted again when its answer is lost, and the hub does not    *)
(* know it again.  Still an alert is missing only while its line is under  *)
(* way, and there are no more alerts than lines that deserve one but for   *)
(* one with each fault: neither a retry that finds a first attempt at work *)
(* nor a duplicate key makes another.                                      *)
AlertsAreBounded ==
    LET deserving == {n \in 1..next - 1 : RaisesAlert(log[n])} IN
    /\ \A n \in deserving :
           alerts[n] > 0 \/ n \in spool \/ (waiting # NoHandler /\ work[waiting].line = n)
    /\ FoldSet(LAMBDA n, sum : sum + alerts[n], 0, Lines) <= Cardinality(deserving) + faults

(* An IOC names every session that committed an event with it, unless the  *)
(* document could not be read or two requests wrote it at once.            *)
IocRemembers ==
    ~overlapped /\ ~forgotten =>
        \A n \in Lines : committed[n] > 0 =>
            \A i \in Range(IocsOf(log[n])) :
                /\ i \in DOMAIN iocs
                /\ log[n].session \in iocs[i].sessions
                /\ iocs[i].threat >= ThreatScore(log[n].kind)

(* What the graph says of a session is there before its row is.            *)
GraphCoversRows ==
    \A n \in Lines : committed[n] > 0 => Range(MergesOf(log[n])) \subseteq graph

-----------------------------------------------------------------------------
(* The rows as api/retention.py reads them: a session that has no end ended *)
(* when it started.                                                        *)
SessionRow(s) ==
    [session |-> s, attacker |-> rows[s].attacker, adaptive |-> rows[s].adaptive,
     host |-> Host[s], started |-> rows[s].started,
     ended |-> IF rows[s].ended = NoEnd THEN rows[s].started ELSE rows[s].ended]
SessionRows == {SessionRow(s) : s \in DOMAIN rows}
Visits == BuildVisits(SessionRows)

AllDelivered == next = Len(log) + 1 /\ waiting = NoHandler /\ spool = {}
Opened(s) == \E n \in LinesOf(s) : log[n].kind = "connect"
Closed(s) == \E n \in LinesOf(s) : log[n].kind = "closed"
OpenedAt(s) == Min({log[n].at : n \in LinesOf(s)})
(* What is known of a session that goes on is when it began.               *)
ClosedAt(s) ==
    IF Closed(s)
    THEN Max({log[n].at : n \in {m \in LinesOf(s) : log[m].kind = "closed"}})
    ELSE OpenedAt(s)

Resolved(s) == s \notin Pivots \/ \E n \in LinesOf(s) : log[n].attacker = Owner[s]
QuietFor(a, from, to) ==
    \A s \in Sessions : Owner[s] = a /\ Opened(s) => ClosedAt(s) <= from \/ OpenedAt(s) >= to

(* Coming back is what retention measures: when everything has been        *)
(* delivered without faults, and the pivots have told whose they are, a    *)
(* visit starts where the attacker had no session anywhere in the estate   *)
(* for longer than the gap, no session inside a visit starts there, two    *)
(* visits of one attacker are that far apart, every session is in one, and *)
(* a visit is of one person, wherever in the estate its sessions were.  A  *)
(* session inside another ends no visit, and one that is still open counts *)
(* as the moment it began.                                                 *)
VisitsAreReturns ==
    AllDelivered /\ faults = 0 /\ (\A s \in Sessions : Opened(s) => Resolved(s)) =>
        /\ \A v \in Visits : QuietFor(v.attacker, v.started - VisitGap - 1, v.started)
        /\ \A v \in Visits : \A r \in v.rows :
               r.started = v.started \/ ~QuietFor(v.attacker, r.started - VisitGap - 1, r.started)
        /\ \A v, w \in Visits : v.attacker = w.attacker /\ v # w =>
               v.started - w.ended > VisitGap \/ w.started - v.ended > VisitGap
        /\ UNION {v.rows : v \in Visits} = SessionRows
        /\ \A v \in Visits : \A r \in v.rows : v.attacker = Owner[r.session]

(* retention.py says a visit with both arms is only reachable by changing  *)
(* the control ratio or the salt, and neither changes here.                *)
NoMixedVisit == \A v \in Visits : ~v.mixed
=============================================================================
