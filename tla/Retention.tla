------------------------------ MODULE Retention ------------------------------
(***************************************************************************)
(* analytics/retention.py: grouping session rows into visits.              *)
(*                                                                         *)
(* A row is what the query of api/retention.py hands over: a record with   *)
(* attacker, adaptive, host, started, ended, events and threat.            *)
(***************************************************************************)
EXTENDS Integers, Sequences, FiniteSets, SequencesExt

CONSTANT VisitGap       \* VISIT_GAP_SECONDS

ASSUME VisitGapAssumption == VisitGap \in Nat

(* NODE_DEPTH, with 1 for a sensor it does not list.                       *)
NodeDepth(host) == CASE host = "node-02-erp" -> 2
                     [] host = "node-03-db"  -> 3
                     [] OTHER -> 1

(* _close_visit                                                            *)
CloseVisit(attacker, rows) ==
    LET start == Min({r.started : r \in rows})
        end   == Max({r.ended : r \in rows})
        arms  == {r.adaptive : r \in rows}
    IN  [attacker |-> attacker, rows |-> rows, adaptive |-> arms = {TRUE},
         mixed |-> Cardinality(arms) > 1, started |-> start, ended |-> end,
         dwell |-> IF end >= start THEN end - start ELSE 0,
         depth |-> Max({NodeDepth(r.host) : r \in rows})]

(* The loop of build_visits over one attacker's rows: the visits closed,   *)
(* the rows of the current one and the latest end seen so far.             *)
Walk == [closed |-> {}, current |-> {}, lastEnd |-> -1]

(* Mutant: the end of the session before is taken for the latest end.      *)
StepOverLastEnd(attacker, walk, r) ==
    IF walk.current # {} /\ r.started - walk.lastEnd > VisitGap
    THEN [closed |-> walk.closed \cup {CloseVisit(attacker, walk.current)},
          current |-> {r}, lastEnd |-> r.ended]
    ELSE [walk EXCEPT !.current = @ \cup {r}, !.lastEnd = r.ended]

StepOver(attacker, walk, r) ==
    LET quiet == walk.current # {} /\ r.started - walk.lastEnd > VisitGap
        latest == Max({r.ended, walk.lastEnd})
    IN  IF quiet
        THEN [closed |-> walk.closed \cup {CloseVisit(attacker, walk.current)},
              current |-> {r}, lastEnd |-> latest]
        ELSE [walk EXCEPT !.current = @ \cup {r}, !.lastEnd = latest]

(* sessions.sort by started_at, with some order of rows that start together.*)
InOrder(rows) ==
    CHOOSE s \in [1..Cardinality(rows) -> rows] :
        IsInjective(s) /\ \A i, j \in DOMAIN s : i < j => s[i].started <= s[j].started

VisitsOf(attacker, rows) ==
    LET sorted == InOrder(rows)
        walk == FoldLeft(LAMBDA w, r : StepOver(attacker, w, r), Walk, sorted)
    IN  walk.closed \cup {CloseVisit(attacker, walk.current)}

(* build_visits                                                            *)
BuildVisits(rows) ==
    UNION {VisitsOf(a, {r \in rows : r.attacker = a}) : a \in {r.attacker : r \in rows}}
=============================================================================
