----------------------------- MODULE MCHubIngest -----------------------------
(***************************************************************************)
(* TLC instances of HubIngest: one attacker, who comes twice and goes on   *)
(* to the next node.                                                       *)
(***************************************************************************)
EXTENDS HubIngest, TLC

CONSTANTS a, e1, e2, p

MCOwner == [s \in Sessions |-> a]
MCHost == [s \in Sessions |-> IF s \in Pivots THEN "node-02-erp" ELSE "node-01-jump"]

HandlerSymmetry == Permutations(Handlers)

(* The run asks two questions, each within bounds of its own.              *)

(* One asks what delivery does to a log: four events of one perimeter      *)
(* session and its pivot, every order in which they are logged, sent and   *)
(* handled, and any fault.                                                 *)
ShortLog == Len(log) <= 4 /\ clock = 0 /\ conn[e2] = "none"

(* The other asks what becomes of the visits in a longer log of all three, *)
(* delivered without a fault.  Other lines say nothing new of a row's      *)
(* owner and times.                                                        *)
CleanLog ==
    /\ faults = 0
    /\ conn[e2] # "none" => conn[e1] # "none"
    /\ \A n \in Lines : log[n].kind \in {"connect", "login_success", "closed"}
    /\ \A s \in Sessions : commands[s] = 0

(* Without faults the order in which lines reach the hub does not depend   *)
(* on when they do: it is enough to deliver them when the log is finished  *)
(* and whatever else may happen without a line has happened, and only a    *)
(* log in which the attacker came twice and a pivot has told its owner.    *)
Finished ==
    /\ clock = MaxClock
    /\ \A s \in Sessions : process[s] \in {"none", "done"} /\ resolve[s] # "asked"
    /\ \A s \in Sessions : IF s \in Pivots THEN Opened(s) => Resolved(s) ELSE Opened(s)

DeliveredWhenFinished == next' > 1 => UNCHANGED sessionVars /\ Finished

EitherQuestion == ShortLog' \/ (CleanLog' /\ DeliveredWhenFinished)
=============================================================================
