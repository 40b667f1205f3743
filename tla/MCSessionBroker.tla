-------------------------- MODULE MCSessionBroker --------------------------
(***************************************************************************)
(* TLC instances of SessionBroker.                                         *)
(***************************************************************************)
EXTENDS SessionBroker, TLC

(* Attackers, ids and subnets are interchangeable in the safety runs.      *)
Symmetry == Permutations(SrcIps) \cup Permutations(Sessions)
              \cup Permutations(ContainerIds) \cup Permutations(Subnets)

=============================================================================
