---------------------------- MODULE MCPivotPeers ----------------------------
(***************************************************************************)
(* TLC instances of PivotPeers.                                            *)
(***************************************************************************)
EXTENDS PivotPeers, TLC

PivotSymmetry == Permutations(SrcIps) \cup Permutations(ContainerIds)
                   \cup Permutations(Subnets) \cup Permutations(Pivots)

(* One fault of either kind, or one tick that makes what is idle due for   *)
(* reaping: together they would be too many states.                        *)
OneDisturbance == faults + peerFaults + clock <= 1

=============================================================================
