-------------------------- MODULE PivotPeersProofs --------------------------
(***************************************************************************)
(* Pivots do not disturb the broker, reach their own attacker's peers only, *)
(* and bring the two peers up as a pair.                                    *)
(***************************************************************************)
EXTENDS PivotPeers, SessionBrokerProofs

(* acquire_peer and the thread it starts read the broker's state and write *)
(* none of it, and a crash or a new proxy is to the broker what it was     *)
(* without pivots: every step is a step of SessionBroker or a stutter.     *)
THEOREM PivotImplementsBroker == PivotSpec => Spec
<1>1. PivotInit => Init
  BY DEF PivotInit
<1>2. [PivotNext]_allVars => [Next]_vars
  <2> SUFFICES ASSUME [PivotNext]_allVars PROVE [Next]_vars
    OBVIOUS
  <2>1. CASE Broker
    BY <2>1 DEF Next
  <2>2. CASE ContainerDies \/ Tick \/ \E s \in Sessions : GiveUp(s)
    BY <2>2 DEF Next, World
  <2>3. CASE PivotCrash \/ PivotProxyRecreated
    BY <2>3 DEF PivotCrash, PivotProxyRecreated, Next, World
  <2>4. CASE PivotStep /\ UNCHANGED vars
    BY <2>4
  <2>5. CASE UNCHANGED allVars
    BY <2>5 DEF allVars
  <2>6. QED
    BY <2>1, <2>2, <2>3, <2>4, <2>5 DEF PivotNext
<1>3. QED
  BY <1>1, <1>2, PTL DEF PivotSpec, Spec

-----------------------------------------------------------------------------
(* What the broker's steps keep for a pivot that is under way.              *)

USE DEF requestVars, taskVars, destroyVars, reaperVars, containerVars,
        networkVars, dockerVars, Tasks, Goto

(* A container that runs is the one its key's name stands for.              *)
StandInv == \A c \in running : builtFor[c] \in SrcIps /\ entry[builtFor[c]] = c

(* What a container stands for does not change, and a container that stands *)
(* after a step stood before it, on the same subnet.                        *)
OriginsKept ==
    \A c \in ContainerIds : builtFor[c] \in SrcIps =>
        /\ builtFor'[c] = builtFor[c]
        /\ entry'[builtFor[c]] = c =>
             entry[builtFor[c]] = c /\ subnet'[builtFor[c]] = subnet[builtFor[c]]

(* Steps that leave containers and subnets as they are, or only stop some.  *)
LEMMA OriginsUntouched ==
    ASSUME StandInv, UNCHANGED <<entry, builtFor, subnet>>, running' \subseteq running
    PROVE  OriginsKept /\ StandInv'
  BY DEF OriginsKept, StandInv

(* A request builds only what is not there, under an id never used before.  *)
LEMMA OriginsSession ==
    ASSUME IndInv, StandInv, NEW s \in Sessions, SessionStep(s)
    PROVE  OriginsKept /\ StandInv'
<1> USE DEF IndInv, TypeOK
<1>1. src[s] \in SrcIps
  BY OthersStay
<1>2. CASE EnsureNetwork(s)
  <2>1. /\ UNCHANGED <<entry, builtFor, running>>
        /\ \A k \in SrcIps : entry[k] # Nobody => subnet'[k] = subnet[k]
    BY <1>1, <1>2 DEF EnsureNetwork, DockerInv
  <2>2. QED
    BY <2>1, DistinctAssumption DEF OriginsKept, StandInv
<1>3. CASE AdoptExisting(s) \/ AdoptFails(s)
  <2>1. /\ UNCHANGED <<entry, builtFor, subnet>> /\ entry[src[s]] # Nobody
        /\ running' \subseteq running \cup {entry[src[s]]}
    BY <1>3 DEF AdoptExisting, AdoptFails
  <2>2. QED
    BY <1>1, <2>1 DEF OriginsKept, StandInv, DockerInv
<1>4. CASE AdoptReplaces(s)
  <2>1. /\ UNCHANGED <<builtFor, subnet, running>> /\ entry[src[s]] \notin running
        /\ entry' \in {entry, [entry EXCEPT ![src[s]] = Nobody]}
    BY <1>4 DEF AdoptReplaces
  <2>2. QED
    BY <1>1, <2>1, DistinctAssumption DEF OriginsKept, StandInv
<1>5. CASE CreateContainer(s) \/ CreateFails(s)
  <2>1. CASE UNCHANGED <<entry, builtFor, running>>
    BY <1>5, <2>1, OriginsUntouched DEF CreateContainer, CreateFails
  <2>2. CASE \E c \in UnusedIds : /\ entry[src[s]] = Nobody
                                 /\ entry' = [entry EXCEPT ![src[s]] = c]
                                 /\ builtFor' = [builtFor EXCEPT ![c] = src[s]]
                                 /\ running' \in {running, running \cup {c}}
    <3>1. PICK c \in UnusedIds : /\ entry[src[s]] = Nobody
                                 /\ entry' = [entry EXCEPT ![src[s]] = c]
                                 /\ builtFor' = [builtFor EXCEPT ![c] = src[s]]
                                 /\ running' \in {running, running \cup {c}}
      BY <2>2
    <3>2. c \in ContainerIds /\ builtFor[c] = Nobody
      BY <3>1 DEF UnusedIds
    <3>3. UNCHANGED subnet
      BY <1>5 DEF CreateContainer, CreateFails
    <3>4. QED
      BY <1>1, <3>1, <3>2, <3>3, DistinctAssumption DEF OriginsKept, StandInv
  <2>3. QED
    BY <1>5, <2>1, <2>2 DEF CreateContainer, CreateFails
<1>6. CASE \/ ReuseBackend(s) \/ MakeRoom(s) \/ EvictOldest(s) \/ CheckFails(s)
           \/ EnsureNetworkFails(s) \/ NothingToAdopt(s) \/ AttachProxy(s) \/ AttachFails(s)
           \/ ReplySession(s) \/ ReplyFails(s)
  BY <1>6, OriginsUntouched
     DEF ReuseBackend, MakeRoom, EvictOldest, CheckFails, EnsureNetworkFails, NothingToAdopt,
         AttachProxy, AttachFails, ReplySession, ReplyFails
<1>7. QED
  BY <1>2, <1>3, <1>4, <1>5, <1>6 DEF SessionStep

(* The subnet is given back only after its container has gone.              *)
LEMMA OriginsDestroy ==
    ASSUME IndInv, StandInv, NEW t \in Sessions \cup {Reaper}, Destroying(t)
    PROVE  OriginsKept /\ StandInv'
<1> USE DEF IndInv, TypeOK
<1>1. CASE ForceRemove(t)
  <2>1. /\ UNCHANGED <<builtFor, subnet>> /\ entry[victim] = doomed /\ victim \in SrcIps
        /\ entry' = [entry EXCEPT ![victim] = Nobody] /\ running' = running \ {doomed}
    BY <1>1 DEF ForceRemove, DestroyInv
  <2>2. QED
    BY <2>1, DistinctAssumption DEF OriginsKept, StandInv
<1>2. CASE DetachProxy(t)
  <2>1. /\ UNCHANGED <<entry, builtFor, running>> /\ entry[victim] = Nobody
        /\ \A k \in SrcIps \ {victim} : subnet'[k] = subnet[k]
    BY <1>2 DEF DetachProxy, DestroyInv
  <2>2. QED
    BY <2>1, DistinctAssumption DEF OriginsKept, StandInv
<1>3. CASE RemoveFails(t) \/ CollectFails(t)
  BY <1>3, OriginsUntouched DEF RemoveFails, CollectFails
<1>4. QED
  BY <1>1, <1>2, <1>3 DEF Destroying

(* Every step of the broker and its world keeps the origins of the pivots.  *)
LEMMA OriginsStep == IndInv /\ StandInv /\ [Next]_vars => OriginsKept /\ StandInv'
<1> SUFFICES ASSUME IndInv, StandInv, [Next]_vars PROVE OriginsKept /\ StandInv'
  OBVIOUS
<1>1. ASSUME NEW s \in Sessions, AcquireSession(s) \/ ReleaseSession(s) \/ LoseRelease(s)
                                   \/ GiveUp(s)
      PROVE  OriginsKept /\ StandInv'
  BY <1>1, OriginsUntouched DEF AcquireSession, ReleaseSession, LoseRelease, GiveUp
<1>2. ASSUME NEW p \in Planters, PlantDecoys(p) \/ WriteFiles(p) \/ WriteFails(p)
      PROVE  OriginsKept /\ StandInv'
  BY <1>2, OriginsUntouched DEF PlantDecoys, WriteFiles, WriteFails
<1>3. CASE ReaperWakes \/ ReaperLocks \/ ReapNext \/ ReaperSleeps
  BY <1>3, OriginsUntouched DEF ReaperWakes, ReaperLocks, ReapNext, ReaperSleeps
<1>4. CASE Crash \/ ContainerDies \/ ProxyRecreated \/ Tick \/ UNCHANGED vars
  BY <1>4, OriginsUntouched DEF Crash, ContainerDies, ProxyRecreated, Tick, vars
<1>5. CASE Startup
  <2>1. /\ UNCHANGED <<entry, builtFor, subnet>>
        /\ \A c \in running' \ running : \E k \in SrcIps : entry[k] = c /\ entry[k] # Nobody
    BY <1>5 DEF Startup
  <2>2. QED
    BY <2>1 DEF OriginsKept, StandInv, IndInv, DockerInv
<1>6. QED
  BY <1>1, <1>2, <1>3, <1>4, <1>5, OriginsSession, OriginsDestroy DEF Next, Broker, World

-----------------------------------------------------------------------------
(* The pivots.                                                              *)

Spawning == {"network", "create", "find", "start", "attach", "run", "join", "reach"}

(* A pivot that is under way knows where it comes from; its address is that *)
(* of its origin, and its owner that origin's attacker, for as long as the  *)
(* origin stands.                                                           *)
PivotInv ==
    \A p \in Pivots :
        /\ ppc[p] \in Spawning \cup {"bridged"} => owner[p] \in SrcIps /\ node[p] \in PeerNodes
        /\ ppc[p] \in {"idle", "lookup"} => owner[p] = Nobody
        /\ ppc[p] # "idle" =>
             /\ origin[p] \in ContainerIds /\ builtFor[origin[p]] \in SrcIps
             /\ from[p] \in Subnets /\ want[p] \in PeerNodes
             /\ entry[builtFor[origin[p]]] = origin[p] =>
                  /\ subnet[builtFor[origin[p]]] = from[p]
                  /\ owner[p] \in {Nobody, builtFor[origin[p]]}

(* A web node that stands without its database is being seen to: p has just *)
(* created it, or has gone on to spawn the database.                        *)
Completes(p, k) ==
    /\ owner[p] = k
    /\ \/ ppc[p] \in {"join", "reach"} /\ node[p] = "node-02-erp"
       \/ ppc[p] \in {"network", "find", "run"} /\ node[p] = "node-03-db" /\ want[p] = "node-02-erp"

PairInv ==
    faults = 0 /\ peerFaults = 0 =>
        /\ \A p \in Pivots :
             /\ ppc[p] \in {"find", "run", "join", "reach"} => owner[p] \in back
             /\ ppc[p] = "start" => peer[Spot(p)] # "absent"
             /\ ppc[p] \in Spawning /\ Nested(p) =>
                  owner[p] \in back /\ ppc[p] # "create" /\ node[p] = "node-03-db"
        /\ \A k \in SrcIps : peer[<<k, "node-02-erp">>] # "absent" =>
             \/ peer[<<k, "node-03-db">>] # "absent"
             \/ \E p \in Pivots : Completes(p, k)

(* Steps of the broker and of its world, seen by the pivots.                *)
LEMMA PivotQuiet ==
    ASSUME IndInv, StandInv, PivotTypeOK, PivotInv, [Next]_vars, UNCHANGED pivotVars
    PROVE  PivotTypeOK' /\ PivotInv'
<1>1. OriginsKept
  BY OriginsStep
<1>2. PivotTypeOK'
  BY DEF PivotTypeOK, pivotVars, requestOfPivot, peerVars
<1>3. PivotInv'
  BY <1>1 DEF OriginsKept, PivotInv, pivotVars, requestOfPivot, peerVars
<1>4. QED
  BY <1>2, <1>3

(* Pivot requests that are cut off.                                         *)
LEMMA PivotCleared ==
    ASSUME IndInv, StandInv, PivotTypeOK, PivotInv, [Next]_vars,
           NEW S \in SUBSET Pivots, Clear(S),
           UNCHANGED <<peer, joined, back>>, backAttached' \in {backAttached, {}},
           peerFaults' \in Nat
    PROVE  PivotTypeOK' /\ PivotInv'
<1>1. OriginsKept
  BY OriginsStep
<1>2. PivotTypeOK'
  BY DEF PivotTypeOK, Clear, PivotPc
<1>3. \A p \in Pivots :
        \/ ppc'[p] = "idle" /\ owner'[p] = Nobody
        \/ /\ ppc'[p] = ppc[p] /\ owner'[p] = owner[p] /\ node'[p] = node[p]
           /\ origin'[p] = origin[p] /\ from'[p] = from[p] /\ want'[p] = want[p]
  BY DEF Clear
<1>4. PivotInv'
  BY <1>1, <1>3 DEF OriginsKept, PivotInv, Spawning
<1>5. QED
  BY <1>2, <1>4

(* The pivots' own steps.  The owner is found by an address that a standing *)
(* origin still has, and that no other tracked attacker can have.           *)
LEMMA PivotOwnStep ==
    ASSUME IndInv, PivotTypeOK, PivotInv, PivotStep, UNCHANGED vars
    PROVE  PivotTypeOK' /\ PivotInv'
<1> USE DEF requestOfPivot, peerVars, PGoto
<1>0. UNCHANGED <<entry, builtFor, subnet>>
  BY DEF vars
<1>1. ASSUME NEW p \in Pivots, Pivot(p) PROVE PivotTypeOK' /\ PivotInv'
  <2>1. PICK k \in SrcIps, n \in PeerNodes :
          /\ entry[k] \in running
          /\ origin' = [origin EXCEPT ![p] = entry[k]]
          /\ from' = [from EXCEPT ![p] = subnet[k]]
          /\ want' = [want EXCEPT ![p] = n]
    BY <1>1 DEF Pivot, IndInv, TypeOK
  <2>2. entry[k] \in ContainerIds /\ builtFor[entry[k]] = k /\ subnet[k] \in Subnets
    BY <2>1, DistinctAssumption DEF IndInv, TypeOK, DockerInv
  <2>3. ppc[p] = "idle" /\ ppc' = [ppc EXCEPT ![p] = "lookup"] /\ owner[p] = Nobody
        /\ UNCHANGED <<owner, node, answer, peerVars, peerFaults>>
    BY <1>1 DEF Pivot, PivotInv
  <2>4. PivotTypeOK'
    BY <2>1, <2>2, <2>3 DEF PivotTypeOK, PivotPc
  <2>5. PivotInv'
    BY <1>0, <2>1, <2>2, <2>3 DEF PivotTypeOK, PivotInv, Spawning
  <2>6. QED
    BY <2>4, <2>5
<1>2. ASSUME NEW p \in Pivots, LookupOwner(p) PROVE PivotTypeOK' /\ PivotInv'
  <2>1. PICK k \in Tracked : backends[k].address = from[p] /\ owner' = [owner EXCEPT ![p] = k]
    BY <1>2 DEF LookupOwner
  <2>2. /\ ppc[p] = "lookup" /\ ppc' = [ppc EXCEPT ![p] = "network"]
        /\ node' = [node EXCEPT ![p] = want[p]]
        /\ UNCHANGED <<origin, from, want, answer, peerVars, peerFaults>>
    BY <1>2 DEF LookupOwner
  <2>3. k \in SrcIps /\ from[p] \in Subnets /\ subnet[k] = from[p]
    BY <2>1, <2>2, TrackedEntries, DistinctAssumption DEF PivotInv, IndInv, TrackedInv
  <2>4. \A j \in SrcIps : subnet[j] = from[p] => j = k
    BY <2>3, DistinctAssumption DEF IndInv, DockerInv
  <2>5. PivotTypeOK'
    BY <2>1, <2>2, <2>3 DEF PivotTypeOK, PivotInv, PivotPc
  <2>6. PivotInv'
    BY <1>0, <2>1, <2>2, <2>3, <2>4 DEF PivotTypeOK, PivotInv, Spawning
  <2>7. QED
    BY <2>5, <2>6
<1>3. ASSUME NEW p \in Pivots, UNCHANGED <<origin, from, want, owner>>,
             ppc[p] \in Spawning, node' \in {node, [node EXCEPT ![p] = "node-03-db"]},
             \E l \in Spawning \cup {"bridged"} : ppc' = [ppc EXCEPT ![p] = l]
      PROVE  PivotInv'
  BY <1>0, <1>3 DEF PivotTypeOK, PivotInv, Spawning, PeerNodes
<1>4. ASSUME NEW p \in Pivots,
             \/ EnsureBackNetwork(p) \/ CreateBackNetwork(p) \/ ReusePeer(p) \/ StartPeer(p)
             \/ AttachAgain(p) \/ PeerNotFound(p) \/ RunPeer(p) \/ JoinPeer(p) \/ ReachPeer(p)
      PROVE  PivotTypeOK' /\ PivotInv'
  <2> USE DEF EnsureBackNetwork, CreateBackNetwork, ReusePeer, StartPeer, AttachAgain,
              PeerNotFound, RunPeer, JoinPeer, ReachPeer
  <2>1. ppc[p] \in Spawning
    BY <1>4 DEF Spawning
  <2>2. Spot(p) \in SrcIps \X PeerNodes /\ owner[p] \in SrcIps
    BY <2>1 DEF PivotInv, Spot
  <2>3. PivotInv'
    <3>1. UNCHANGED <<origin, from, want, owner>>
      BY <1>4
    <3>2. node' \in {node, [node EXCEPT ![p] = "node-03-db"]}
      BY <1>4
    <3>3. \E l \in Spawning \cup {"bridged"} : ppc' = [ppc EXCEPT ![p] = l]
      BY <1>4 DEF Spawning
    <3>4. QED
      BY <1>3, <2>1, <3>1, <3>2, <3>3
  <2>4. PivotTypeOK'
    <3>1. CASE EnsureBackNetwork(p) \/ PeerNotFound(p)
      BY <3>1 DEF PivotTypeOK, PivotPc
    <3>2. CASE CreateBackNetwork(p)
      BY <2>2, <3>2 DEF PivotTypeOK, PivotPc
    <3>3. CASE ReusePeer(p)
      BY <2>2, <3>3 DEF Looked, Answered, PivotTypeOK, PivotPc
    <3>4. CASE StartPeer(p)
      BY <2>2, <3>4 DEF Looked, Answered, PivotTypeOK, PivotPc
    <3>5. CASE RunPeer(p)
      BY <2>2, <3>5 DEF PivotTypeOK, PivotPc
    <3>6. CASE JoinPeer(p)
      BY <2>2, <3>6 DEF PivotTypeOK, PivotPc
    <3>7. CASE AttachAgain(p)
      BY <2>2, <3>7 DEF AttachToBack, PeerFault, PivotTypeOK, PivotPc
    <3>8. CASE ReachPeer(p)
      BY <2>2, <3>8 DEF AttachToBack, PeerFault, Answered, PivotTypeOK, PivotPc, PeerNodes
    <3>9. QED
      BY <1>4, <3>1, <3>2, <3>3, <3>4, <3>5, <3>6, <3>7, <3>8
  <2>5. QED
    BY <2>3, <2>4
<1>5. ASSUME NEW p \in Pivots, NameTaken(p) \/ PeerStepFails(p) \/ RefusePivot(p) \/ EndPivot(p)
      PROVE  PivotTypeOK' /\ PivotInv'
  <2>1. /\ peer' \in [SrcIps \X PeerNodes -> {"absent", "stopped", "running"}]
        /\ joined' \in SUBSET (SrcIps \X PeerNodes)
        /\ back' \in SUBSET SrcIps /\ backAttached' \in SUBSET SrcIps
        /\ peerFaults' \in Nat
    <3>1. CASE NameTaken(p) \/ RefusePivot(p) \/ EndPivot(p)
      BY <3>1 DEF NameTaken, RefusePivot, EndPivot, PivotTypeOK
    <3>2. CASE PeerStepFails(p)
      <4>1. ppc[p] \in Spawning /\ HalfDone(p) /\ peerFaults' \in Nat
        BY <3>2 DEF PeerStepFails, PeerFault, PivotTypeOK, Spawning
      <4>2. Spot(p) \in SrcIps \X PeerNodes /\ owner[p] \in SrcIps
        BY <4>1 DEF PivotInv, Spot
      <4>3. QED
        BY <4>1, <4>2 DEF HalfDone, PivotTypeOK
    <3>3. QED
      BY <1>5, <3>1, <3>2
  <2>2. CASE Clear({p})
    <3>1. PivotTypeOK'
      BY <2>1, <2>2 DEF PivotTypeOK, Clear, PivotPc
    <3>2. \A q \in Pivots :
            \/ ppc'[q] = "idle" /\ owner'[q] = Nobody
            \/ /\ ppc'[q] = ppc[q] /\ owner'[q] = owner[q] /\ node'[q] = node[q]
               /\ origin'[q] = origin[q] /\ from'[q] = from[q] /\ want'[q] = want[q]
      BY <2>2 DEF Clear
    <3>3. PivotInv'
      BY <1>0, <3>2 DEF PivotInv, Spawning
    <3>4. QED
      BY <3>1, <3>3
  <2>3. CASE /\ NameTaken(p) \/ PeerStepFails(p)
             /\ ppc' = [ppc EXCEPT ![p] = "bridged"] /\ UNCHANGED requestOfPivot
    <3>1. ppc[p] \in Spawning
      BY <2>3 DEF NameTaken, PeerStepFails, Spawning
    <3>2. PivotInv'
      BY <1>3, <2>3, <3>1
    <3>3. PivotTypeOK'
      BY <2>1, <2>3 DEF PivotTypeOK, PivotPc
    <3>4. QED
      BY <3>2, <3>3
  <2>4. QED
    BY <1>5, <2>2, <2>3 DEF NameTaken, PeerStepFails, SpawnFails, RefusePivot, EndPivot
<1>6. CASE PeerDies
  <2>1. PivotTypeOK'
    BY <1>6 DEF PeerDies, PeerFault, PivotTypeOK
  <2>2. PivotInv'
    BY <1>0, <1>6 DEF PeerDies, PivotInv
  <2>3. QED
    BY <2>1, <2>2
<1>7. QED
  BY <1>1, <1>2, <1>4, <1>5, <1>6 DEF PivotStep

(* Every step of the composed system.                                       *)
LEMMA PivotInvStep ==
    IndInv /\ StandInv /\ PivotTypeOK /\ PivotInv /\ [PivotNext]_allVars
      => StandInv' /\ PivotTypeOK' /\ PivotInv'
<1> SUFFICES ASSUME IndInv, StandInv, PivotTypeOK, PivotInv, [PivotNext]_allVars
             PROVE  StandInv' /\ PivotTypeOK' /\ PivotInv'
  OBVIOUS
<1>1. [Next]_vars
  BY DEF PivotNext, PivotCrash, PivotProxyRecreated, Next, World, allVars
<1>2. StandInv'
  BY <1>1, OriginsStep
<1>3. CASE UNCHANGED pivotVars
  BY <1>1, <1>2, <1>3, PivotQuiet
<1>4. CASE PivotCrash
  <2>1. {p \in Pivots : ppc[p] # "bridged"} \in SUBSET Pivots
    OBVIOUS
  <2>2. /\ Clear({p \in Pivots : ppc[p] # "bridged"}) /\ UNCHANGED <<peer, joined, back>>
        /\ backAttached' \in {backAttached, {}} /\ peerFaults' \in Nat
    BY <1>4 DEF PivotCrash, peerVars, PivotTypeOK
  <2>3. QED
    BY <1>1, <1>2, <2>1, <2>2, PivotCleared
<1>5. CASE PivotProxyRecreated
  <2>1. {p \in Pivots : ppc[p] \in {"lookup", "bridged"}} \in SUBSET Pivots
    OBVIOUS
  <2>2. /\ Clear({p \in Pivots : ppc[p] \in {"lookup", "bridged"}})
        /\ UNCHANGED <<peer, joined, back>>
        /\ backAttached' \in {backAttached, {}} /\ peerFaults' \in Nat
    BY <1>5 DEF PivotProxyRecreated, PivotTypeOK
  <2>3. QED
    BY <1>1, <1>2, <2>1, <2>2, PivotCleared
<1>6. CASE PivotStep /\ UNCHANGED vars
  BY <1>2, <1>6, PivotOwnStep
<1>7. QED
  BY <1>3, <1>4, <1>5, <1>6 DEF PivotNext, allVars

(* Without faults, a step of p that is not the end of its work on the       *)
(* database leaves no web node alone.                                       *)
LEMMA PairOwnStep ==
    ASSUME PivotTypeOK, PivotInv, PairInv, faults = 0, peerFaults = 0, peerFaults' = 0,
           PivotStep
    PROVE  PairInv'
<1> USE DEF requestOfPivot, peerVars, PGoto
<1>1. /\ \A p \in Pivots :
           /\ ppc[p] \in {"find", "run", "join", "reach"} => owner[p] \in back
           /\ ppc[p] = "start" => peer[Spot(p)] # "absent"
           /\ ppc[p] \in Spawning /\ Nested(p) =>
                owner[p] \in back /\ ppc[p] # "create" /\ node[p] = "node-03-db"
      /\ \A k \in SrcIps : peer[<<k, "node-02-erp">>] # "absent" =>
           \/ peer[<<k, "node-03-db">>] # "absent"
           \/ \E p \in Pivots : Completes(p, k)
  BY DEF PairInv
<1> DEFINE Mine(p) ==
             /\ ppc'[p] \in {"find", "run", "join", "reach"} => owner'[p] \in back'
             /\ ppc'[p] = "start" => peer'[<<owner'[p], node'[p]>>] # "absent"
             /\ ppc'[p] \in Spawning /\ Nested(p)' =>
                  owner'[p] \in back' /\ ppc'[p] # "create" /\ node'[p] = "node-03-db"
           Paired ==
             \A k \in SrcIps : peer'[<<k, "node-02-erp">>] # "absent" =>
               \/ peer'[<<k, "node-03-db">>] # "absent"
               \/ \E p \in Pivots : Completes(p, k)'
<1>2. ASSUME NEW p \in Pivots, Mine(p), Paired, back \subseteq back',
             \A kn \in SrcIps \X PeerNodes : peer[kn] # "absent" => peer'[kn] # "absent",
             \A q \in Pivots \ {p} : /\ ppc'[q] = ppc[q] /\ owner'[q] = owner[q]
                                      /\ node'[q] = node[q] /\ want'[q] = want[q]
      PROVE  PairInv'
  <2>1. \A q \in Pivots : ppc[q] = "start" => Spot(q) \in SrcIps \X PeerNodes
    BY DEF PivotInv, Spawning, Spot
  <2>2. \A q \in Pivots : Mine(q)
    BY <1>1, <1>2, <2>1 DEF Nested, Spot
  <2>3. QED
    BY <1>2, <2>2 DEF PairInv, Spot
<1>3. ASSUME NEW p \in Pivots, UNCHANGED peer,
             \A q \in Pivots \ {p} : /\ ppc'[q] = ppc[q] /\ owner'[q] = owner[q]
                                      /\ node'[q] = node[q] /\ want'[q] = want[q],
             \A k \in SrcIps : Completes(p, k) =>
                Completes(p, k)' \/ peer[<<k, "node-03-db">>] # "absent"
      PROVE  Paired
  <2>1. \A k \in SrcIps, q \in Pivots \ {p} : Completes(q, k) => Completes(q, k)'
    BY <1>3 DEF Completes
  <2>2. QED
    BY <1>1, <1>3, <2>1
<1> HIDE DEF Mine, Paired
<1>4. ASSUME NEW p \in Pivots, Pivot(p) \/ LookupOwner(p) \/ RefusePivot(p) \/ EndPivot(p)
      PROVE  PairInv'
  <2>1. /\ \A q \in Pivots \ {p} : /\ ppc'[q] = ppc[q] /\ owner'[q] = owner[q]
                                     /\ node'[q] = node[q] /\ want'[q] = want[q]
        /\ UNCHANGED <<peer, back>> /\ ppc[p] \notin Spawning
    BY <1>4 DEF Pivot, LookupOwner, RefusePivot, EndPivot, Clear, Spawning, PivotTypeOK
  <2>2. Paired
    BY <1>3, <2>1 DEF Completes, Spawning
  <2>3. ppc'[p] \in {"idle", "lookup", "network"} /\ (ppc'[p] = "network" => ~Nested(p)')
    BY <1>4 DEF Pivot, LookupOwner, RefusePivot, EndPivot, Clear, Nested, PivotTypeOK
  <2>4. Mine(p)
    BY <2>3 DEF Mine, Spawning
  <2>5. QED
    BY <1>2, <2>1, <2>2, <2>4
<1>5. ASSUME NEW p \in Pivots, EnsureBackNetwork(p) \/ CreateBackNetwork(p) \/ PeerNotFound(p)
      PROVE  PairInv'
  <2>1. /\ UNCHANGED <<owner, node, want, peer>> /\ back \subseteq back'
        /\ \A q \in Pivots \ {p} : ppc'[q] = ppc[q]
    BY <1>5 DEF EnsureBackNetwork, CreateBackNetwork, PeerNotFound, PivotTypeOK
  <2>2. /\ ppc[p] \in {"network", "create", "find"}
        /\ ppc[p] = "network" /\ owner[p] \in back => ppc'[p] = "find"
        /\ ppc[p] = "network" /\ owner[p] \notin back => ppc'[p] = "create"
        /\ ppc[p] = "create" => ppc'[p] = "find" /\ owner[p] \in back'
        /\ ppc[p] = "find" => ppc'[p] = "run"
    BY <1>5 DEF EnsureBackNetwork, CreateBackNetwork, PeerNotFound, PivotTypeOK
  <2>3. Mine(p)
    BY <1>1, <2>1, <2>2 DEF Mine, Spawning, Nested
  <2>4. \A k \in SrcIps : Completes(p, k) => Completes(p, k)'
    BY <1>1, <2>1, <2>2 DEF Completes, Spawning, Nested
  <2>5. Paired
    BY <1>3, <2>1, <2>4
  <2>6. QED
    BY <1>2, <2>1, <2>3, <2>5
<1>6. ASSUME NEW p \in Pivots, ReusePeer(p) \/ StartPeer(p) \/ AttachAgain(p)
      PROVE  PairInv'
  <2>1. /\ UNCHANGED <<owner, node, want, back>>
        /\ ppc[p] \in {"find", "start", "attach"} /\ ppc'[p] \in {"start", "attach", "bridged"}
        /\ ppc'[p] = "start" => ppc[p] = "find"
        /\ ppc[p] = "find" => peer[Spot(p)] # "absent"
        /\ peer' \in {peer, [peer EXCEPT ![Spot(p)] = "running"]}
        /\ peer' # peer => ppc[p] = "start"
        /\ \A q \in Pivots \ {p} : ppc'[q] = ppc[q]
    BY <1>6 DEF ReusePeer, StartPeer, AttachAgain, AttachToBack, PivotTypeOK
  <2>2. \A kn \in SrcIps \X PeerNodes : peer'[kn] = "absent" <=> peer[kn] = "absent"
    BY <1>1, <2>1 DEF PivotTypeOK, Spot
  <2>3. \A k \in SrcIps : Completes(p, k) => peer[<<k, "node-03-db">>] # "absent"
    BY <2>1 DEF Completes, Spot
  <2>4. \A k \in SrcIps, q \in Pivots \ {p} : Completes(q, k) => Completes(q, k)'
    BY <2>1 DEF Completes
  <2>5. Paired
    BY <1>1, <2>2, <2>3, <2>4 DEF Paired, PeerNodes
  <2>6. Mine(p)
    BY <1>1, <2>1 DEF Mine, Spawning, Nested, Spot
  <2>7. QED
    BY <1>2, <2>1, <2>2, <2>5, <2>6
<1>7. ASSUME NEW p \in Pivots, RunPeer(p) PROVE PairInv'
  <2>1. /\ UNCHANGED <<owner, node, want, back>> /\ ppc[p] = "run" /\ ppc'[p] = "join"
        /\ peer' = [peer EXCEPT ![<<owner[p], node[p]>>] = "running"]
        /\ \A q \in Pivots \ {p} : ppc'[q] = ppc[q]
    BY <1>7 DEF RunPeer, PivotTypeOK, Spot
  <2>2. owner[p] \in SrcIps /\ node[p] \in PeerNodes
    BY <2>1 DEF PivotInv, Spawning
  <2>3. \A k \in SrcIps, q \in Pivots \ {p} : Completes(q, k) => Completes(q, k)'
    BY <2>1 DEF Completes
  <2>4. Mine(p)
    BY <1>1, <2>1 DEF Mine, Spawning, Nested
  <2>5. CASE node[p] = "node-03-db"
    <3>1. /\ \A k \in SrcIps : peer'[<<k, "node-02-erp">>] = peer[<<k, "node-02-erp">>]
          /\ \A k \in SrcIps \ {owner[p]} : peer'[<<k, "node-03-db">>] = peer[<<k, "node-03-db">>]
          /\ peer'[<<owner[p], "node-03-db">>] = "running"
      BY <2>1, <2>2, <2>5 DEF PivotTypeOK, PeerNodes
    <3>2. \A k \in SrcIps : Completes(p, k) => k = owner[p]
      BY DEF Completes
    <3>3. Paired
      BY <1>1, <2>3, <3>1, <3>2 DEF Paired
    <3>4. QED
      BY <1>2, <2>1, <2>4, <3>3
  <2>6. CASE node[p] = "node-02-erp"
    <3>1. /\ \A k \in SrcIps \ {owner[p]} : peer'[<<k, "node-02-erp">>] = peer[<<k, "node-02-erp">>]
          /\ \A k \in SrcIps : peer'[<<k, "node-03-db">>] = peer[<<k, "node-03-db">>]
      BY <2>1, <2>2, <2>6 DEF PivotTypeOK, PeerNodes
    <3>2. \A k \in SrcIps : k = owner[p] => Completes(p, k)'
      BY <2>1, <2>6 DEF Completes
    <3>3. \A k \in SrcIps : ~Completes(p, k)
      BY <2>1, <2>6 DEF Completes
    <3>4. Paired
      BY <1>1, <2>3, <3>1, <3>2, <3>3 DEF Paired
    <3>5. QED
      BY <1>2, <2>1, <2>4, <3>4
  <2>7. QED
    BY <2>2, <2>5, <2>6 DEF PeerNodes
<1>8. ASSUME NEW p \in Pivots, JoinPeer(p) \/ ReachPeer(p) PROVE PairInv'
  <2>1. /\ UNCHANGED <<owner, want, peer, back>> /\ ppc[p] \in {"join", "reach"}
        /\ \A q \in Pivots \ {p} : ppc'[q] = ppc[q] /\ node'[q] = node[q]
        /\ ppc[p] = "join" => ppc'[p] = "reach" /\ node'[p] = node[p]
        /\ ppc[p] = "reach" /\ node[p] = "node-02-erp" =>
             ppc'[p] = "network" /\ node'[p] = "node-03-db"
        /\ ppc[p] = "reach" /\ node[p] # "node-02-erp" => ppc'[p] = "bridged"
    BY <1>8 DEF JoinPeer, ReachPeer, AttachToBack, PivotTypeOK
  <2>2. owner[p] \in back /\ (node[p] = "node-02-erp" => want[p] = "node-02-erp")
    BY <1>1, <2>1 DEF Spawning, Nested
  <2>3. Mine(p)
    BY <1>1, <2>1, <2>2 DEF Mine, Spawning, Nested
  <2>4. \A k \in SrcIps : Completes(p, k) => Completes(p, k)'
    BY <2>1, <2>2 DEF Completes
  <2>5. Paired
    BY <1>3, <2>1, <2>4
  <2>6. QED
    BY <1>2, <2>1, <2>3, <2>5
<1>9. ASSUME NEW p \in Pivots, NameTaken(p) PROVE PairInv'
  <2>1. /\ \/ ppc[p] = "create" /\ owner[p] \in back
           \/ ppc[p] = "run" /\ peer[Spot(p)] # "absent"
        /\ SpawnFails(p) /\ UNCHANGED <<peer, back>>
    BY <1>9 DEF NameTaken
  <2>2. /\ \A q \in Pivots \ {p} : /\ ppc'[q] = ppc[q] /\ owner'[q] = owner[q]
                                     /\ node'[q] = node[q] /\ want'[q] = want[q]
        /\ ppc'[p] \in {"idle", "bridged"}
    BY <2>1 DEF SpawnFails, Clear, PivotTypeOK
  <2>3. Mine(p)
    BY <2>2 DEF Mine, Spawning
  <2>4. \A k \in SrcIps : Completes(p, k) => peer[<<k, "node-03-db">>] # "absent"
    BY <2>1 DEF Completes, Spot
  <2>5. Paired
    BY <1>3, <2>1, <2>2, <2>4
  <2>6. QED
    BY <1>2, <2>1, <2>2, <2>3, <2>5
<1>10. ~PeerDies /\ \A p \in Pivots : ~PeerStepFails(p)
  BY DEF PeerDies, PeerStepFails, PeerFault
<1>11. QED
  BY <1>4, <1>5, <1>6, <1>7, <1>8, <1>9, <1>10 DEF PivotStep

(* Every step of the composed system: a crash and a new proxy are faults.   *)
LEMMA PairInvStep ==
    IndInv /\ PivotTypeOK /\ PivotInv /\ PairInv /\ [PivotNext]_allVars => PairInv'
<1> SUFFICES ASSUME IndInv, PivotTypeOK, PivotInv, PairInv, [PivotNext]_allVars,
                    faults' = 0, peerFaults' = 0
             PROVE  PairInv'
  BY DEF PairInv
<1>1. [Next]_vars
  BY DEF PivotNext, PivotCrash, PivotProxyRecreated, Next, World, allVars
<1>2. faults = 0
  BY <1>1, FaultsGrow DEF IndInv, TypeOK
<1>3. CASE UNCHANGED pivotVars
  BY <1>2, <1>3 DEF pivotVars, requestOfPivot, peerVars, PairInv, Nested, Completes, Spot
<1>4. ~PivotCrash /\ ~PivotProxyRecreated
  BY <1>2 DEF PivotCrash, PivotProxyRecreated, Crash, ProxyRecreated, Fault
<1>5. CASE PivotStep
  <2>1. peerFaults' \in {peerFaults, peerFaults + 1}
    <3>1. ASSUME NEW p \in Pivots, PeerStepFails(p) \/ AttachAgain(p) \/ ReachPeer(p)
          PROVE  peerFaults' \in {peerFaults, peerFaults + 1}
      BY <3>1 DEF PeerStepFails, AttachAgain, ReachPeer, AttachToBack, PeerFault
    <3>2. QED
      BY <1>5, <3>1 DEF PivotStep, Pivot, LookupOwner, RefusePivot, EnsureBackNetwork,
         CreateBackNetwork, ReusePeer, StartPeer, PeerNotFound, RunPeer, JoinPeer, NameTaken,
         EndPivot, PeerDies, PeerFault
  <2>2. QED
    BY <1>2, <1>5, <2>1, PairOwnStep DEF PivotTypeOK
<1>6. QED
  BY <1>3, <1>4, <1>5 DEF PivotNext, allVars

-----------------------------------------------------------------------------
(* The theorems.                                                            *)

(* What the invariants of the broker say holds with pivots, too.            *)
LEMMA PivotInitOK == PivotInit => StandInv /\ PivotTypeOK /\ PivotInv /\ PairInv
<1> SUFFICES ASSUME PivotInit PROVE StandInv /\ PivotTypeOK /\ PivotInv /\ PairInv
  OBVIOUS
<1>1. StandInv /\ PivotTypeOK
  BY DEF PivotInit, Init, StandInv, PivotTypeOK, PivotPc
<1>2. PivotInv
  BY DEF PivotInit, PivotInv, Spawning
<1>3. PairInv
  BY DEF PivotInit, PairInv, Spawning, PeerNodes
<1>4. QED
  BY <1>1, <1>2, <1>3

(* The pivots' state is well typed, and what they hold agrees with Docker.  *)
THEOREM PivotInvariance == PivotSpec => [](IndInv /\ PivotTypeOK /\ PivotInv /\ StandInv)
<1>1. PivotSpec => []IndInv
  BY PivotImplementsBroker, Invariance, PTL
<1>2. QED
  BY <1>1, PivotInitOK, PivotInvStep, PTL DEF PivotSpec

(* "A pivot can only ever reach the attacker's own peers": the address that *)
(* acquire_peer compares names the attacker of the container the pivot came *)
(* from, whatever was evicted, reaped or rebuilt while it was on its way.   *)
THEOREM PivotsStayHome == PivotSpec => []LookupFindsOrigin
<1>1. PivotInv /\ StandInv => LookupFindsOrigin
  BY DEF PivotInv, StandInv, LookupFindsOrigin
<1>2. QED
  BY <1>1, PivotInvariance, PTL

(* The peers come up as a pair: without faults no order of concurrent       *)
(* pivots, whichever loses a race for a name, leaves a web node without its *)
(* database once they have been answered.                                   *)
THEOREM PairsComplete == PivotSpec => []WebNodeHasDatabase
<1>1. PairInv => WebNodeHasDatabase
  BY DEF PairInv, WebNodeHasDatabase, Completes, Resolving
<1>2. QED
  BY <1>1, PivotInvariance, PivotInitOK, PairInvStep, PTL DEF PivotSpec

=============================================================================
