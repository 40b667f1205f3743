----------------------------- MODULE PivotPeers -----------------------------
(***************************************************************************)
(* Pivots: POST /session/peer of broker.py, composed with SessionBroker.   *)
(*                                                                         *)
(* When an attacker reaches for another node of the estate, the connection *)
(* lands on the proxy, which asks the broker for a backend.  acquire_peer  *)
(* holds state.lock only to look up the owner of the source address; the   *)
(* node is then found or built on the owner's back network by a thread     *)
(* that holds no lock, so pivots interleave with each other, with the      *)
(* reaper and with evictions, one Docker call at a time.                   *)
(***************************************************************************)
EXTENDS SessionBroker

CONSTANTS
    Pivots,         \* concurrent /session/peer requests
    MaxPeerFaults,  \* bound: no peer fault after this many faults of any kind
    PeerFaultKinds  \* which of them may happen

ASSUME PivotAssumption ==
    /\ MaxPeerFaults \in Nat
    /\ Pivots \cap Tasks = {}

VARIABLES
    ppc,            \* where each pivot request is between two Docker calls
    origin,         \* the container a pivot comes from (not known to the broker)
    from,           \* request.from_address
    want,           \* the node that was asked for (request.to_address)
    owner,          \* what acquire_peer made of from_address
    node,           \* the node _spawn_peer is working on
    answer,         \* the network of the address that will be returned
    peer,           \* Docker: the peer containers of each key
    joined,         \* Docker: which of them are on the key's back network
    back,           \* Docker: the back networks
    backAttached,   \* Docker: the back networks the proxy is attached to
    peerFaults      \* how many peer faults have happened

requestOfPivot == <<origin, from, want, owner, node, answer>>
peerVars == <<peer, joined, back, backAttached>>
pivotVars == <<ppc, requestOfPivot, peerVars, peerFaults>>
allVars == <<vars, pivotVars>>

(* PEER_PLAN: .21 is always the web node, .31 always the database.         *)
PeerNodes == {"node-02-erp", "node-03-db"}

PivotPc == {"idle", "lookup", "network", "create", "find", "start", "attach",
            "run", "join", "reach", "bridged"}

PivotTypeOK ==
    /\ ppc \in [Pivots -> PivotPc]
    /\ origin \in [Pivots -> ContainerIds \cup {Nobody}]
    /\ from \in [Pivots -> Subnets \cup {Nobody}]
    /\ want \in [Pivots -> PeerNodes \cup {Nobody}]
    /\ owner \in [Pivots -> SrcIps \cup {Nobody}]
    /\ node \in [Pivots -> PeerNodes \cup {Nobody}]
    /\ answer \in [Pivots -> {"none", "back", "bridge"}]
    /\ peer \in [SrcIps \X PeerNodes -> {"absent", "stopped", "running"}]
    /\ joined \in SUBSET (SrcIps \X PeerNodes)
    /\ back \in SUBSET SrcIps
    /\ backAttached \in SUBSET SrcIps
    /\ peerFaults \in Nat

PivotInit ==
    /\ Init
    /\ ppc = [p \in Pivots |-> "idle"]
    /\ origin = [p \in Pivots |-> Nobody]
    /\ from = [p \in Pivots |-> Nobody]
    /\ want = [p \in Pivots |-> Nobody]
    /\ owner = [p \in Pivots |-> Nobody]
    /\ node = [p \in Pivots |-> Nobody]
    /\ answer = [p \in Pivots |-> "none"]
    /\ peer = [kn \in SrcIps \X PeerNodes |-> "absent"]
    /\ joined = {}
    /\ back = {}
    /\ backAttached = {}
    /\ peerFaults = 0

-----------------------------------------------------------------------------

PGoto(p, label) == ppc' = [ppc EXCEPT ![p] = label]

PeerFault(kind) ==
    /\ kind \in PeerFaultKinds
    /\ faults + peerFaults < MaxPeerFaults
    /\ peerFaults' = peerFaults + 1

(* The pivot requests in S are over.                                       *)
Clear(S) ==
    /\ ppc' = [p \in Pivots |-> IF p \in S THEN "idle" ELSE ppc[p]]
    /\ origin' = [p \in Pivots |-> IF p \in S THEN Nobody ELSE origin[p]]
    /\ from' = [p \in Pivots |-> IF p \in S THEN Nobody ELSE from[p]]
    /\ want' = [p \in Pivots |-> IF p \in S THEN Nobody ELSE want[p]]
    /\ owner' = [p \in Pivots |-> IF p \in S THEN Nobody ELSE owner[p]]
    /\ node' = [p \in Pivots |-> IF p \in S THEN Nobody ELSE node[p]]
    /\ answer' = [p \in Pivots |-> IF p \in S THEN "none" ELSE answer[p]]

Spot(p) == <<owner[p], node[p]>>

(* The database that comes up with a web node: its failure is only logged. *)
Nested(p) == node[p] # want[p]

(* An exception in _spawn_peer: HTTP 500, unless it is the nested call.    *)
SpawnFails(p) ==
    IF Nested(p)
      THEN PGoto(p, "bridged") /\ UNCHANGED requestOfPivot
      ELSE Clear({p})

(* The first _address_of counts: the nested call's address is dropped.     *)
Answered(p, net) ==
    answer' = IF Nested(p) THEN answer ELSE [answer EXCEPT ![p] = net]

-----------------------------------------------------------------------------

(* A shell in a running entry container connects to a peer's address, which *)
(* the proxy holds on that attacker's network.                             *)
Pivot(p) ==
    /\ ppc[p] = "idle"
    /\ \E k \in claimed, n \in PeerNodes :
         /\ entry[k] \in running
         /\ origin' = [origin EXCEPT ![p] = entry[k]]
         /\ from' = [from EXCEPT ![p] = subnet[k]]
         /\ want' = [want EXCEPT ![p] = n]
    /\ PGoto(p, "lookup")
    /\ UNCHANGED <<owner, node, answer, peerVars, peerFaults>>

(* Mutant: the source address is not compared.                             *)
LookupAnyOwner(p) ==
    /\ up
    /\ lock = Nobody
    /\ ppc[p] = "lookup"
    /\ \E k \in Tracked : owner' = [owner EXCEPT ![p] = k]
    /\ node' = [node EXCEPT ![p] = want[p]]
    /\ PGoto(p, "network")
    /\ UNCHANGED <<origin, from, want, answer, peerVars, peerFaults>>

(* Under the lock: the backend whose address the connection came from.     *)
LookupOwner(p) ==
    /\ up
    /\ lock = Nobody
    /\ ppc[p] = "lookup"
    /\ \E k \in Tracked :
         /\ backends[k].address = from[p]
         /\ owner' = [owner EXCEPT ![p] = k]
    /\ node' = [node EXCEPT ![p] = want[p]]
    /\ PGoto(p, "network")
    /\ UNCHANGED <<origin, from, want, answer, peerVars, peerFaults>>

(* Mutant: a pivot from an unknown address is not refused.                 *)
UnknownOriginGoesOn(p) ==
    /\ ppc[p] = "lookup"
    /\ lock = Nobody /\ \A k \in Tracked : backends[k].address # from[p]
    /\ node' = [node EXCEPT ![p] = want[p]]
    /\ PGoto(p, "network")
    /\ UNCHANGED <<origin, from, want, owner, answer, peerVars, peerFaults>>

(* HTTP 403, or no broker to ask.                                          *)
RefusePivot(p) ==
    /\ ppc[p] = "lookup"
    /\ ~up \/ (lock = Nobody /\ \A k \in Tracked : backends[k].address # from[p])
    /\ Clear({p})
    /\ UNCHANGED <<peerVars, peerFaults>>

(* _ensure_back_network: look the network up ...                           *)
EnsureBackNetwork(p) ==
    /\ ppc[p] = "network"
    /\ PGoto(p, IF owner[p] \in back THEN "find" ELSE "create")
    /\ UNCHANGED <<requestOfPivot, peerVars, peerFaults>>

(* ... and create it; Docker refuses a second network of the same name.    *)
CreateBackNetwork(p) ==
    /\ ppc[p] = "create"
    /\ owner[p] \notin back
    /\ back' = back \cup {owner[p]}
    /\ PGoto(p, "find")
    /\ UNCHANGED <<requestOfPivot, peer, joined, backAttached, peerFaults>>

(* The address _address_of finds in what the last reload of the container  *)
(* said: not on the back network if nobody has connected it by then.       *)
Looked(p) == Answered(p, IF Spot(p) \in joined THEN "back" ELSE "bridge")

(* The peer exists.  If it runs, its address is known from this reload.    *)
ReusePeer(p) ==
    /\ ppc[p] = "find"
    /\ peer[Spot(p)] # "absent"
    /\ IF peer[Spot(p)] = "running"
         THEN PGoto(p, "attach") /\ Looked(p)
         ELSE PGoto(p, "start") /\ UNCHANGED answer
    /\ UNCHANGED <<origin, from, want, owner, node, peerVars, peerFaults>>

(* It has stopped: start it and reload.                                    *)
StartPeer(p) ==
    /\ ppc[p] = "start"
    /\ peer' = [peer EXCEPT ![Spot(p)] = "running"]
    /\ Looked(p)
    /\ PGoto(p, "attach")
    /\ UNCHANGED <<origin, from, want, owner, node, joined, back, backAttached,
                   peerFaults>>

(* _attach_proxy on the back network: a DockerException is only logged.    *)
AttachToBack(p) ==
    /\ \/ backAttached' = backAttached \cup {owner[p]} /\ UNCHANGED peerFaults
       \/ backAttached' = backAttached /\ PeerFault("docker")
    /\ UNCHANGED <<peer, joined, back>>

(* A recreated proxy has lost its attachment: attach it again, and reply.  *)
AttachAgain(p) ==
    /\ ppc[p] = "attach"
    /\ AttachToBack(p)
    /\ PGoto(p, "bridged")
    /\ UNCHANGED requestOfPivot

PeerNotFound(p) ==
    /\ ppc[p] = "find"
    /\ peer[Spot(p)] = "absent"
    /\ PGoto(p, "run")
    /\ UNCHANGED <<requestOfPivot, peerVars, peerFaults>>

RunPeer(p) ==
    /\ ppc[p] = "run"
    /\ peer[Spot(p)] = "absent"
    /\ peer' = [peer EXCEPT ![Spot(p)] = "running"]
    /\ PGoto(p, "join")
    /\ UNCHANGED <<requestOfPivot, joined, back, backAttached, peerFaults>>

(* back.connect.                                                           *)
JoinPeer(p) ==
    /\ ppc[p] = "join"
    /\ joined' = joined \cup {Spot(p)}
    /\ PGoto(p, "reach")
    /\ UNCHANGED <<requestOfPivot, peer, back, backAttached, peerFaults>>

(* Mutant: the web node comes up alone.                                    *)
ReachWithoutPair(p) ==
    /\ ppc[p] = "reach"
    /\ AttachToBack(p)
    /\ Answered(p, "back")
    /\ PGoto(p, "bridged")
    /\ UNCHANGED <<origin, from, want, owner, node>>

(* _attach_proxy, reload and _address_of.  A web node's first spawn goes   *)
(* on to spawn the database in the same thread.                            *)
ReachPeer(p) ==
    /\ ppc[p] = "reach"
    /\ AttachToBack(p)
    /\ Answered(p, "back")
    /\ IF node[p] = "node-02-erp"
         THEN PGoto(p, "network") /\ node' = [node EXCEPT ![p] = "node-03-db"]
         ELSE PGoto(p, "bridged") /\ UNCHANGED node
    /\ UNCHANGED <<origin, from, want, owner>>

(* A name already taken by a concurrent pivot.                             *)
NameTaken(p) ==
    /\ \/ ppc[p] = "create" /\ owner[p] \in back
       \/ ppc[p] = "run" /\ peer[Spot(p)] # "absent"
    /\ SpawnFails(p)
    /\ UNCHANGED <<peerVars, peerFaults>>

(* What a call that failed may have done before: a container that was      *)
(* created but not started stays behind, as does whatever Docker did       *)
(* without its answer getting through.                                     *)
HalfDone(p) ==
    /\ \/ UNCHANGED peer
       \/ ppc[p] = "run" /\ peer[Spot(p)] = "absent" /\ peer' = [peer EXCEPT ![Spot(p)] = "stopped"]
       \/ ppc[p] = "start" /\ peer' = [peer EXCEPT ![Spot(p)] = "running"]
    /\ joined' \in {joined} \cup IF ppc[p] = "join" THEN {joined \cup {Spot(p)}} ELSE {}
    /\ back' \in {back} \cup IF ppc[p] = "create" THEN {back \cup {owner[p]}} ELSE {}
    /\ backAttached' \in
         {backAttached} \cup IF ppc[p] = "reach" THEN {backAttached \cup {owner[p]}} ELSE {}

(* A Docker error anywhere in _spawn_peer that is not caught there.        *)
PeerStepFails(p) ==
    /\ ppc[p] \in {"network", "create", "find", "start", "run", "join", "reach"}
    /\ PeerFault("docker")
    /\ HalfDone(p)
    /\ SpawnFails(p)

(* The pivot session ends; peer_gateway releases nothing.                  *)
EndPivot(p) ==
    /\ ppc[p] = "bridged"
    /\ Clear({p})
    /\ UNCHANGED <<peerVars, peerFaults>>

PeerDies ==
    /\ PeerFault("death")
    /\ \E kn \in SrcIps \X PeerNodes :
         /\ peer[kn] = "running"
         /\ peer' = [peer EXCEPT ![kn] = "stopped"]
    /\ UNCHANGED <<ppc, requestOfPivot, joined, back, backAttached>>

PivotStep ==
    \/ \E p \in Pivots :
         \/ Pivot(p) \/ LookupOwner(p) \/ RefusePivot(p)
         \/ EnsureBackNetwork(p) \/ CreateBackNetwork(p)
         \/ ReusePeer(p) \/ StartPeer(p) \/ AttachAgain(p)
         \/ PeerNotFound(p) \/ RunPeer(p) \/ JoinPeer(p) \/ ReachPeer(p)
         \/ NameTaken(p) \/ PeerStepFails(p) \/ EndPivot(p)
    \/ PeerDies

-----------------------------------------------------------------------------
(* Composition: the broker's process and the proxy are shared.             *)

PivotCrash ==
    /\ Crash
    /\ Clear({p \in Pivots : ppc[p] # "bridged"})
    /\ UNCHANGED <<peerVars, peerFaults>>

PivotProxyRecreated ==
    /\ ProxyRecreated
    /\ Clear({p \in Pivots : ppc[p] \in {"lookup", "bridged"}})
    /\ backAttached' = {}
    /\ UNCHANGED <<peer, joined, back, peerFaults>>

PivotNext ==
    \/ Broker /\ UNCHANGED pivotVars
    \/ (ContainerDies \/ Tick \/ \E s \in Sessions : GiveUp(s)) /\ UNCHANGED pivotVars
    \/ PivotCrash
    \/ PivotProxyRecreated
    \/ PivotStep /\ UNCHANGED vars

PivotSpec == PivotInit /\ [][PivotNext]_allVars

-----------------------------------------------------------------------------
(* Properties.                                                             *)

(* "A pivot can only ever reach the attacker's own peers": while the       *)
(* container a pivot comes from still runs, the owner found for its        *)
(* address is the attacker that container was built for, whatever was      *)
(* evicted, reaped or given a new subnet in between.                       *)
LookupFindsOrigin ==
    \A p \in Pivots :
        owner[p] # Nobody /\ origin[p] \in running => builtFor[origin[p]] = owner[p]

(* The pivot targets come up as a pair: once no pivot of an attacker is    *)
(* being resolved, a web node has its database behind it, whichever of     *)
(* several concurrent pivots lost a race for a name.  (A fault may leave   *)
(* the web node alone: its reuse path does not spawn the database again.)  *)
Resolving(k) == \E p \in Pivots : ppc[p] \notin {"idle", "bridged"} /\ owner[p] = k

WebNodeHasDatabase ==
    faults = 0 /\ peerFaults = 0 => \A k \in SrcIps :
        peer[<<k, "node-02-erp">>] # "absent" /\ ~Resolving(k) => peer[<<k, "node-03-db">>] # "absent"

(* The gateway "gets back somewhere to bridge to": a successful reply      *)
(* names an address on the owner's back network.                           *)
ReplyCanBeBridged ==
    \A p \in Pivots : ppc[p] = "bridged" => answer[p] = "back"

=============================================================================
