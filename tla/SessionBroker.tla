--------------------------- MODULE SessionBroker ---------------------------
(***************************************************************************)
(* The session broker: one container environment per attacker address.     *)
(*                                                                         *)
(* Models broker.py of the honeypot's session-broker service.  Requests    *)
(* are coroutines that give up the event loop at every `await`, so each    *)
(* Docker call made through asyncio.to_thread is a step of its own and     *)
(* the steps of different requests interleave.  What serialises them is    *)
(* state.lock, which acquire_session, release_session and the reaper take  *)
(* and plant_decoys does not.                                              *)
(*                                                                         *)
(* The Docker engine is external: what it holds (containers, networks,     *)
(* the proxy's attachments) survives a crash of the broker.  A container   *)
(* or a network is named after its key, so there is at most one of each    *)
(* kind per key; a container id is never reused.                           *)
(***************************************************************************)
EXTENDS Naturals, FiniteSets, Functions

CONSTANTS
    SrcIps,         \* attacker source addresses: the isolation keys
    Sessions,       \* SSH sessions of the proxy, each one /session request
    Planters,       \* concurrent /session/decoys requests
    Reaper,         \* the background task
    ContainerIds,   \* ids Docker can still hand out (bounds creations)
    Subnets,        \* Docker's address pool
    Nobody,         \* Python's None
    NoAddress,      \* the empty IPAddress of a container that is not running
    MaxContainers,  \* MAX_CONTAINERS
    IdleTtl,        \* IDLE_TTL_SECONDS
    SessionLimit,   \* longest time from a request to the end of its session
    MaxClock,       \* bound: the clock stops here
    MaxFaults,      \* bound: how many faults a behaviour may contain
    FaultKinds      \* which faults may happen

Tasks == Sessions \cup Planters \cup {Reaper}

ASSUME ConstantsAssumption ==
    /\ MaxContainers \in Nat \ {0}
    /\ IdleTtl \in Nat
    /\ SessionLimit \in Nat
    /\ MaxClock \in Nat
    /\ MaxFaults \in Nat
    /\ IsFiniteSet(SrcIps)

ASSUME DistinctAssumption ==
    /\ Sessions \cap Planters = {}
    /\ Reaper \notin Sessions \cup Planters
    /\ Nobody \notin SrcIps \cup Tasks \cup ContainerIds \cup Subnets
    /\ NoAddress \notin Subnets

VARIABLES
    backends,   \* state.backends: a dict from source address to Backend
    lock,       \* state.lock: the task that holds it, or Nobody
    pc,         \* where each task is between two awaits
    src,        \* request.src_ip of each request in progress
    cid,        \* the container id a request holds in a local variable
    since,      \* when each session's request was let in
    deserted,   \* sessions whose proxy no longer waits for the reply
    victim,     \* the key that _destroy is working on
    doomed,     \* and the container id of the backend it popped
    stale,      \* the reaper's list of keys still to destroy
    now,        \* the reaper's `now`, read before it takes the lock
    up,         \* is the broker process running?
    entry,      \* Docker: the entry container of each key
    running,    \* Docker: the containers whose status is "running"
    builtFor,   \* the key each container id was created for (its label)
    subnet,     \* Docker: the subnet of each key's front network
    attached,   \* Docker: the front networks the proxy is attached to
    claimed,    \* the front networks where the proxy holds .21 and .31
    decoys,     \* the keys whose decoys each container was given
    clock,      \* time.time()
    faults      \* how many faults have happened

requestVars == <<src, cid, since, deserted>>
taskVars == <<pc, requestVars>>
destroyVars == <<victim, doomed>>
reaperVars == <<stale, now>>
containerVars == <<entry, running, builtFor>>
networkVars == <<subnet, attached, claimed>>
dockerVars == <<containerVars, networkVars, decoys>>
vars == <<backends, lock, taskVars, destroyVars, reaperVars, up, dockerVars,
          clock, faults>>

Backend == [container_id : ContainerIds,
            address      : Subnets \cup {NoAddress},
            last_seen    : Nat]

SessionPc == {"idle", "check", "remove", "detach", "network", "adopt", "run",
              "attach", "store", "open"}
PlanterPc == {"idle", "write"}
ReaperPc == {"idle", "waiting", "sweep", "remove", "detach", "dead"}

(* A dict of backends.                                                     *)
Dict(d) == \E D \in SUBSET SrcIps : d \in [D -> Backend]

(* Where a task holds the lock.                                            *)
LockedPc == (SessionPc \ {"idle", "open"}) \cup {"sweep"}

TypeOK ==
    /\ Dict(backends)
    /\ lock \in Sessions \cup {Reaper, Nobody}
    /\ pc \in [Tasks -> SessionPc \cup PlanterPc \cup ReaperPc]
    /\ src \in [Tasks -> SrcIps \cup {Nobody}]
    /\ cid \in [Tasks -> ContainerIds \cup {Nobody}]
    /\ since \in [Sessions -> Nat]
    /\ deserted \in SUBSET Sessions
    /\ victim \in SrcIps \cup {Nobody}
    /\ doomed \in ContainerIds \cup {Nobody}
    /\ stale \in SUBSET SrcIps
    /\ now \in Nat
    /\ up \in BOOLEAN
    /\ entry \in [SrcIps -> ContainerIds \cup {Nobody}]
    /\ running \in SUBSET ContainerIds
    /\ builtFor \in [ContainerIds -> SrcIps \cup {Nobody}]
    /\ subnet \in [SrcIps -> Subnets \cup {Nobody}]
    /\ attached \in SUBSET SrcIps
    /\ claimed \in SUBSET SrcIps
    /\ decoys \in [ContainerIds -> SUBSET SrcIps]
    /\ clock \in Nat
    /\ faults \in Nat

Init ==
    /\ backends = [k \in {} |-> Nobody]
    /\ lock = Nobody
    /\ pc = [t \in Tasks |-> "idle"]
    /\ src = [t \in Tasks |-> Nobody]
    /\ cid = [t \in Tasks |-> Nobody]
    /\ since = [s \in Sessions |-> 0]
    /\ deserted = {}
    /\ victim = Nobody
    /\ doomed = Nobody
    /\ stale = {}
    /\ now = 0
    /\ up = TRUE
    /\ entry = [k \in SrcIps |-> Nobody]
    /\ running = {}
    /\ builtFor = [c \in ContainerIds |-> Nobody]
    /\ subnet = [k \in SrcIps |-> Nobody]
    /\ attached = {}
    /\ claimed = {}
    /\ decoys = [c \in ContainerIds |-> {}]
    /\ clock = 0
    /\ faults = 0

-----------------------------------------------------------------------------
(* The dict state.backends, and small helpers.                             *)

Tracked == DOMAIN backends

Store(dict, k, b) == [x \in DOMAIN dict \cup {k} |-> IF x = k THEN b ELSE dict[x]]
Pop(dict, k) == Restrict(dict, DOMAIN dict \ {k})

(* Backend.touch on the entry of key k.                                    *)
Touched(k) == [backends EXCEPT ![k].last_seen = clock]

(* Whether the container of the tracked backend of k really runs.  What    *)
(* _container_alive says of it is in ReuseBackend and NeedsContainer.      *)
Alive(k) == backends[k].container_id \in running

(* min(state.backends, key=last_seen).                                     *)
Oldest(dict) ==
    {k \in DOMAIN dict : \A j \in DOMAIN dict : dict[k].last_seen <= dict[j].last_seen}

UnusedIds == {c \in ContainerIds : builtFor[c] = Nobody}
FreeSubnets == {n \in Subnets : \A k \in SrcIps : subnet[k] # n}

Goto(t, label) == pc' = [pc EXCEPT ![t] = label]

(* A fault of the given kind happens in this step.                         *)
Fault(kind) ==
    /\ kind \in FaultKinds
    /\ faults < MaxFaults
    /\ faults' = faults + 1

(* The request of t is over: its coroutine and its locals are gone.        *)
Finish(t) ==
    /\ pc' = [pc EXCEPT ![t] = "idle"]
    /\ src' = [src EXCEPT ![t] = Nobody]
    /\ cid' = [cid EXCEPT ![t] = Nobody]
    /\ since' = [s \in Sessions |-> IF s = t THEN 0 ELSE since[s]]
    /\ deserted' = deserted \ {t}

(* Mutant: the lock is only given back on the way to a reply.              *)
AbortKeepsLock(s) == Finish(s) /\ UNCHANGED lock

(* An HTTPException or any other exception leaves `async with state.lock`. *)
Abort(s) == Finish(s) /\ lock' = Nobody

-----------------------------------------------------------------------------
(* POST /session.                                                          *)

(* The request gets the lock.  ContainerIds bounds the containers ever     *)
(* created, so a request is only let in while one is left.                 *)
AcquireSession(s) ==
    /\ up
    /\ pc[s] = "idle"
    /\ lock = Nobody
    /\ UnusedIds # {}
    /\ lock' = s
    /\ \E k \in SrcIps : src' = [src EXCEPT ![s] = k]
    /\ since' = [since EXCEPT ![s] = clock]
    /\ Goto(s, "check")
    /\ UNCHANGED <<backends, cid, deserted, destroyVars, reaperVars, up,
                   dockerVars, clock, faults>>

(* Mutant: a returning session does not count as activity.                 *)
ReuseWithoutTouch(s) ==
    /\ pc[s] = "check"
    /\ src[s] \in Tracked
    /\ Alive(src[s])
    /\ cid' = [cid EXCEPT ![s] = backends[src[s]].container_id]
    /\ Goto(s, "network")
    /\ UNCHANGED <<backends, lock, src, since, deserted, destroyVars, reaperVars, up,
                   dockerVars, clock, faults>>

(* The attacker returns to a container that is running: touch, then make   *)
(* sure of the network and the proxy again.                                *)
ReuseBackend(s) ==
    /\ pc[s] = "check"
    /\ src[s] \in Tracked
    /\ Alive(src[s])
    /\ backends' = Touched(src[s])
    /\ cid' = [cid EXCEPT ![s] = backends[src[s]].container_id]
    /\ Goto(s, "network")
    /\ UNCHANGED <<lock, src, since, deserted, destroyVars, reaperVars, up,
                   dockerVars, clock, faults>>

(* There is no backend, its container does not run, or Docker failed to    *)
(* say so: _container_alive turns every DockerException into False.        *)
NeedsContainer(s) ==
    \/ (src[s] \in Tracked => ~Alive(src[s])) /\ UNCHANGED faults
    \/ src[s] \in Tracked /\ Alive(src[s]) /\ Fault("docker")

(* Mutant: off by one at the capacity.                                     *)
MakeRoomOffByOne(s) ==
    /\ pc[s] = "check"
    /\ NeedsContainer(s)
    /\ Cardinality(Tracked \ {src[s]}) <= MaxContainers
    /\ backends' = Pop(backends, src[s])
    /\ Goto(s, "network")
    /\ UNCHANGED <<lock, requestVars, destroyVars, reaperVars, up, dockerVars, clock>>

(* No backend, or one taken for vanished, and there is room.               *)
MakeRoom(s) ==
    /\ pc[s] = "check"
    /\ NeedsContainer(s)
    /\ Cardinality(Tracked \ {src[s]}) < MaxContainers
    /\ backends' = Pop(backends, src[s])
    /\ Goto(s, "network")
    /\ UNCHANGED <<lock, requestVars, destroyVars, reaperVars, up, dockerVars,
                   clock>>

(* Mutant: the backend stays in the dict while it is being destroyed.      *)
DestroyBeforePop(t, dict, k) ==
    /\ backends' = dict
    /\ victim' = k
    /\ doomed' = dict[k].container_id
    /\ Goto(t, "remove")

(* _destroy pops the backend before its first await.                       *)
BeginDestroy(t, dict, k) ==
    /\ backends' = Pop(dict, k)
    /\ victim' = k
    /\ doomed' = dict[k].container_id
    /\ Goto(t, "remove")

(* Mutant: the lock is not held while the oldest backend is destroyed.     *)
EvictUnlocked(s) ==
    /\ pc[s] = "check"
    /\ NeedsContainer(s)
    /\ Cardinality(Tracked \ {src[s]}) >= MaxContainers
    /\ LET rest == Pop(backends, src[s])
       IN  \E k \in Oldest(rest) : BeginDestroy(s, rest, k)
    /\ lock' = Nobody
    /\ UNCHANGED <<requestVars, reaperVars, up, dockerVars, clock>>

(* The broker is full: _reap_oldest_locked.                                *)
EvictOldest(s) ==
    /\ pc[s] = "check"
    /\ NeedsContainer(s)
    /\ Cardinality(Tracked \ {src[s]}) >= MaxContainers
    /\ LET rest == Pop(backends, src[s])
       IN  \E k \in Oldest(rest) : BeginDestroy(s, rest, k)
    /\ UNCHANGED <<lock, requestVars, reaperVars, up, dockerVars, clock>>

(* _container_alive lets an error that is not a DockerException escape.    *)
CheckFails(s) ==
    /\ pc[s] = "check"
    /\ src[s] \in Tracked
    /\ Fault("wedge")
    /\ Abort(s)
    /\ UNCHANGED <<backends, destroyVars, reaperVars, up, dockerVars, clock>>

(* Mutant: the network is looked up and never created.                     *)
NetworkNeverCreated(s) ==
    /\ pc[s] = "network"
    /\ Goto(s, IF src[s] \in Tracked THEN "attach" ELSE "adopt")
    /\ UNCHANGED <<backends, lock, requestVars, destroyVars, reaperVars, up,
                   dockerVars, clock, faults>>

(* Mutant: the reuse path trusts that the proxy is still attached.         *)
ReuseWithoutAttach(s) ==
    /\ pc[s] = "network"
    /\ IF subnet[src[s]] # Nobody
         THEN UNCHANGED subnet
         ELSE \E n \in FreeSubnets : subnet' = [subnet EXCEPT ![src[s]] = n]
    /\ Goto(s, IF src[s] \in Tracked THEN "store" ELSE "adopt")
    /\ UNCHANGED <<backends, lock, requestVars, destroyVars, reaperVars, up,
                   containerVars, attached, claimed, decoys, clock, faults>>

(* _ensure_network.  Docker refuses a network when its pool is exhausted.  *)
EnsureNetwork(s) ==
    /\ pc[s] = "network"
    /\ IF subnet[src[s]] # Nobody
         THEN UNCHANGED subnet
         ELSE \E n \in FreeSubnets : subnet' = [subnet EXCEPT ![src[s]] = n]
    /\ Goto(s, IF src[s] \in Tracked THEN "attach" ELSE "adopt")
    /\ UNCHANGED <<backends, lock, requestVars, destroyVars, reaperVars, up,
                   containerVars, attached, claimed, decoys, clock, faults>>

EnsureNetworkFails(s) ==
    /\ pc[s] = "network"
    /\ \/ subnet[src[s]] = Nobody /\ FreeSubnets = {} /\ UNCHANGED faults
       \/ Fault("docker")
    /\ Abort(s)
    /\ UNCHANGED <<backends, destroyVars, reaperVars, up, dockerVars, clock>>

(* Mutant: the name of a container does not depend on the key.             *)
AdoptAnyEntry(s) ==
    /\ pc[s] = "adopt"
    /\ \E k \in SrcIps :
         /\ entry[k] # Nobody
         /\ running' = running \cup {entry[k]}
         /\ cid' = [cid EXCEPT ![s] = entry[k]]
    /\ Goto(s, "attach")
    /\ UNCHANGED <<backends, lock, src, since, deserted, destroyVars, reaperVars, up,
                   entry, builtFor, networkVars, decoys, clock, faults>>

(* _adopt_existing finds this attacker's container, and starts it if it    *)
(* has stopped.                                                            *)
AdoptExisting(s) ==
    LET c == entry[src[s]] IN
    /\ pc[s] = "adopt"
    /\ c # Nobody
    /\ running' = running \cup {c}
    /\ cid' = [cid EXCEPT ![s] = c]
    /\ Goto(s, "attach")
    /\ UNCHANGED <<backends, lock, src, since, deserted, destroyVars, reaperVars,
                   up, entry, builtFor, networkVars, decoys, clock, faults>>

(* A stopped container that cannot be started is removed, if it can be.    *)
AdoptReplaces(s) ==
    LET c == entry[src[s]] IN
    /\ pc[s] = "adopt"
    /\ c # Nobody
    /\ c \notin running
    /\ Fault("docker")
    /\ entry' \in {entry, [entry EXCEPT ![src[s]] = Nobody]}
    /\ Goto(s, "run")
    /\ UNCHANGED <<backends, lock, requestVars, destroyVars, reaperVars, up,
                   running, builtFor, networkVars, decoys, clock>>

(* An error that _adopt_existing or its caller does not handle, perhaps    *)
(* after the container was started.                                        *)
AdoptFails(s) ==
    LET c == entry[src[s]] IN
    /\ pc[s] = "adopt"
    /\ c # Nobody
    /\ Fault("docker")
    /\ running' \in {running, running \cup {c}}
    /\ Abort(s)
    /\ UNCHANGED <<backends, destroyVars, reaperVars, up, entry, builtFor,
                   networkVars, decoys, clock>>

NothingToAdopt(s) ==
    /\ pc[s] = "adopt"
    /\ entry[src[s]] = Nobody
    /\ Goto(s, "run")
    /\ UNCHANGED <<backends, lock, requestVars, destroyVars, reaperVars, up,
                   dockerVars, clock, faults>>

(* containers.run.                                                         *)
CreateContainer(s) ==
    /\ pc[s] = "run"
    /\ entry[src[s]] = Nobody
    /\ \E c \in UnusedIds :
         /\ entry' = [entry EXCEPT ![src[s]] = c]
         /\ builtFor' = [builtFor EXCEPT ![c] = src[s]]
         /\ running' = running \cup {c}
         /\ cid' = [cid EXCEPT ![s] = c]
    /\ Goto(s, "attach")
    /\ UNCHANGED <<backends, lock, src, since, deserted, destroyVars, reaperVars,
                   up, networkVars, decoys, clock, faults>>

(* The name is taken, or Docker refuses: perhaps after the container was   *)
(* created, which then stays behind, stopped and in nobody's dict.         *)
CreateFails(s) ==
    /\ pc[s] = "run"
    /\ \/ entry[src[s]] # Nobody /\ UNCHANGED <<entry, builtFor, faults>>
       \/ /\ entry[src[s]] = Nobody
          /\ Fault("docker")
          /\ \/ UNCHANGED <<entry, builtFor>>
             \/ \E c \in UnusedIds :
                  /\ entry' = [entry EXCEPT ![src[s]] = c]
                  /\ builtFor' = [builtFor EXCEPT ![c] = src[s]]
    /\ Abort(s)
    /\ UNCHANGED <<backends, destroyVars, reaperVars, up, running, networkVars,
                   decoys, clock>>

(* _attach_proxy and _claim_peer_addresses; both swallow a DockerException *)
(* and claiming needs an interface on the network.                         *)
AttachProxy(s) ==
    /\ pc[s] = "attach"
    /\ \/ /\ attached' = attached \cup {src[s]}
          /\ claimed' = claimed \cup {src[s]}
          /\ UNCHANGED faults
       \/ /\ Fault("docker")
          /\ attached' \in {attached, attached \cup {src[s]}}
          /\ UNCHANGED claimed
    /\ Goto(s, "store")
    /\ UNCHANGED <<backends, lock, requestVars, destroyVars, reaperVars, up,
                   containerVars, subnet, decoys, clock>>

(* An error that is not a DockerException escapes from both.               *)
AttachFails(s) ==
    /\ pc[s] = "attach"
    /\ Fault("wedge")
    /\ attached' \in {attached, attached \cup {src[s]}}
    /\ Abort(s)
    /\ UNCHANGED <<backends, destroyVars, reaperVars, up, containerVars, subnet,
                   claimed, decoys, clock>>

(* What _address_of can return for container c of key k.  A container that *)
(* died while it was being built has the address read before it died, or   *)
(* an empty one.                                                           *)
AddressesOf(k, c) == {subnet[k]} \cup IF c \in running THEN {} ELSE {NoAddress}

(* Mutant: a container that was adopted or created is not stored.          *)
ReplyWithoutStore(s) ==
    /\ pc[s] = "store"
    /\ lock' = Nobody
    /\ IF s \in deserted
         THEN Finish(s)
         ELSE Goto(s, "open") /\ UNCHANGED requestVars
    /\ UNCHANGED <<backends, destroyVars, reaperVars, up, dockerVars, clock, faults>>

(* The backend is stored, unless it is being reused, and the reply sent:   *)
(* the proxy bridges the session, if it is still waiting.                  *)
ReplySession(s) ==
    /\ pc[s] = "store"
    /\ IF src[s] \in Tracked
         THEN UNCHANGED backends
         ELSE \E a \in AddressesOf(src[s], cid[s]) :
                backends' = Store(backends, src[s],
                                  [container_id |-> cid[s], address |-> a, last_seen |-> clock])
    /\ lock' = Nobody
    /\ IF s \in deserted
         THEN Finish(s)
         ELSE Goto(s, "open") /\ UNCHANGED requestVars
    /\ UNCHANGED <<destroyVars, reaperVars, up, dockerVars, clock, faults>>

(* _address_of or a reload raises: the container runs, but is not tracked. *)
ReplyFails(s) ==
    /\ pc[s] = "store"
    /\ src[s] \notin Tracked
    /\ Fault("docker")
    /\ Abort(s)
    /\ UNCHANGED <<backends, destroyVars, reaperVars, up, dockerVars, clock>>

-----------------------------------------------------------------------------
(* POST /session/release, sent when the proxy's connection is lost.        *)

ReleaseSession(s) ==
    /\ up
    /\ pc[s] = "open"
    /\ lock = Nobody
    /\ backends' = IF src[s] \in Tracked THEN Touched(src[s]) ELSE backends
    /\ Finish(s)
    /\ UNCHANGED <<lock, destroyVars, reaperVars, up, dockerVars, clock, faults>>

(* _release_backend swallows every failure, so a release can be lost.      *)
LoseRelease(s) ==
    /\ pc[s] = "open"
    /\ Finish(s)
    /\ UNCHANGED <<backends, lock, destroyVars, reaperVars, up, dockerVars,
                   clock, faults>>

-----------------------------------------------------------------------------
(* POST /session/decoys.  It never takes the lock: the backend is read     *)
(* before the thread runs and used after.  (With no backend the reply is   *)
(* "no-active-session" and nothing changes: a stuttering step.)            *)

PlantDecoys(p) ==
    /\ up
    /\ pc[p] = "idle"
    /\ \E k \in Tracked :
         /\ src' = [src EXCEPT ![p] = k]
         /\ cid' = [cid EXCEPT ![p] = backends[k].container_id]
    /\ Goto(p, "write")
    /\ UNCHANGED <<backends, lock, since, deserted, destroyVars, reaperVars, up,
                   dockerVars, clock, faults>>

(* _write_files finds the container by id, writes, and the handler touches *)
(* the backend object it read.  If that one was popped meanwhile, nothing  *)
(* in the dict is touched, even when its container was adopted again with  *)
(* the same id: which of the two objects the dict has is left open.        *)
WriteFiles(p) ==
    /\ pc[p] = "write"
    /\ cid[p] \in running
    /\ decoys' = [decoys EXCEPT ![cid[p]] = @ \cup {src[p]}]
    /\ \/ /\ src[p] \in Tracked
          /\ backends[src[p]].container_id = cid[p]
          /\ backends' = Touched(src[p])
       \/ UNCHANGED backends
    /\ Finish(p)
    /\ UNCHANGED <<lock, destroyVars, reaperVars, up, containerVars, networkVars,
                   clock, faults>>

(* The container is gone or stopped, or Docker fails half way: HTTP 500.   *)
WriteFails(p) ==
    /\ pc[p] = "write"
    /\ \/ cid[p] \notin running /\ UNCHANGED <<decoys, faults>>
       \/ /\ cid[p] \in running
          /\ Fault("docker")
          /\ decoys' \in {decoys, [decoys EXCEPT ![cid[p]] = @ \cup {src[p]}]}
    /\ Finish(p)
    /\ UNCHANGED <<backends, lock, destroyVars, reaperVars, up, containerVars,
                   networkVars, clock>>

-----------------------------------------------------------------------------
(* _destroy, run by whoever holds the lock: an evicting request or the     *)
(* reaper.                                                                 *)

(* Back in the caller: the reaper goes on with its list, a request looks   *)
(* at the capacity again and gives up with 503 if there is still no room.  *)
Destroyed(t) ==
    /\ victim' = Nobody
    /\ doomed' = Nobody
    /\ IF t = Reaper
         THEN Goto(t, "sweep") /\ UNCHANGED <<lock, requestVars>>
         ELSE IF Cardinality(Tracked) < MaxContainers
                THEN Goto(t, "network") /\ UNCHANGED <<lock, requestVars>>
                ELSE Abort(t)

(* Mutant: the network does not go with its container.                     *)
RemoveContainerOnly(t) ==
    /\ pc[t] = "remove"
    /\ entry[victim] = doomed
    /\ entry' = [entry EXCEPT ![victim] = Nobody]
    /\ running' = running \ {doomed}
    /\ Destroyed(t)
    /\ UNCHANGED <<backends, reaperVars, up, builtFor, networkVars, decoys, clock, faults>>

(* _force_remove.                                                          *)
ForceRemove(t) ==
    /\ pc[t] = "remove"
    /\ entry[victim] = doomed
    /\ entry' = [entry EXCEPT ![victim] = Nobody]
    /\ running' = running \ {doomed}
    /\ Goto(t, "detach")
    /\ UNCHANGED <<backends, lock, requestVars, destroyVars, reaperVars, up,
                   builtFor, networkVars, decoys, clock, faults>>

(* NotFound, or a Docker error: logged, and the network is left alone.     *)
RemoveFails(t) ==
    /\ pc[t] = "remove"
    /\ \/ entry[victim] # doomed /\ UNCHANGED faults
       \/ entry[victim] = doomed /\ Fault("docker")
    /\ Destroyed(t)
    /\ UNCHANGED <<backends, reaperVars, up, dockerVars, clock>>

(* _collect_changes runs outside the try block and lets errors other than  *)
(* DockerException escape: the request fails, the reaper task ends.        *)
CollectFails(t) ==
    /\ pc[t] = "remove"
    /\ Fault("wedge")
    /\ victim' = Nobody
    /\ doomed' = Nobody
    /\ lock' = Nobody
    /\ IF t = Reaper
         THEN /\ Goto(t, "dead")
              /\ stale' = {}
              /\ now' = 0
              /\ UNCHANGED requestVars
         ELSE Finish(t) /\ UNCHANGED reaperVars
    /\ UNCHANGED <<backends, up, dockerVars, clock>>

(* _detach_proxy: disconnect, then remove the network; errors swallowed.   *)
DetachProxy(t) ==
    /\ pc[t] = "detach"
    /\ \/ /\ attached' = attached \ {victim}
          /\ claimed' = claimed \ {victim}
          /\ subnet' = [subnet EXCEPT ![victim] = Nobody]
          /\ UNCHANGED faults
       \/ /\ Fault("docker")
          /\ \/ UNCHANGED <<attached, claimed>>
             \/ attached' = attached \ {victim} /\ claimed' = claimed \ {victim}
          /\ UNCHANGED subnet
    /\ Destroyed(t)
    /\ UNCHANGED <<backends, reaperVars, up, containerVars, decoys, clock>>

-----------------------------------------------------------------------------
(* _reaper: wake up every minute, take the lock, destroy what is stale.    *)

ReaperWakes ==
    /\ up
    /\ pc[Reaper] = "idle"
    /\ now' = clock
    /\ Goto(Reaper, "waiting")
    /\ UNCHANGED <<backends, lock, requestVars, destroyVars, stale, up,
                   dockerVars, clock, faults>>

ReaperLocks ==
    /\ pc[Reaper] = "waiting"
    /\ lock = Nobody
    /\ lock' = Reaper
    /\ stale' = {k \in Tracked : now > backends[k].last_seen + IdleTtl}
    /\ Goto(Reaper, "sweep")
    /\ UNCHANGED <<backends, requestVars, destroyVars, now, up, dockerVars,
                   clock, faults>>

ReapNext ==
    /\ pc[Reaper] = "sweep"
    /\ \E k \in stale :
         /\ stale' = stale \ {k}
         /\ BeginDestroy(Reaper, backends, k)
    /\ UNCHANGED <<lock, requestVars, now, up, dockerVars, clock, faults>>

ReaperSleeps ==
    /\ pc[Reaper] = "sweep"
    /\ stale = {}
    /\ lock' = Nobody
    /\ now' = 0
    /\ Goto(Reaper, "idle")
    /\ UNCHANGED <<backends, requestVars, destroyVars, stale, up, dockerVars,
                   clock, faults>>

-----------------------------------------------------------------------------
(* The broker process dies: its memory goes, Docker's state stays, and so  *)
(* do sessions that are already bridged by the proxy.                      *)

Crash ==
    /\ up
    /\ Fault("crash")
    /\ up' = FALSE
    /\ backends' = [k \in {} |-> Nobody]
    /\ lock' = Nobody
    /\ pc' = [t \in Tasks |-> IF pc[t] = "open" THEN "open" ELSE "idle"]
    /\ src' = [t \in Tasks |-> IF pc[t] = "open" THEN src[t] ELSE Nobody]
    /\ cid' = [t \in Tasks |-> IF pc[t] = "open" THEN cid[t] ELSE Nobody]
    /\ since' = [s \in Sessions |-> IF pc[s] = "open" THEN since[s] ELSE 0]
    /\ deserted' = {}
    /\ victim' = Nobody
    /\ doomed' = Nobody
    /\ stale' = {}
    /\ now' = 0
    /\ UNCHANGED <<dockerVars, clock>>

(* Mutant: the reaper task of a restarted broker is lost.                  *)
StartupWithoutReaper ==
    /\ ~up
    /\ up' = TRUE
    /\ LET found == {k \in SrcIps : entry[k] # Nobody} IN
         /\ running' = running \cup {entry[k] : k \in found}
         /\ backends' = [k \in found |-> [container_id |-> entry[k],
                                          address      |-> subnet[k],
                                          last_seen    |-> clock]]
    /\ Goto(Reaper, "dead")
    /\ UNCHANGED <<lock, requestVars, destroyVars, reaperVars, entry, builtFor,
                   networkVars, decoys, clock, faults>>

(* _reconcile: every entry container is started if need be and adopted;    *)
(* those Docker fails on are skipped.  Then the reaper task starts.        *)
Startup ==
    /\ ~up
    /\ up' = TRUE
    /\ \E skipped \in SUBSET {k \in SrcIps : entry[k] # Nobody} :
         LET found == {k \in SrcIps : entry[k] # Nobody} \ skipped IN
         /\ skipped # {} => Fault("docker")
         /\ skipped = {} => UNCHANGED faults
         /\ running' = running \cup {entry[k] : k \in found}
         /\ backends' = [k \in found |-> [container_id |-> entry[k],
                                          address      |-> subnet[k],
                                          last_seen    |-> clock]]
    /\ UNCHANGED <<lock, taskVars, destroyVars, reaperVars, entry, builtFor,
                   networkVars, decoys, clock>>

-----------------------------------------------------------------------------
(* The world around the broker.                                            *)

(* A container's init process exits (shutdown by the attacker, OOM, ...).  *)
ContainerDies ==
    /\ Fault("death")
    /\ \E c \in running : running' = running \ {c}
    /\ UNCHANGED <<backends, lock, taskVars, destroyVars, reaperVars, up, entry,
                   builtFor, networkVars, decoys, clock>>

(* The proxy container is recreated: its attachments and sessions go.      *)
ProxyRecreated ==
    /\ Fault("proxy")
    /\ attached' = {}
    /\ claimed' = {}
    /\ pc' = [t \in Tasks |-> IF pc[t] = "open" THEN "idle" ELSE pc[t]]
    /\ src' = [t \in Tasks |-> IF pc[t] = "open" THEN Nobody ELSE src[t]]
    /\ cid' = [t \in Tasks |-> IF pc[t] = "open" THEN Nobody ELSE cid[t]]
    /\ since' = [s \in Sessions |-> IF pc[s] = "open" THEN 0 ELSE since[s]]
    /\ deserted' = {s \in Sessions : pc[s] \notin {"idle", "open"}}
    /\ UNCHANGED <<backends, lock, destroyVars, reaperVars, up, containerVars,
                   subnet, decoys, clock>>

(* The proxy's httpx timeout on /session passes; the broker does not know. *)
GiveUp(s) ==
    /\ pc[s] \notin {"idle", "open"}
    /\ s \notin deserted
    /\ Fault("timeout")
    /\ deserted' = deserted \cup {s}
    /\ UNCHANGED <<backends, lock, pc, src, cid, since, destroyVars, reaperVars, up,
                   dockerVars, clock>>

(* Time passes, but no session outlives SessionLimit: the proxy's timeouts *)
(* on acquiring, connecting and bridging (config.py) end it first.         *)
Tick ==
    /\ clock < MaxClock
    /\ \A s \in Sessions : pc[s] # "idle" => clock < since[s] + SessionLimit
    /\ clock' = clock + 1
    /\ UNCHANGED <<backends, lock, taskVars, destroyVars, reaperVars, up,
                   dockerVars, faults>>

-----------------------------------------------------------------------------

Destroying(t) == ForceRemove(t) \/ RemoveFails(t) \/ CollectFails(t) \/ DetachProxy(t)

(* The steps of a session request once it holds the lock.                  *)
SessionStep(s) ==
    \/ ReuseBackend(s) \/ MakeRoom(s) \/ EvictOldest(s) \/ CheckFails(s)
    \/ EnsureNetwork(s) \/ EnsureNetworkFails(s)
    \/ AdoptExisting(s) \/ AdoptReplaces(s) \/ AdoptFails(s) \/ NothingToAdopt(s)
    \/ CreateContainer(s) \/ CreateFails(s)
    \/ AttachProxy(s) \/ AttachFails(s) \/ ReplySession(s) \/ ReplyFails(s)

Broker ==
    \/ \E s \in Sessions : \/ AcquireSession(s) \/ SessionStep(s)
                           \/ ReleaseSession(s) \/ LoseRelease(s)
    \/ \E p \in Planters : PlantDecoys(p) \/ WriteFiles(p) \/ WriteFails(p)
    \/ \E t \in Sessions \cup {Reaper} : Destroying(t)
    \/ ReaperWakes \/ ReaperLocks \/ ReapNext \/ ReaperSleeps
    \/ Startup

World == \/ Crash \/ ContainerDies \/ ProxyRecreated \/ Tick
         \/ \E s \in Sessions : GiveUp(s)

Next == Broker \/ World

Spec == Init /\ [][Next]_vars

(* Fairness.  A coroutine whose Docker call has returned runs on; the lock *)
(* is an asyncio.Lock, which wakes its waiters in the order they came, so  *)
(* the reaper is not starved of it.                                        *)
Fairness ==
    /\ \A s \in Sessions : WF_vars(SessionStep(s))
    /\ \A t \in Sessions \cup {Reaper} : WF_vars(Destroying(t))
    /\ WF_vars(ReaperWakes) /\ SF_vars(ReaperLocks)
    /\ WF_vars(ReapNext) /\ WF_vars(ReaperSleeps)
    /\ WF_vars(Startup)

FairSpec == Spec /\ Fairness

-----------------------------------------------------------------------------
(* Properties.                                                             *)

(* An attacker only ever reaches a container that was built for them: the  *)
(* tracked backend, every bridged session and every planted decoy.  Broken *)
(* by a stale backend used after an unlock, or by adopting the wrong node. *)
EnvironmentIsolation ==
    /\ \A k \in Tracked : builtFor[backends[k].container_id] = k
    /\ \A s \in Sessions : pc[s] = "open" => builtFor[cid[s]] = src[s]
    /\ \A c \in ContainerIds : decoys[c] \subseteq {builtFor[c]}

(* An address names at most one attacker.  acquire_peer finds the owner of *)
(* a pivot by comparing addresses, so a backend that kept the address of a *)
(* network that was given back would hand one attacker to another.         *)
AddressNamesOwner ==
    /\ \A k \in Tracked : backends[k].address \in {subnet[k], NoAddress}
    /\ \A j, k \in Tracked :
         j # k => backends[j].address # backends[k].address \/ backends[j].address = NoAddress

(* While Docker itself does not fail, the entry containers that exist, in  *)
(* the dict or not, never exceed MAX_CONTAINERS: also when the broker dies *)
(* between popping a backend and removing its container, or between        *)
(* creating one and storing it.                                            *)
EntryCeiling == Cardinality({k \in SrcIps : entry[k] # Nobody}) <= MaxContainers

(* A running container is only removed once its key has left the dict: no  *)
(* request can be answered with a container that is on its way out.        *)
TrackedNeverRemoved ==
    [][\A k \in SrcIps : entry[k] # Nobody /\ entry'[k] = Nobody => k \notin Tracked \cup Tracked']_vars

(* A session that was bridged can reach its node, and its node finds the   *)
(* peers' addresses at the proxy, for as long as the broker tracks that    *)
(* container: also after the broker or the proxy was recreated.            *)
BridgedSessionsReachable ==
    \A s \in Sessions :
        pc[s] = "open" /\ src[s] \in Tracked /\ backends[src[s]].container_id = cid[s]
            => src[s] \in attached \cap claimed /\ subnet[src[s]] # Nobody

(* "The network goes with" its container: as long as nothing has failed, a *)
(* front network exists between requests only for a tracked attacker.      *)
NoFrontNetworkLeft ==
    faults = 0 /\ lock = Nobody => \A k \in SrcIps : subnet[k] # Nobody => k \in Tracked

(* IDLE_TTL_SECONDS: "How long a container survives with no active session *)
(* before reaping."  What the code keeps of it, for sessions of any        *)
(* length: the reaper, whose `now` may be old by the time it gets the lock *)
(* and whose list may be old by the time it is worked off, never takes a   *)
(* container from a bridged session that was let in within the TTL.  An    *)
(* older one it takes, as nothing touches a backend that is in use.        *)
ReaperSparesRecentSessions ==
    pc[Reaper] = "remove" =>
        \A s \in Sessions :
            pc[s] = "open" /\ cid[s] = doomed => clock > since[s] + IdleTtl

(* A backend idle for longer than the TTL is reaped or used again.         *)
Idle(k) == k \in Tracked /\ clock > backends[k].last_seen + IdleTtl
IdleIsReaped == \A k \in SrcIps : Idle(k) ~> ~Idle(k)

(* `async with state.lock`: whoever holds the lock is in the section it    *)
(* guards, and nobody else is.  However a request, an eviction or a sweep  *)
(* ends, by an error that is caught, one that is not, or a crash, it has   *)
(* given the lock back.                                                    *)
LockGuardsSection == \A t \in Sessions \cup {Reaper} : pc[t] \in LockedPc <=> lock = t

-----------------------------------------------------------------------------
(* What the broker promises, seen through its state and Docker's.          *)

EnvironmentOf ==
    [k \in SrcIps |-> IF k \in Tracked THEN backends[k].container_id ELSE Nobody]

StandingContainers == {entry[k] : k \in SrcIps} \ {Nobody}

BridgedTo ==
    [s \in Sessions |-> IF pc[s] = "open" THEN <<src[s], cid[s]>> ELSE Nobody]

Environments == INSTANCE AttackerEnvironments
    WITH Attackers <- SrcIps, Containers <- ContainerIds,
         env <- EnvironmentOf, owner <- builtFor, standing <- StandingContainers,
         session <- BridgedTo, planted <- decoys

(* Every step of the broker and of its world, a crash and a restart        *)
(* included, is a step of AttackerEnvironments or invisible there: an      *)
(* attacker has one container at a time, a session is let only into the    *)
(* container the broker then tracks, and only an untracked one is removed. *)
ImplementsEnvironments == Environments!Spec

=============================================================================
